----------------------------- MODULE DailyProofs ----------------------------
(***************************************************************************)
(* Machine-checked proofs about DailySchedule: for any calendar of days of *)
(* 23 to 25 hours, any number of days, manual runs, stops and interventions*)
(* (DailyInv); and, until the first of these, about its limits (PromptInv).*)
(***************************************************************************)
EXTENDS DailySchedule, TLAPS

States == {"none", "choosing", "triggering", "waiting", "checking",
           "success", "failed"}
WrapperRecord ==
    [state : States, since : Nat, sent : Nat, day : Days, seen : BOOLEAN,
     request : [date : Days, generated : Nat, deadline : Nat]]
ChildRecord ==
    [state : {"none", "queued", "running", "success", "failed"}, since : Nat]

RequestOf(w) ==
    [date |-> w - 1, generated |-> Noon(w), deadline |-> AtLocal(w, 16)]

(* What is true of one daily run.                                          *)
Requested(w) ==
    /\ w # ByHand => wrapper[w].day = w
    /\ wrapper[w].request = NoRequest \/ wrapper[w].request = RequestOf(w)
    /\ wrapper[w].request # NoRequest => w # ByHand
    /\ \/ wrapper[w].state \in {"triggering", "waiting", "checking", "success"}
       \/ wrapper[w].seen
       => wrapper[w].request # NoRequest
Followed(w) ==
    /\ wrapper[w].state \in {"checking", "success"} \/ wrapper[w].seen
       => finished[wrapper[w].request.date] # Never
    /\ wrapper[w].state = "success"
       => finished[wrapper[w].request.date] <= AtLocal(w, 16)
Refused(w) ==
    w \in conflict =>
        /\ wrapper[w].request # NoRequest /\ ~ wrapper[w].seen
        /\ child[wrapper[w].request.date].state # "none"
        /\ wrapper[w].state \notin {"waiting", "checking", "success"}

ChildSeen(d) ==
    /\ child[d].state = "success" => finished[d] # Never
    /\ finished[d] <= now

Types ==
    /\ now \in Nat \ {0} /\ up \in BOOLEAN
    /\ wrapper \in [Wrappers -> WrapperRecord]
    /\ child \in [Children -> ChildRecord]
    /\ finished \in [Days -> Nat] /\ conflict \subseteq Wrappers
    /\ faults \in 0..MaxFaults

DailyInv ==
    /\ Types
    /\ \A w \in Wrappers : Requested(w) /\ Followed(w) /\ Refused(w)
    /\ \A d \in Days : ChildSeen(d)

-----------------------------------------------------------------------------
(* The calendar.                                                           *)

LEMMA DayBounds ==
    ASSUME NEW d \in Days
    PROVE  /\ d \in Nat /\ Midnight[d] \in Nat /\ Midnight[d + 1] \in Nat
           /\ Noon(d) \in Nat /\ AtLocal(d, 16) \in Nat
           /\ Midnight[d] < Noon(d) /\ Noon(d) < Midnight[d + 1]
<1>1. d \in Nat /\ d \in 0..LastDay + 1 /\ d + 1 \in 0..LastDay + 1
  BY CalendarConstants DEF Days
<1>2. Midnight[d] \in Nat /\ Midnight[d + 1] \in Nat
  BY <1>1, CalendarConstants
<1>3. Midnight[d + 1] - Midnight[d] \in {276, 288, 300}
  BY CalendarConstants DEF Hour
<1>4. Noon(d) = Midnight[d + 1] - 144 /\ AtLocal(d, 16) = Midnight[d + 1] - 96
  BY <1>2 DEF Noon, AtLocal, Hour
<1>. QED  BY <1>1, <1>2, <1>3, <1>4

LEMMA DateOfNoon ==
    ASSUME NEW d \in Days
    PROVE  LocalDate(Noon(d)) = d /\ IsNoon(Noon(d))
<1> DEFINE Holds(e) == Midnight[e] <= Noon(d) /\ Noon(d) < Midnight[e + 1]
<1>1. Holds(d)
  BY DayBounds
<1>2. ASSUME NEW e \in Days, Holds(e) PROVE e = d
  <2>1. d < e => Midnight[d + 1] <= Midnight[e]
    BY CalendarConstants
  <2>2. e < d => Midnight[e + 1] <= Midnight[d]
    BY CalendarConstants
  <2>3. /\ Midnight[e] \in Nat /\ Midnight[e + 1] \in Nat /\ e \in Nat
        /\ Midnight[d] \in Nat /\ Midnight[d + 1] \in Nat /\ d \in Nat
        /\ Noon(d) \in Nat
    BY DayBounds
  <2>. QED  BY <1>1, <1>2, <2>1, <2>2, <2>3
<1>3. LocalDate(Noon(d)) = d
  BY <1>1, <1>2 DEF LocalDate
<1>. QED  BY <1>3 DEF IsNoon

LEMMA RequestIsOf ==
    ASSUME NEW w \in Wrappers, w # ByHand
    PROVE  /\ Request(Noon(w - 1), Noon(w)) = RequestOf(w)
           /\ RequestOf(w) \in [date : Days, generated : Nat, deadline : Nat]
           /\ RequestOf(w) # NoRequest
           /\ RequestOf(w).date = w - 1 /\ w - 1 \in Days
           /\ Midnight[w] <= Noon(w)
           /\ NamesOneDate(Noon(w - 1), Noon(w)) <=> w > FirstDate
<1>1. w \in Days /\ w - 1 \in Days /\ w \in Nat /\ w > 0 /\ (w - 1) + 1 = w
  BY CalendarConstants DEF Wrappers, Days, ByHand
<1>2. LocalDate(Noon(w)) = w /\ IsNoon(Noon(w))
      /\ LocalDate(Noon(w - 1)) = w - 1 /\ IsNoon(Noon(w - 1))
  BY <1>1, DateOfNoon
<1>3. Noon(w) \in Nat /\ AtLocal(w, 16) \in Nat /\ Midnight[w] < Noon(w)
      /\ Midnight[w] \in Nat
  BY <1>1, DayBounds
<1>4. RequestOf(w) # NoRequest
  <2>1. Noon(w) # 0
    BY <1>3
  <2>. QED  BY <2>1 DEF RequestOf, NoRequest
<1>5. NamesOneDate(Noon(w - 1), Noon(w)) <=> w > FirstDate
  <2>1. FirstDate \in Int
    BY CalendarConstants DEF Days
  <2>. QED  BY <1>1, <1>2, <2>1 DEF NamesOneDate
<1>. QED  BY <1>1, <1>2, <1>3, <1>4, <1>5 DEF Request, Deadline, RequestOf
-----------------------------------------------------------------------------
(* One daily run changes.                                                  *)

Moved(w, state, seen, day, request) ==
    /\ wrapper' \in [Wrappers -> WrapperRecord]
    /\ \A v \in Wrappers \ {w} : wrapper'[v] = wrapper[v]
    /\ wrapper'[w].state = state /\ wrapper'[w].seen = seen
    /\ wrapper'[w].day = day /\ wrapper'[w].request = request

Keeps(w, state) ==
    Moved(w, state, wrapper[w].seen, wrapper[w].day, wrapper[w].request)

LEMMA Effects ==
    ASSUME Types, NEW w \in Wrappers
    PROVE  /\ \A s \in States : End(w, s) => Keeps(w, s)
           /\ Awaits(w) => Keeps(w, "waiting")
           /\ \A day \in Days : Begin(w, day)
                => Moved(w, "choosing", FALSE, day, wrapper[w].request)
<1>1. now \in Nat /\ wrapper \in [Wrappers -> WrapperRecord]
  BY DEF Types
<1>2. ASSUME NEW s \in States, End(w, s) PROVE Keeps(w, s)
  BY <1>1, <1>2 DEF End, Keeps, Moved, WrapperRecord
<1>3. ASSUME Awaits(w) PROVE Keeps(w, "waiting")
  BY <1>1, <1>3 DEF Awaits, Keeps, Moved, WrapperRecord, States
<1>4. ASSUME NEW day \in Days, Begin(w, day)
      PROVE  Moved(w, "choosing", FALSE, day, wrapper[w].request)
  <2> DEFINE r == [wrapper[w] EXCEPT !.state = "choosing", !.since = now,
                                     !.day = day, !.seen = FALSE]
  <2>1. wrapper' = [wrapper EXCEPT ![w] = r]
    BY <1>4 DEF Begin
  <2>2. wrapper[w] \in WrapperRecord
    BY <1>1
  <2>3. r \in WrapperRecord
    BY <1>1, <2>2 DEF WrapperRecord, States
  <2>4. /\ r.state = "choosing" /\ r.seen = FALSE /\ r.day = day
        /\ r.request = wrapper[w].request
    BY <2>2 DEF WrapperRecord
  <2>. HIDE DEF r
  <2>5. /\ wrapper' \in [Wrappers -> WrapperRecord] /\ wrapper'[w] = r
        /\ \A v \in Wrappers \ {w} : wrapper'[v] = wrapper[v]
    BY <1>1, <2>1, <2>3
  <2>. QED  BY <2>4, <2>5 DEF Moved
<1>. QED  BY <1>2, <1>3, <1>4

(* Children, once created, stay, and what has finished has finished.       *)
Grows ==
    /\ \A c \in Children : child[c].state # "none" => child'[c].state # "none"
    /\ \A d \in Days : finished[d] # Never => finished'[d] = finished[d]

LEMMA OthersStay ==
    ASSUME DailyInv, Grows, NEW v \in Wrappers, wrapper'[v] = wrapper[v],
           v \in conflict' => v \in conflict
    PROVE  Requested(v)' /\ Followed(v)' /\ Refused(v)'
<1>1. wrapper[v].request.date \in Days
  BY DEF DailyInv, Types, WrapperRecord
<1>2. wrapper[v].request.date \in Children
  BY <1>1 DEF Children
<1>3. Requested(v) /\ Followed(v) /\ Refused(v)
  BY DEF DailyInv
<1>4. Requested(v)'
  BY <1>3 DEF Requested
<1>5. Followed(v)'
  BY <1>1, <1>3 DEF Followed, Grows
<1>6. Refused(v)'
  BY <1>2, <1>3 DEF Refused, Grows
<1>. QED  BY <1>4, <1>5, <1>6

LEMMA OneMoves ==
    ASSUME DailyInv, Grows, Types', NEW w \in Wrappers,
           \A v \in Wrappers \ {w} : v \in conflict' => v \in conflict,
           NEW state, NEW seen, NEW day, NEW request,
           Moved(w, state, seen, day, request),
           Requested(w)', Followed(w)', Refused(w)',
           \A d \in Days : ChildSeen(d)'
    PROVE  DailyInv'
<1>1. ASSUME NEW v \in Wrappers
      PROVE  Requested(v)' /\ Followed(v)' /\ Refused(v)'
  <2>1. CASE v = w
    BY <2>1
  <2>2. CASE v # w
    BY <2>2, OthersStay DEF Moved
  <2>. QED  BY <2>1, <2>2
<1>. QED  BY <1>1 DEF DailyInv

LEMMA StepTypes ==
    ASSUME Types, wrapper' \in [Wrappers -> WrapperRecord], now' = now,
           child' = child, finished' = finished, conflict' \subseteq Wrappers,
           up' = up, faults' \in 0..MaxFaults
    PROVE  Types' /\ Grows
BY DEF Types, Grows

(* A daily run moves on and nothing else changes.                          *)
LEMMA StateMoves ==
    ASSUME DailyInv, NEW w \in Wrappers, NEW state \in States,
           Keeps(w, state), child' = child, finished' = finished,
           conflict' = conflict, now' = now, up' = up,
           faults' \in 0..MaxFaults,
           state \in {"triggering", "waiting", "checking", "success"}
               => wrapper[w].request # NoRequest,
           state \in {"checking", "success"}
               => finished[wrapper[w].request.date] # Never,
           state = "success"
               => finished[wrapper[w].request.date] <= AtLocal(w, 16),
           state \in {"waiting", "checking", "success"} => w \notin conflict
    PROVE  DailyInv'
<1>1. Types' /\ Grows
  BY StepTypes DEF DailyInv, Types, Keeps, Moved
<1>2. Requested(w) /\ Followed(w) /\ Refused(w)
  BY DEF DailyInv
<1>3. Requested(w)'
  BY <1>2 DEF Requested, Keeps, Moved
<1>4. Followed(w)'
  BY <1>2 DEF Followed, Keeps, Moved
<1>5. Refused(w)'
  BY <1>2 DEF Refused, Keeps, Moved
<1>6. \A d \in Days : ChildSeen(d)'
  BY DEF DailyInv, ChildSeen
<1>. QED  BY <1>1, <1>3, <1>4, <1>5, <1>6, OneMoves DEF Keeps

LEMMA Begins ==
    ASSUME DailyInv, NEW w \in Wrappers, NEW day \in Days, Begin(w, day),
           w # ByHand => day = w, child' = child, finished' = finished,
           now' = now, up' = up, faults' \in 0..MaxFaults,
           conflict' \subseteq conflict \cup {w},
           w \in conflict' =>
               /\ wrapper[w].request # NoRequest
               /\ child[wrapper[w].request.date].state # "none"
    PROVE  DailyInv'
<1>1. Moved(w, "choosing", FALSE, day, wrapper[w].request)
  BY Effects DEF DailyInv
<1>2. Types' /\ Grows
  BY <1>1, StepTypes DEF DailyInv, Types, Moved
<1>3. Requested(w) /\ Followed(w) /\ Refused(w)
  BY DEF DailyInv
<1>4. Requested(w)'
  BY <1>1, <1>3 DEF Requested, Moved
<1>5. Followed(w)'
  BY <1>1, <1>3 DEF Followed, Moved
<1>6. Refused(w)'
  BY <1>1, <1>3 DEF Refused, Moved
<1>7. \A d \in Days : ChildSeen(d)'
  BY DEF DailyInv, ChildSeen
<1>. QED  BY <1>1, <1>2, <1>4, <1>5, <1>6, <1>7, OneMoves

LEMMA Chooses ==
    ASSUME DailyInv, NEW w \in Wrappers, ChooseCompletedOperatingDate(w)
    PROVE  DailyInv'
<1> DEFINE q == Request(Noon(wrapper[w].day - 1), Noon(wrapper[w].day))
<1>0. UNCHANGED <<now, up, child, finished, conflict, faults>>
  BY DEF ChooseCompletedOperatingDate
<1>1. CASE End(w, "failed")
  <2>1. Keeps(w, "failed")
    BY <1>1, Effects DEF DailyInv, States
  <2>. QED  BY <1>0, <2>1, StateMoves DEF DailyInv, Types, States
<1>2. CASE /\ RequireScheduledRun(w)
           /\ wrapper' = [wrapper EXCEPT ![w].state = "triggering",
                                         ![w].request = q]
  <2>1. w # ByHand /\ wrapper[w].day = w
    BY <1>2 DEF RequireScheduledRun, DailyInv, Requested
  <2>2. /\ q = RequestOf(w) /\ q # NoRequest
        /\ q \in [date : Days, generated : Nat, deadline : Nat]
    BY <2>1, RequestIsOf
  <2> HIDE DEF q
  <2>3. Moved(w, "triggering", wrapper[w].seen, w, q)
    <3> DEFINE r == [wrapper[w] EXCEPT !.state = "triggering", !.request = q]
    <3>1. wrapper \in [Wrappers -> WrapperRecord]
      BY DEF DailyInv, Types
    <3>2. wrapper' = [wrapper EXCEPT ![w] = r]
      BY <1>2
    <3>3. r \in WrapperRecord
      BY <2>2, <3>1 DEF WrapperRecord, States
    <3>4. /\ r.state = "triggering" /\ r.seen = wrapper[w].seen
          /\ r.day = wrapper[w].day /\ r.request = q
      BY <3>1 DEF WrapperRecord
    <3>. HIDE DEF r
    <3>5. /\ wrapper' \in [Wrappers -> WrapperRecord] /\ wrapper'[w] = r
          /\ \A v \in Wrappers \ {w} : wrapper'[v] = wrapper[v]
      BY <3>1, <3>2, <3>3
    <3>. QED  BY <2>1, <3>4, <3>5 DEF Moved
  <2>4. Types' /\ Grows
    BY <1>0, <2>3, StepTypes DEF DailyInv, Types, Moved
  <2>5. Requested(w) /\ Followed(w) /\ Refused(w)
    BY DEF DailyInv
  <2>6. wrapper[w].request = NoRequest \/ wrapper[w].request = q
    BY <2>2, <2>5 DEF Requested
  <2>7. Requested(w)'
    BY <2>1, <2>2, <2>3 DEF Requested, Moved
  <2>8. Followed(w)'
    BY <1>0, <2>3, <2>5, <2>6 DEF Followed, Requested, Moved
  <2>9. Refused(w)'
    BY <1>0, <2>2, <2>3, <2>5, <2>6 DEF Refused, Moved
  <2>10. \A d \in Days : ChildSeen(d)'
    BY <1>0 DEF DailyInv, ChildSeen
  <2>. QED  BY <1>0, <2>3, <2>4, <2>7, <2>8, <2>9, <2>10, OneMoves
<1>. QED  BY <1>1, <1>2 DEF ChooseCompletedOperatingDate

(* A child changes state, the daily runs do not.                           *)
LEMMA ChildMoves ==
    ASSUME DailyInv, NEW c \in Children, NEW s, NEW t \in Nat, Child(c, s, t),
           s \in {"queued", "running", "success", "failed"},
           wrapper' = wrapper, conflict' = conflict, now' = now, up' = up,
           faults' \in 0..MaxFaults, finished' \in [Days -> Nat],
           \A d \in Days : /\ finished[d] # Never => finished'[d] = finished[d]
                           /\ finished'[d] <= now,
           s = "success" /\ c \in Days => finished'[c] # Never
    PROVE  DailyInv'
<1>0. s # "none"
  OBVIOUS
<1>1. Types'
  <2>1. [state |-> s, since |-> t] \in ChildRecord
    BY DEF ChildRecord
  <2>. QED  BY <2>1 DEF DailyInv, Types, Child
<1>2. child'[c].state = s /\ \A d \in Children \ {c} : child'[d] = child[d]
  BY DEF DailyInv, Types, Child
<1>3. Grows
  BY <1>0, <1>2 DEF Grows
<1>4. \A v \in Wrappers : Requested(v)' /\ Followed(v)' /\ Refused(v)'
  BY <1>3, OthersStay
<1>5. ASSUME NEW d \in Days PROVE ChildSeen(d)'
  <2>1. ChildSeen(d) /\ d \in Children
    BY DEF DailyInv, Children
  <2>2. CASE d = c
    BY <1>2, <2>1, <2>2 DEF ChildSeen
  <2>3. CASE d # c
    BY <1>2, <2>1, <2>3 DEF ChildSeen
  <2>. QED  BY <2>2, <2>3
<1>. QED  BY <1>1, <1>4, <1>5 DEF DailyInv

LEMMA Triggers ==
    ASSUME DailyInv, NEW w \in Wrappers, RunExistingPipeline(w)
    PROVE  DailyInv'
<1> DEFINE d == wrapper[w].request.date
<1>0. UNCHANGED <<now, up, finished, conflict, faults>>
  BY DEF RunExistingPipeline
<1>1. CASE UNCHANGED child /\ End(w, "failed")
  <2>1. Keeps(w, "failed")
    BY <1>1, Effects DEF DailyInv, States
  <2>. QED  BY <1>0, <1>1, <2>1, StateMoves DEF DailyInv, Types, States
<1>2. CASE child[d].state = "none" /\ Queued(d) /\ Awaits(w)
  <2>1. Requested(w) /\ Followed(w) /\ Refused(w) /\ wrapper[w].state = "triggering"
    BY DEF DailyInv, RunExistingPipeline
  <2>2. Keeps(w, "waiting")
    BY <1>2, Effects DEF DailyInv
  <2>3. d \in Days /\ d \in Children
    BY DEF DailyInv, Types, WrapperRecord, Children
  <2>4. /\ child' \in [Children -> ChildRecord] /\ child'[d].state = "queued"
        /\ \A c \in Children \ {d} : child'[c] = child[c]
    BY <1>2, <2>3 DEF Queued, Child, ChildRecord, DailyInv, Types
  <2>5. Types'
    BY <1>0, <2>2, <2>4 DEF DailyInv, Types, Keeps, Moved
  <2>6. Grows
    BY <1>0, <1>2, <2>4 DEF Grows
  <2>7. w \notin conflict
    BY <1>2, <2>1 DEF Refused
  <2>8. Requested(w)'
    BY <2>1, <2>2 DEF Requested, Keeps, Moved
  <2>9. Followed(w)'
    BY <1>0, <2>1, <2>2 DEF Followed, Keeps, Moved
  <2>10. Refused(w)'
    BY <1>0, <2>7 DEF Refused
  <2>11. ASSUME NEW e \in Days PROVE ChildSeen(e)'
    <3>1. ChildSeen(e) /\ e \in Children
      BY DEF DailyInv, Children
    <3>2. CASE e = d
      BY <1>0, <2>4, <3>1, <3>2 DEF ChildSeen
    <3>3. CASE e # d
      BY <1>0, <2>4, <3>1, <3>3 DEF ChildSeen
    <3>. QED  BY <3>2, <3>3
  <2>. QED  BY <1>0, <2>2, <2>5, <2>6, <2>8, <2>9, <2>10, <2>11, OneMoves
            DEF Keeps
<1>. QED  BY <1>1, <1>2 DEF RunExistingPipeline, TriggerChild

-----------------------------------------------------------------------------
(* The remaining steps of a daily run.                                     *)

LEMMA Sees ==
    ASSUME DailyInv, NEW w \in Wrappers, SeeChild(w)
    PROVE  DailyInv'
<1> DEFINE d == wrapper[w].request.date
<1>0. /\ UNCHANGED <<now, up, child, finished, conflict, faults>>
      /\ wrapper[w].state = "waiting"
  BY DEF SeeChild
<1>1. CASE End(w, "failed")
  <2>1. Keeps(w, "failed")
    BY <1>1, Effects DEF DailyInv, States
  <2>. QED  BY <1>0, <2>1, StateMoves DEF DailyInv, Types, States
<1>2. CASE /\ child[d].state = "success"
           /\ wrapper' = [wrapper EXCEPT ![w].state = "checking",
                                         ![w].seen = TRUE]
  <2>1. Moved(w, "checking", TRUE, wrapper[w].day, wrapper[w].request)
    <3> DEFINE r == [wrapper[w] EXCEPT !.state = "checking", !.seen = TRUE]
    <3>1. wrapper \in [Wrappers -> WrapperRecord]
      BY DEF DailyInv, Types
    <3>2. wrapper' = [wrapper EXCEPT ![w] = r]
      BY <1>2
    <3>3. r \in WrapperRecord
      BY <3>1 DEF WrapperRecord, States
    <3>4. /\ r.state = "checking" /\ r.seen = TRUE
          /\ r.day = wrapper[w].day /\ r.request = wrapper[w].request
      BY <3>1 DEF WrapperRecord
    <3>. HIDE DEF r
    <3>5. /\ wrapper' \in [Wrappers -> WrapperRecord] /\ wrapper'[w] = r
          /\ \A v \in Wrappers \ {w} : wrapper'[v] = wrapper[v]
      BY <3>1, <3>2, <3>3
    <3>. QED  BY <3>4, <3>5 DEF Moved
  <2>2. Types' /\ Grows
    BY <1>0, <2>1, StepTypes DEF DailyInv, Types, Moved
  <2>3. Requested(w) /\ Followed(w) /\ Refused(w)
    BY DEF DailyInv
  <2>4. d \in Days
    BY DEF DailyInv, Types, WrapperRecord
  <2>5. finished[d] # Never
    BY <1>2, <2>4 DEF DailyInv, ChildSeen
  <2>6. Requested(w)'
    BY <1>0, <2>1, <2>3 DEF Requested, Moved
  <2>7. Followed(w)'
    BY <1>0, <2>1, <2>5 DEF Followed, Moved
  <2>8. Refused(w)'
    BY <1>0, <2>3 DEF Refused
  <2>9. \A e \in Days : ChildSeen(e)'
    BY <1>0 DEF DailyInv, ChildSeen
  <2>. QED  BY <1>0, <2>1, <2>2, <2>6, <2>7, <2>8, <2>9, OneMoves
<1>. QED  BY <1>1, <1>2 DEF SeeChild

LEMMA Checks ==
    ASSUME DailyInv, NEW w \in Wrappers, CheckFinishedOnTime(w)
    PROVE  DailyInv'
<1>0. /\ UNCHANGED <<now, up, child, finished, conflict, faults>>
      /\ wrapper[w].state = "checking"
  BY DEF CheckFinishedOnTime
<1>1. CASE End(w, "failed")
  <2>1. Keeps(w, "failed")
    BY <1>1, Effects DEF DailyInv, States
  <2>. QED  BY <1>0, <2>1, StateMoves DEF DailyInv, Types, States
<1>2. CASE now <= wrapper[w].request.deadline /\ End(w, "success")
  <2>1. Keeps(w, "success")
    BY <1>2, Effects DEF DailyInv, States
  <2>2. Requested(w) /\ Followed(w) /\ Refused(w)
    BY DEF DailyInv
  <2>3. /\ wrapper[w].request # NoRequest /\ w \notin conflict
        /\ finished[wrapper[w].request.date] # Never
    BY <1>0, <2>2 DEF Requested, Followed, Refused
  <2>4. wrapper[w].request.deadline = AtLocal(w, 16)
    BY <2>2, <2>3 DEF Requested, RequestOf
  <2>5. finished[wrapper[w].request.date] <= now
    BY DEF DailyInv, Types, WrapperRecord, ChildSeen
  <2>6. /\ finished[wrapper[w].request.date] \in Nat /\ now \in Nat
        /\ AtLocal(w, 16) \in Nat
    BY DayBounds DEF DailyInv, Types, WrapperRecord, Wrappers
  <2>7. finished[wrapper[w].request.date] <= AtLocal(w, 16)
    BY <1>2, <2>4, <2>5, <2>6
  <2>. QED
    BY <1>0, <2>1, <2>3, <2>7, StateMoves DEF DailyInv, Types, States
<1>. QED  BY <1>1, <1>2 DEF CheckFinishedOnTime

LEMMA Expires ==
    ASSUME DailyInv, NEW w \in Wrappers, WrapperTimesOut(w)
    PROVE  DailyInv'
<1>1. Keeps(w, "failed")
  BY Effects DEF WrapperTimesOut, DailyInv, States
<1>. QED  BY <1>1, StateMoves DEF WrapperTimesOut, DailyInv, Types, States

LEMMA Schedules ==
    ASSUME DailyInv, NEW w \in Wrappers, Schedule(w) \/ ClearWrapper(w)
    PROVE  DailyInv'
<1>1. w \in Days /\ MaxFaults \in Nat /\ faults \in 0..MaxFaults
      /\ conflict \subseteq Wrappers
  BY CalendarConstants DEF Wrappers, DailyInv, Types
<1>2. CASE Schedule(w)
  <2>1. conflict' = conflict /\ faults' = faults /\ Begin(w, w)
        /\ UNCHANGED <<now, up, child, finished>> /\ wrapper[w].state = "none"
    BY <1>2 DEF Schedule, Due
  <2>2. Refused(w)
    BY DEF DailyInv
  <2>. QED  BY <1>1, <2>1, <2>2, Begins DEF Refused
<1>3. CASE ClearWrapper(w)
  <2>1. wrapper[w].day \in Days /\ (w # ByHand => wrapper[w].day = w)
    BY DEF DailyInv, Types, WrapperRecord, Requested
  <2>2. /\ Begin(w, wrapper[w].day) /\ UNCHANGED <<now, up, child, finished>>
        /\ faults' \in 0..MaxFaults
    BY <1>1, <1>3 DEF ClearWrapper, Begin
  <2>3. /\ conflict' \subseteq conflict \cup {w}
        /\ w \in conflict' =>
               /\ wrapper[w].request # NoRequest
               /\ child[wrapper[w].request.date].state # "none"
    BY <1>3 DEF ClearWrapper, DailyInv, Refused
  <2>. QED  BY <2>1, <2>2, <2>3, Begins
<1>. QED  BY <1>2, <1>3

LEMMA StartedByHand ==
    ASSUME DailyInv, TriggerDaily
    PROVE  DailyInv'
<1>1. PICK day \in Days : Begin(ByHand, day)
  BY DEF TriggerDaily
<1>2. ByHand \in Wrappers
  BY CalendarConstants DEF ByHand, Wrappers, Days
<1>3. /\ UNCHANGED <<now, up, child, finished, conflict>>
      /\ wrapper[ByHand].state = "none" /\ faults' \in 0..MaxFaults
  BY CalendarConstants, <1>1 DEF TriggerDaily, DailyInv, Types, Begin
<1>4. Refused(ByHand)
  BY <1>2 DEF DailyInv
<1>. QED  BY <1>1, <1>2, <1>3, <1>4, Begins DEF Refused

LEMMA CheckCleared ==
    ASSUME DailyInv, NEW w \in Wrappers, ClearCheck(w)
    PROVE  DailyInv'
<1>1. wrapper \in [Wrappers -> WrapperRecord] /\ now \in Nat
  BY DEF DailyInv, Types
<1>2. Keeps(w, "checking")
  BY <1>1 DEF ClearCheck, Keeps, Moved, WrapperRecord, States
<1>3. Requested(w) /\ Followed(w) /\ Refused(w) /\ wrapper[w].seen
  BY DEF DailyInv, ClearCheck
<1>4. /\ wrapper[w].request # NoRequest /\ w \notin conflict
      /\ finished[wrapper[w].request.date] # Never
  BY <1>3 DEF Requested, Followed, Refused
<1>5. /\ UNCHANGED <<now, up, child, finished, conflict>>
      /\ faults' \in 0..MaxFaults
  BY CalendarConstants DEF ClearCheck, DailyInv, Types
<1>. QED  BY <1>2, <1>4, <1>5, StateMoves DEF States

-----------------------------------------------------------------------------
(* The steps of a child.                                                   *)

LEMMA ChildSteps ==
    ASSUME DailyInv, NEW c \in Children,
           TriggerManual(c) \/ StartChild(c) \/ ChildTimesOut(c) \/ ClearChild(c)
    PROVE  DailyInv'
<1>1. /\ now \in Nat /\ finished \in [Days -> Nat] /\ MaxFaults \in Nat
      /\ faults \in 0..MaxFaults /\ 0 \in Nat
      /\ \A d \in Days : finished[d] <= now
  BY CalendarConstants DEF DailyInv, Types, ChildSeen
<1>2. /\ UNCHANGED <<now, up, wrapper, finished, conflict>>
      /\ faults' \in 0..MaxFaults
  BY <1>1 DEF TriggerManual, StartChild, ChildTimesOut, ClearChild
<1>3. CASE TriggerManual(c) \/ ClearChild(c)
  <2>1. Child(c, "queued", 0)
    BY <1>3 DEF TriggerManual, ClearChild
  <2>. QED  BY <1>1, <1>2, <2>1, ChildMoves
<1>4. CASE StartChild(c)
  BY <1>1, <1>2, <1>4, ChildMoves DEF StartChild
<1>5. CASE ChildTimesOut(c)
  BY <1>1, <1>2, <1>5, ChildMoves DEF ChildTimesOut
<1>. QED  BY <1>3, <1>4, <1>5

LEMMA ChildEnds ==
    ASSUME DailyInv, NEW c \in Children, EndChild(c)
    PROVE  DailyInv'
<1>1. /\ now \in Nat \ {0} /\ finished \in [Days -> Nat]
      /\ faults \in 0..MaxFaults /\ 0 \in Nat
      /\ \A d \in Days : finished[d] <= now
  BY DEF DailyInv, Types, ChildSeen
<1>2. UNCHANGED <<now, up, wrapper, conflict, faults>>
  BY DEF EndChild
<1>3. CASE Child(c, "failed", 0) /\ UNCHANGED finished
  BY <1>1, <1>2, <1>3, ChildMoves
<1>4. CASE /\ Child(c, "success", 0)
           /\ finished' = IF c \in Days /\ finished[c] = Never
                          THEN [finished EXCEPT ![c] = now] ELSE finished
  <2>1. /\ finished' \in [Days -> Nat]
        /\ \A d \in Days : /\ finished[d] # Never => finished'[d] = finished[d]
                            /\ finished'[d] <= now
        /\ c \in Days => finished'[c] # Never
    BY <1>1, <1>4 DEF Never
  <2>. QED  BY <1>1, <1>2, <1>4, <2>1, ChildMoves
<1>. QED  BY <1>3, <1>4 DEF EndChild

-----------------------------------------------------------------------------
(* The machine and the clock.                                              *)

LEMMA Stops ==
    ASSUME DailyInv, Stop
    PROVE  DailyInv'
<1>0. /\ UNCHANGED <<now, finished, conflict>> /\ up' = FALSE
      /\ faults < MaxFaults /\ faults' = faults + 1
  BY DEF Stop
<1>1. /\ wrapper \in [Wrappers -> WrapperRecord]
      /\ child \in [Children -> ChildRecord]
      /\ faults' \in 0..MaxFaults
  BY <1>0, CalendarConstants DEF DailyInv, Types
<1>2. /\ child' \in [Children -> ChildRecord]
      /\ \A c \in Children :
            \/ child'[c] = child[c]
            \/ child[c].state = "none" /\ child'[c].state = "queued"
  <2>1. CASE UNCHANGED child
    BY <1>1, <2>1
  <2>2. CASE \E w \in Wrappers :
               /\ child[wrapper[w].request.date].state = "none"
               /\ Queued(wrapper[w].request.date)
    <3>1. PICK w \in Wrappers : /\ child[wrapper[w].request.date].state = "none"
                                /\ Queued(wrapper[w].request.date)
      BY <2>2
    <3> DEFINE r == [state |-> "queued", since |-> 0]
    <3>2. r \in ChildRecord /\ r.state = "queued"
      BY DEF ChildRecord
    <3>3. child' = [child EXCEPT ![wrapper[w].request.date] = r]
      BY <3>1 DEF Queued, Child
    <3>. HIDE DEF r
    <3>. QED  BY <1>1, <3>1, <3>2, <3>3
  <2>. QED  BY <2>1, <2>2 DEF Stop
<1>3. ASSUME NEW v \in Wrappers
      PROVE  /\ wrapper'[v] \in WrapperRecord
             /\ wrapper'[v].seen = wrapper[v].seen
             /\ wrapper'[v].day = wrapper[v].day
             /\ wrapper'[v].request = wrapper[v].request
             /\ wrapper'[v].state \in {"failed", wrapper[v].state}
  <2> DEFINE r == [wrapper[v] EXCEPT !.state = "failed", !.since = 0, !.sent = 0]
  <2>1. wrapper'[v] = r \/ wrapper'[v] = wrapper[v]
    BY DEF Stop
  <2>2. wrapper[v] \in WrapperRecord
    BY <1>1
  <2>3. /\ r \in WrapperRecord /\ r.state = "failed" /\ r.seen = wrapper[v].seen
        /\ r.day = wrapper[v].day /\ r.request = wrapper[v].request
    BY <2>2 DEF WrapperRecord, States
  <2>. HIDE DEF r
  <2>. QED  BY <2>1, <2>2, <2>3
<1>4. wrapper' \in [Wrappers -> WrapperRecord]
  <2>1. wrapper' = [v \in Wrappers |-> wrapper'[v]]
    BY DEF Stop
  <2>. QED  BY <1>3, <2>1
<1>5. Types' /\ Grows
  BY <1>0, <1>1, <1>2, <1>4 DEF DailyInv, Types, Grows
<1>6. ASSUME NEW v \in Wrappers
      PROVE  Requested(v)' /\ Followed(v)' /\ Refused(v)'
  <2>1. /\ Requested(v) /\ Followed(v) /\ Refused(v)
        /\ wrapper[v].request.date \in Days /\ wrapper[v].request.date \in Children
    BY <1>1 DEF DailyInv, WrapperRecord, Children
  <2>2. Requested(v)'
    BY <1>3, <2>1 DEF Requested
  <2>3. Followed(v)'
    BY <1>0, <1>3, <2>1 DEF Followed
  <2>4. Refused(v)'
    BY <1>0, <1>2, <1>3, <2>1 DEF Refused
  <2>. QED  BY <2>2, <2>3, <2>4
<1>7. ASSUME NEW d \in Days PROVE ChildSeen(d)'
  <2>1. d \in Children /\ ChildSeen(d)
    BY DEF Children, DailyInv
  <2>. QED  BY <1>0, <1>2, <2>1 DEF ChildSeen
<1>. QED  BY <1>5, <1>6, <1>7 DEF DailyInv

LEMMA TimePasses ==
    ASSUME DailyInv, Tick
    PROVE  DailyInv'
<1>1. UNCHANGED <<up, wrapper, child, finished, conflict, faults>>
  BY DEF Tick
<1>2. /\ now \in Nat /\ wrapper \in [Wrappers -> WrapperRecord]
      /\ child \in [Children -> ChildRecord] /\ finished \in [Days -> Nat]
  BY DEF DailyInv, Types
<1>3. now' \in Instants \cup Timers /\ now' > now
  BY DEF Tick
<1>4. Timers \subseteq Nat
  <2>1. \A w \in Wrappers : wrapper[w].since \in Nat /\ wrapper[w].sent \in Nat
    BY <1>2 DEF WrapperRecord
  <2>2. \A c \in Children : child[c].since \in Nat
    BY <1>2 DEF ChildRecord
  <2>3. RunLimit \in Nat /\ WaitLimit \in Nat /\ ChildLimit \in Nat
    BY DEF RunLimit, WaitLimit, ChildLimit, Hour
  <2>. HIDE DEF RunLimit, WaitLimit, ChildLimit
  <2>. QED  BY <2>1, <2>2, <2>3 DEF Timers
<1>5. now' \in Nat /\ now' # 0
  BY <1>2, <1>3, <1>4, CalendarConstants
<1>6. Types'
  BY <1>1, <1>5 DEF DailyInv, Types
<1>7. ASSUME NEW v \in Wrappers
      PROVE  Requested(v)' /\ Followed(v)' /\ Refused(v)'
  <2>1. Grows
    BY <1>1 DEF Grows
  <2>. QED  BY <1>1, <2>1, OthersStay
<1>8. ASSUME NEW d \in Days PROVE ChildSeen(d)'
  <2>1. ChildSeen(d) /\ finished[d] \in Nat
    BY <1>2 DEF DailyInv
  <2>. QED  BY <1>1, <1>2, <1>3, <1>5, <2>1 DEF ChildSeen
<1>. QED  BY <1>6, <1>7, <1>8 DEF DailyInv

LEMMA NothingMoves ==
    ASSUME DailyInv, UNCHANGED <<now, wrapper, child, finished, conflict, faults>>,
           up' \in BOOLEAN
    PROVE  DailyInv'
BY DEF DailyInv, Types, Requested, Followed, Refused, ChildSeen

-----------------------------------------------------------------------------
LEMMA DailyInit == Init => DailyInv
<1> SUFFICES ASSUME Init PROVE DailyInv
  OBVIOUS
<1>1. /\ \A w \in Wrappers : /\ wrapper[w].state = "none" /\ wrapper[w].day = w
                              /\ wrapper[w].seen = FALSE
                              /\ wrapper[w].request = NoRequest
      /\ conflict = {} /\ \A d \in Days : finished[d] = 0
      /\ \A c \in Children : child[c].state = "none"
  BY DEF Init, Never
<1>2. 0 \in Days
  BY CalendarConstants DEF Days
<1>3. NoRequest \in [date : Days, generated : Nat, deadline : Nat]
  BY <1>2 DEF NoRequest
<1>4. now \in Nat \ {0} /\ 0 \in 0..MaxFaults
  BY CalendarConstants DEF Init
<1>5. wrapper \in [Wrappers -> WrapperRecord]
  <2>. HIDE DEF NoRequest
  <2>. QED  BY <1>3 DEF Init, WrapperRecord, States, Wrappers
<1>6. child \in [Children -> ChildRecord]
  BY DEF Init, ChildRecord
<1>7. Types
  BY <1>4, <1>5, <1>6 DEF Init, Types, Never
<1>8. \A w \in Wrappers : Requested(w) /\ Followed(w) /\ Refused(w)
  BY <1>1 DEF Requested, Followed, Refused
<1>9. \A d \in Days : ChildSeen(d)
  BY <1>1, <1>4, <1>7 DEF ChildSeen, Children, Types
<1>. QED  BY <1>7, <1>8, <1>9 DEF DailyInv

LEMMA DailyNext == DailyInv /\ [Next]_vars => DailyInv'
<1> SUFFICES ASSUME DailyInv, [Next]_vars PROVE DailyInv'
  OBVIOUS
<1>1. ASSUME NEW w \in Wrappers, Schedule(w) \/ ClearWrapper(w) PROVE DailyInv'
  BY <1>1, Schedules
<1>2. ASSUME NEW w \in Wrappers, ClearCheck(w) PROVE DailyInv'
  BY <1>2, CheckCleared
<1>3. ASSUME NEW w \in Wrappers, WrapperStep(w) PROVE DailyInv'
  BY <1>3, Chooses, Triggers, Sees, Checks, Expires DEF WrapperStep
<1>4. ASSUME NEW c \in Children,
             TriggerManual(c) \/ ChildStep(c) \/ ClearChild(c)
      PROVE  DailyInv'
  BY <1>4, ChildSteps DEF ChildStep
<1>5. ASSUME NEW c \in Children, EndChild(c) PROVE DailyInv'
  BY <1>5, ChildEnds
<1>6. CASE TriggerDaily
  BY <1>6, StartedByHand
<1>7. CASE Stop
  BY <1>7, Stops
<1>8. CASE Restart
  BY <1>8, NothingMoves DEF Restart
<1>9. CASE Tick
  BY <1>9, TimePasses
<1>10. CASE UNCHANGED vars
  BY <1>10, NothingMoves DEF vars, DailyInv, Types
<1>. QED
  BY <1>1, <1>2, <1>3, <1>4, <1>5, <1>6, <1>7, <1>8, <1>9, <1>10 DEF Next

LEMMA DailyAlways == Spec => []DailyInv
BY DailyInit, DailyNext, PTL DEF Spec

-----------------------------------------------------------------------------
(* The clock, the daily runs and the manual runs keep their shapes.        *)
THEOREM DailyTypes == Spec => []TypeOK
<1>1. DailyInv => TypeOK
  BY DEF DailyInv, Types, TypeOK, WrapperRecord, ChildRecord, States
<1>. QED  BY <1>1, DailyAlways, PTL

(* A daily run that succeeded covers a complete London date whose child    *)
(* had succeeded by 16:00 of the next day (the check of daily_schedule.py),*)
(* in any calendar of days of 23, 24 and 25 hours.                         *)
THEOREM SuccessMeansOnTime == Spec => []OnTimeIsTrue
<1>1. ASSUME DailyInv PROVE OnTimeIsTrue
  <2> SUFFICES ASSUME NEW w \in Wrappers, wrapper[w].state = "success"
               PROVE  LET d == wrapper[w].request.date
                      IN  /\ Midnight[d + 1] <= wrapper[w].request.generated
                          /\ finished[d] # Never
                          /\ finished[d] <= AtLocal(d + 1, 16)
    BY DEF OnTimeIsTrue
  <2>1. Requested(w) /\ Followed(w)
    BY <1>1 DEF DailyInv
  <2>2. w # ByHand /\ wrapper[w].request = RequestOf(w)
    BY <2>1 DEF Requested
  <2>3. /\ wrapper[w].request.date = w - 1 /\ Midnight[w] <= Noon(w)
        /\ wrapper[w].request.generated = Noon(w)
    BY <2>2, RequestIsOf DEF RequestOf
  <2>4. (w - 1) + 1 = w
    BY CalendarConstants DEF Wrappers, Days
  <2>. QED  BY <2>1, <2>3, <2>4 DEF Followed
<1>. QED  BY <1>1, DailyAlways, PTL

(* No two daily runs ask for one date: a run started by hand names none,   *)
(* and each scheduled run the date before its own.                         *)
THEOREM DatesAreAskedOnce == Spec => []OneRequestPerDate
<1>1. ASSUME DailyInv PROVE OneRequestPerDate
  <2> SUFFICES ASSUME NEW v \in Wrappers, NEW w \in Wrappers,
                      wrapper[v].request # NoRequest,
                      wrapper[w].request # NoRequest,
                      wrapper[v].request.date = wrapper[w].request.date
               PROVE  v = w
    BY DEF OneRequestPerDate
  <2>1. Requested(v) /\ Requested(w)
    BY <1>1 DEF DailyInv
  <2>2. v # ByHand /\ w # ByHand
        /\ wrapper[v].request = RequestOf(v) /\ wrapper[w].request = RequestOf(w)
    BY <2>1 DEF Requested
  <2>3. v - 1 = w - 1
    BY <2>2, RequestIsOf
  <2>4. v \in Int /\ w \in Int
    BY CalendarConstants DEF Wrappers, Days
  <2>. QED  BY <2>3, <2>4
<1>. QED  BY <1>1, DailyAlways, PTL

(* A daily run cleared when its child exists is never reported successful  *)
(* (orchestration/README.md): its trigger refuses the existing run.        *)
THEOREM ConflictsNeverSucceed == Spec => []ConflictIsReported
<1>1. DailyInv => ConflictIsReported
  BY DEF DailyInv, Types, Refused, ConflictIsReported
<1>. QED  BY <1>1, DailyAlways, PTL

(* No interval scheduled since the timeline began is refused, however long *)
(* it is: choose_completed_operating_date fails only with its machine or   *)
(* at the limit of its run.                                                *)
THEOREM EveryDayIsAccepted == Spec => NoDayIsRefused
<1> DEFINE Refuses(w) == /\ w > FirstDate /\ wrapper[w].state = "choosing"
                         /\ wrapper'[w].state = "failed"
<1>1. ASSUME DailyInv, [Next]_vars, NEW w \in Wrappers \ {ByHand}, Refuses(w)
      PROVE  ~ up' \/ RunExpired(w)
  <2>1. wrapper \in [Wrappers -> WrapperRecord] /\ w \in Wrappers
    BY <1>1 DEF DailyInv, Types
  <2>2. ASSUME NEW v \in Wrappers,
               ClearCheck(v) \/ RunExistingPipeline(v) \/ SeeChild(v)
                   \/ CheckFinishedOnTime(v)
        PROVE  FALSE
    <3>1. wrapper[v].state # "choosing" /\ wrapper[v].state \in States
      BY <2>1, <2>2 DEF ClearCheck, RunExistingPipeline, SeeChild,
                        CheckFinishedOnTime, WrapperRecord
    <3>2. v # w
      BY <1>1, <3>1
    <3>3. wrapper'[w] = wrapper[w]
      BY <2>1, <2>2, <3>2 DEF ClearCheck, RunExistingPipeline, TriggerChild,
             SeeChild, CheckFinishedOnTime, End, Awaits
    <3>. QED  BY <1>1, <3>3
  <2>3. ASSUME NEW v \in Wrappers, NEW day, Begin(v, day) PROVE FALSE
    BY <1>1, <2>1, <2>3 DEF Begin, Active
  <2>4. ASSUME NEW v \in Wrappers, ChooseCompletedOperatingDate(v) PROVE FALSE
    <3>1. CASE v = w
      <4>1. wrapper[w].day = w /\ w # ByHand
        BY <1>1, <2>1 DEF DailyInv, Requested
      <4>2. RequireScheduledRun(w) /\ NamesOneDate(Noon(w - 1), Noon(w))
        BY <1>1, <2>1, <4>1, RequestIsOf DEF RequireScheduledRun
      <4>3. wrapper' = [wrapper EXCEPT ![w].state = "triggering",
                ![w].request = Request(Noon(w - 1), Noon(w))]
        BY <2>4, <3>1, <4>1, <4>2 DEF ChooseCompletedOperatingDate
      <4>4. wrapper'[w].state = "triggering"
        BY <2>1, <4>3 DEF WrapperRecord
      <4>. QED  BY <1>1, <4>4
    <3>2. CASE v # w
      <4>1. wrapper'[w] = wrapper[w]
        BY <2>1, <2>4, <3>2 DEF ChooseCompletedOperatingDate, End
      <4>. QED  BY <1>1, <4>1
    <3>. QED  BY <3>1, <3>2
  <2>5. ASSUME NEW v \in Wrappers, WrapperTimesOut(v), v # w PROVE FALSE
    <3>1. wrapper'[w] = wrapper[w]
      BY <2>1, <2>5 DEF WrapperTimesOut, End
    <3>. QED  BY <1>1, <3>1
  <2>6. ASSUME WrapperTimesOut(w) PROVE RunExpired(w)
    BY <1>1, <2>6 DEF WrapperTimesOut, WaitExpired
  <2>7. ASSUME Stop PROVE ~ up'
    BY <2>7 DEF Stop
  <2>8. ASSUME wrapper' = wrapper PROVE FALSE
    BY <1>1, <2>8
  <2>9. ASSUME NEW c \in Children,
               TriggerManual(c) \/ ChildStep(c) \/ EndChild(c) \/ ClearChild(c)
        PROVE  FALSE
    BY <2>8, <2>9 DEF TriggerManual, ChildStep, StartChild, ChildTimesOut,
                      EndChild, ClearChild
  <2>10. ~ (Restart \/ Tick \/ UNCHANGED vars)
    BY <2>8 DEF Restart, Tick, vars
  <2>11. ~ TriggerDaily
    <3>1. ByHand \in Wrappers
      BY CalendarConstants DEF ByHand, Wrappers, Days
    <3>. QED  BY <2>3, <3>1 DEF TriggerDaily
  <2>12. ASSUME NEW v \in Wrappers, Schedule(v) \/ ClearWrapper(v) PROVE FALSE
    BY <2>3, <2>12 DEF Schedule, ClearWrapper
  <2>. QED
    BY <1>1, <2>2, <2>4, <2>5, <2>6, <2>7, <2>9, <2>10, <2>11, <2>12
       DEF Next, WrapperStep
<1>2. DailyInv /\ [Next]_vars
      => [\A w \in Wrappers \ {ByHand} :
            Refuses(w) => ~ up' \/ RunExpired(w)]_vars
  BY <1>1
<1>. QED  BY <1>2, DailyAlways, PTL DEF Spec, NoDayIsRefused
-----------------------------------------------------------------------------
(* While nothing has gone wrong, Airflow is up and no child has outrun its *)
(* time limit: the clock stops at the instant the limit of a child ends,   *)
(* and that instant does not pass before the child has been timed out.     *)
WithinLimit(c) ==
    Running(c) => /\ child[c].since <= now
                  /\ now <= child[c].since + ChildLimit
PromptInv == faults = 0 => up /\ \A c \in Children : WithinLimit(c)

LEMMA SameChildren ==
    ASSUME PromptInv, UNCHANGED <<child, now>>, faults' = 0 => faults = 0 /\ up'
    PROVE  PromptInv'
BY DEF PromptInv, WithinLimit, Running

LEMMA ChildWithin ==
    ASSUME DailyInv, PromptInv, NEW c \in Children, NEW s, NEW t \in Nat,
           Child(c, s, t), now' = now, up' = up, faults' = 0 => faults = 0,
           s = "running" => t = now
    PROVE  PromptInv'
<1>1. now \in Nat /\ child \in [Children -> ChildRecord]
  BY DEF DailyInv, Types
<1>2. ASSUME NEW d \in Children, WithinLimit(d) PROVE WithinLimit(d)'
  <2>1. CASE d = c
    <3>1. child'[c].state = s /\ child'[c].since = t
      BY <1>1 DEF Child
    <3>. QED  BY <1>1, <2>1, <3>1 DEF WithinLimit, Running, ChildLimit, Hour
  <2>2. CASE d # c
    <3>1. child'[d] = child[d]
      BY <1>1, <2>2 DEF Child
    <3>. QED  BY <1>2, <3>1 DEF WithinLimit, Running
  <2>. QED  BY <2>1, <2>2
<1>. QED  BY <1>2 DEF PromptInv

LEMMA ClockWaits ==
    ASSUME DailyInv, PromptInv, Tick
    PROVE  PromptInv'
<1> SUFFICES ASSUME faults' = 0
             PROVE  up' /\ \A c \in Children : WithinLimit(c)'
  BY DEF PromptInv
<1>1. UNCHANGED <<up, child, faults>> /\ faults = 0 /\ up /\ ~ Overdue
  BY DEF Tick, PromptInv
<1>2. ASSUME NEW c \in Children PROVE WithinLimit(c)'
  <2> SUFFICES ASSUME Running(c)
               PROVE  /\ child[c].since <= now'
                      /\ now' <= child[c].since + ChildLimit
    BY <1>1 DEF WithinLimit, Running
  <2> DEFINE limit == child[c].since + ChildLimit
  <2>1. /\ now \in Nat /\ child[c].since \in Nat /\ limit \in Nat
        /\ now' \in Nat
    <3>1. now' \in Nat
      BY TimePasses DEF DailyInv, Types
    <3>. QED  BY <3>1 DEF DailyInv, Types, ChildRecord, ChildLimit, Hour
  <2>2. child[c].since <= now /\ now < limit
    <3>1. WithinLimit(c) /\ ~ ChildExpired(c)
      BY <1>1 DEF PromptInv, Overdue
    <3>. QED  BY <2>1, <3>1 DEF WithinLimit, ChildExpired
  <2>3. limit \in Timers
    BY DEF Timers
  <2>4. now' > now /\ now' <= limit
    BY <2>1, <2>2, <2>3 DEF Tick
  <2>. QED  BY <2>1, <2>2, <2>4
<1>. QED  BY <1>1, <1>2

LEMMA PromptInit == Init => PromptInv
BY DEF Init, PromptInv, WithinLimit, Running

LEMMA PromptNext == DailyInv /\ PromptInv /\ [Next]_vars => PromptInv'
<1> SUFFICES ASSUME DailyInv, PromptInv, [Next]_vars PROVE PromptInv'
  OBVIOUS
<1>1. /\ now \in Nat /\ 0 \in Nat /\ faults \in Nat /\ faults + 1 # 0
  BY CalendarConstants DEF DailyInv, Types
<1>2. ASSUME NEW w \in Wrappers,
             Schedule(w) \/ ClearWrapper(w) \/ ClearCheck(w) \/ WrapperStep(w)
      PROVE  PromptInv'
  <2>1. CASE Schedule(w) \/ ClearWrapper(w) \/ ClearCheck(w)
    BY <1>1, <2>1, SameChildren
       DEF Schedule, ClearWrapper, ClearCheck, PromptInv
  <2>2. CASE \/ ChooseCompletedOperatingDate(w) \/ SeeChild(w)
             \/ CheckFinishedOnTime(w) \/ WrapperTimesOut(w)
    BY <2>2, SameChildren
       DEF ChooseCompletedOperatingDate, SeeChild, CheckFinishedOnTime,
           WrapperTimesOut, PromptInv
  <2>3. CASE RunExistingPipeline(w)
    <3>1. UNCHANGED <<now, up, faults>>
      BY <2>3 DEF RunExistingPipeline
    <3>2. CASE UNCHANGED child
      BY <3>1, <3>2, SameChildren DEF PromptInv
    <3>3. CASE Queued(wrapper[w].request.date)
      <4>1. wrapper[w].request.date \in Children
        BY DEF DailyInv, Types, WrapperRecord, Children
      <4>. QED  BY <1>1, <3>1, <3>3, <4>1, ChildWithin DEF Queued
    <3>. QED  BY <2>3, <3>2, <3>3 DEF RunExistingPipeline, TriggerChild
  <2>. QED  BY <1>2, <2>1, <2>2, <2>3 DEF WrapperStep
<1>3. ASSUME NEW c \in Children,
             \/ TriggerManual(c) \/ ChildStep(c) \/ EndChild(c) \/ ClearChild(c)
      PROVE  PromptInv'
  <2>1. CASE TriggerManual(c)
    BY <1>1, <2>1, ChildWithin DEF TriggerManual
  <2>2. CASE StartChild(c)
    BY <1>1, <2>2, ChildWithin DEF StartChild
  <2>3. CASE ChildTimesOut(c)
    BY <1>1, <2>3, ChildWithin DEF ChildTimesOut
  <2>4. CASE EndChild(c)
    BY <1>1, <2>4, ChildWithin DEF EndChild
  <2>5. CASE ClearChild(c)
    <3>1. Child(c, "queued", 0) /\ now' = now /\ up' = up /\ faults' # 0
      BY <1>1, <2>5 DEF ClearChild
    <3>. QED  BY <1>1, <3>1, ChildWithin
  <2>. QED  BY <1>3, <2>1, <2>2, <2>3, <2>4, <2>5 DEF ChildStep
<1>4. CASE TriggerDaily \/ Stop
  BY <1>1, <1>4 DEF TriggerDaily, Stop, PromptInv
<1>5. CASE Restart
  BY <1>5, SameChildren DEF Restart, PromptInv
<1>6. CASE Tick
  BY <1>6, ClockWaits
<1>7. CASE UNCHANGED vars
  BY <1>7, SameChildren DEF vars, PromptInv
<1>. QED  BY <1>2, <1>3, <1>4, <1>5, <1>6, <1>7 DEF Next

(* Airflow staying up, the limit of the wait (execution_timeout of the     *)
(* trigger task in daily_schedule.py) leaves room for the three hours of   *)
(* dagrun_timeout in manual_pipeline.py: a run is given up on only if its  *)
(* child sat queued for over an hour.                                      *)
THEOREM WaitsCoverTheChildLimit == Spec => PromptChildrenAreAwaited
<1> DEFINE GivesUp(w) ==
               /\ faults = 0
               /\ WrapperTimesOut(w) /\ WaitExpired(w)
               /\ Running(wrapper[w].request.date)
<1> DEFINE Late(w) ==
               child[wrapper[w].request.date].since > wrapper[w].sent + Hour
<1>1. ASSUME DailyInv, PromptInv, NEW w \in Wrappers, GivesUp(w) PROVE Late(w)
  <2> DEFINE d == wrapper[w].request.date
  <2>1. d \in Children /\ wrapper[w].sent \in Nat
    BY <1>1 DEF DailyInv, Types, WrapperRecord, Children
  <2>2. now \in Nat /\ child[d].since \in Nat
    BY <1>1, <2>1 DEF DailyInv, Types, ChildRecord
  <2>3. now <= child[d].since + 36
    BY <1>1, <2>1 DEF PromptInv, WithinLimit, ChildLimit, Hour
  <2>4. now >= wrapper[w].sent + 49
    BY <1>1 DEF WaitExpired, WaitLimit, Hour
  <2>. QED  BY <2>1, <2>2, <2>3, <2>4 DEF Hour
<1>2. DailyInv /\ PromptInv
      => [\A w \in Wrappers :
            LET d == wrapper[w].request.date
            IN  /\ faults = 0
                /\ WrapperTimesOut(w) /\ WaitExpired(w) /\ Running(d)
                => child[d].since > wrapper[w].sent + Hour]_vars
  BY <1>1
<1>3. Spec => []PromptInv
  BY PromptInit, PromptNext, DailyAlways, PTL DEF Spec
<1>. QED  BY <1>2, <1>3, DailyAlways, PTL DEF Spec, PromptChildrenAreAwaited
=============================================================================
