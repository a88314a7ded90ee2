------------------------- MODULE CodeSessionsProofs -------------------------
(***************************************************************************)
(* The coding sessions of CodeSessions for every feed, every number of     *)
(* workers, requests, overlaps and faults.                                 *)
(***************************************************************************)
EXTENDS CodeSessions, FiniteSetTheorems, SequenceTheorems, WellFoundedInduction, TLAPS

(* Part 1.  The feed: what a poll's loop over its events computes.  The loop is a
   recursive function; that it is defined and what it yields is shown by induction,
   taken from the least counterexample. *)

LEMMA LeastElement ==
    ASSUME NEW T \in SUBSET Nat, T # {}
    PROVE  \E m \in T : \A n \in T : m <= n
<1> DEFINE R == OpToRel(<, Nat)
<1>1. IsWellFoundedOn(R, Nat)
  BY NatLessThanWellFounded
<1>2. \A x, y \in Nat : x < y => <<x, y>> \in R
  BY DEF OpToRel
<1> HIDE DEF R
<1>3. PICK x \in T : \A y \in T : ~(<<y, x>> \in R)
  BY <1>1, WFMin
<1>4. \A y \in T : ~(y < x)
  BY <1>2, <1>3
<1> QED BY <1>4

LEMMA ScriptShape ==
    /\ Len(Script) \in Nat /\ Len(Script) > 0
    /\ \A i \in 1..Len(Script) : /\ Script[i] \in {"turn", "paused", "resumed", "end"}
                                 /\ Script[i] = "end" <=> i = Len(Script)
BY SessionsAssumption

LEMMA StatusAlongDefined ==
    ASSUME NEW status, NEW offset \in Nat
    PROVE  StatusAlong(status, offset) =
               [i \in 0..Len(Script) |->
                   IF i <= offset THEN status
                   ELSE Transition(StatusAlong(status, offset)[i - 1], Script[i])]
<1> DEFINE Along(g, n) == g = [i \in 0..n |-> IF i <= offset THEN status
                                             ELSE Transition(g[i - 1], Script[i])]
           Bad == {n \in Nat : ~\E g : Along(g, n)}
<1>1. Bad = {}
  <2> SUFFICES ASSUME Bad # {} PROVE FALSE
    OBVIOUS
  <2>1. PICK m \in Bad : \A n \in Bad : m <= n
    BY LeastElement
  <2>2. m \in Nat
    OBVIOUS
  <2>3. CASE m = 0
    <3> DEFINE h == [i \in 0..0 |-> status]
    <3>1. Along(h, 0)
      OBVIOUS
    <3> QED BY <2>3, <3>1
  <2>4. CASE m # 0
    <3>1. m - 1 \in Nat /\ m - 1 \notin Bad
      <4>1. m - 1 \in Nat /\ ~(m <= m - 1)
        BY <2>2, <2>4
      <4> HIDE DEF Bad
      <4> QED BY <2>1, <4>1
    <3>2. PICK g : Along(g, m - 1)
      BY <3>1
    <3> DEFINE h == [i \in 0..m |-> IF i < m THEN g[i]
                                    ELSE IF m <= offset THEN status
                                    ELSE Transition(g[m - 1], Script[m])]
    <3>3. ASSUME NEW i \in 0..m
          PROVE  h[i] = IF i <= offset THEN status ELSE Transition(h[i - 1], Script[i])
      <4>1. CASE i = m
        <5>1. m > offset => h[m - 1] = g[m - 1]
          BY <2>2, <2>4
        <5> QED BY <4>1, <5>1, <2>2
      <4>2. CASE i < m
        <5>1. i \in 0..(m - 1)
          BY <4>2, <2>2
        <5>2. g[i] = IF i <= offset THEN status ELSE Transition(g[i - 1], Script[i])
          BY <3>2, <5>1
        <5>3. i > offset => h[i - 1] = g[i - 1]
          BY <4>2, <2>2
        <5>4. h[i] = g[i]
          BY <4>2
        <5> QED BY <5>2, <5>3, <5>4, <2>2
      <4> QED BY <4>1, <4>2, <2>2
    <3>4. Along(h, m)
      BY <3>3
    <3> QED BY <3>4
  <2> QED BY <2>3, <2>4
<1>2. \E g : Along(g, Len(Script))
  BY <1>1, ScriptShape
<1>3. StatusAlong(status, offset) = CHOOSE g : Along(g, Len(Script))
  BY DEF StatusAlong
<1> QED BY <1>2, <1>3

LEMMA StatusAlongStep ==
    ASSUME NEW status, NEW offset \in Nat, NEW n \in 0..Len(Script)
    PROVE  /\ n <= offset => StatusAlong(status, offset)[n] = status
           /\ n > offset => /\ n - 1 \in 0..Len(Script) /\ n \in 1..Len(Script)
                            /\ StatusAlong(status, offset)[n] =
                                   Transition(StatusAlong(status, offset)[n - 1], Script[n])
<1>1. StatusAlong(status, offset)[n] =
          IF n <= offset THEN status
          ELSE Transition(StatusAlong(status, offset)[n - 1], Script[n])
  BY StatusAlongDefined
<1> QED BY <1>1, ScriptShape

(* A poll of an active row finds the end only at the end of the feed. *)
LEMMA StatusAlongType ==
    ASSUME NEW status \in Active, NEW offset \in Nat, NEW n \in 0..Len(Script)
    PROVE  /\ StatusAlong(status, offset)[n] \in Active \cup Terminal
           /\ StatusAlong(status, offset)[n] \in Terminal => n = Len(Script)
<1> DEFINE st(i) == StatusAlong(status, offset)[i]
           Good(i) == st(i) \in Active \/ (st(i) \in Terminal /\ i = Len(Script))
           Bad == {i \in 0..Len(Script) : ~Good(i)}
<1>1. Bad = {}
  <2> SUFFICES ASSUME Bad # {} PROVE FALSE
    OBVIOUS
  <2>1. Bad \in SUBSET Nat
    BY ScriptShape
  <2>2. PICK m \in Bad : \A i \in Bad : m <= i
    BY <2>1, LeastElement
  <2>3. m \in 0..Len(Script) /\ ~Good(m)
    OBVIOUS
  <2>4. CASE m <= offset
    BY <2>3, <2>4, StatusAlongStep
  <2>5. CASE m > offset
    <3>1. /\ m - 1 \in 0..Len(Script) /\ m \in 1..Len(Script)
          /\ st(m) = Transition(st(m - 1), Script[m])
      BY <2>3, <2>5, StatusAlongStep
    <3>2. m - 1 \notin Bad
      BY <2>2, <2>3, ScriptShape
    <3>3. st(m - 1) \in Active
      BY <3>1, <3>2, ScriptShape
    <3>4. Transition(st(m - 1), Script[m]) \in Active
             \/ (Transition(st(m - 1), Script[m]) \in Terminal /\ m = Len(Script))
      <4> HIDE DEF st
      <4> QED BY <3>1, <3>3, ScriptShape DEF Transition, Active, Terminal
    <3> QED BY <2>3, <3>1, <3>4
  <2> QED BY <2>3, <2>4, <2>5, ScriptShape
<1>2. Good(n)
  BY <1>1
<1> QED BY <1>2 DEF Active, Terminal

(* The status the first n events make, event by event. *)
LEMMA StatusAfterStep ==
    ASSUME NEW n \in 1..Len(Script)
    PROVE  StatusAfter(n) = Transition(StatusAfter(n - 1), Script[n])
<1> USE ScriptShape
<1> DEFINE Paused(k) == \E i \in 1..k : /\ Script[i] = "paused"
                                        /\ \A j \in i..k : Script[j] # "resumed"
<1>1. n - 1 < Len(Script) /\ n - 1 \in Nat /\ n \in Nat
  OBVIOUS
<1>2. StatusAfter(n - 1) = IF Paused(n - 1) THEN "paused" ELSE "running"
  BY <1>1 DEF StatusAfter
<1>3. n < Len(Script) => StatusAfter(n) = IF Paused(n) THEN "paused" ELSE "running"
  BY <1>1 DEF StatusAfter
<1>4. CASE Script[n] = "end"
  <2>1. n = Len(Script)
    BY <1>4
  <2>2. StatusAfter(n) = "completed"
    BY <2>1 DEF StatusAfter
  <2> QED BY <1>4, <2>2 DEF Transition
<1>5. CASE Script[n] = "paused"
  <2>1. n < Len(Script)
    BY <1>5
  <2>2. Paused(n)
    BY <1>5, <1>1
  <2> HIDE DEF Paused
  <2> QED BY <1>2, <1>3, <1>5, <2>1, <2>2 DEF Transition
<1>6. CASE Script[n] = "resumed"
  <2>1. n < Len(Script)
    BY <1>6
  <2>2. ~Paused(n)
    BY <1>6, <1>1
  <2> HIDE DEF Paused
  <2> QED BY <1>2, <1>3, <1>6, <2>1, <2>2 DEF Transition
<1>7. CASE Script[n] = "turn"
  <2>1. n < Len(Script)
    BY <1>7
  <2>2. ASSUME NEW i \in 1..n, Script[i] = "paused", \A j \in i..n : Script[j] # "resumed"
        PROVE  Paused(n - 1)
    <3>1. i \in 1..(n - 1)
      BY <1>7, <2>2, <1>1
    <3>2. \A j \in i..(n - 1) : j \in i..n
      BY <1>1
    <3> QED BY <2>2, <3>1, <3>2
  <2>3. ASSUME NEW i \in 1..(n - 1), Script[i] = "paused",
               \A j \in i..(n - 1) : Script[j] # "resumed"
        PROVE  Paused(n)
    <3>1. i \in 1..n
      BY <1>1
    <3>2. \A j \in i..n : j = n \/ j \in i..(n - 1)
      BY <1>1
    <3> QED BY <1>7, <2>3, <3>1, <3>2
  <2>4. Paused(n) <=> Paused(n - 1)
    BY <2>2, <2>3
  <2> HIDE DEF Paused
  <2> QED BY <1>2, <1>3, <1>7, <2>1, <2>4 DEF Transition
<1> QED BY <1>4, <1>5, <1>6, <1>7

(* A row that is as its feed up to the cursor becomes as its feed up to event n. *)
LEMMA StatusAlongFeed ==
    ASSUME NEW offset \in Nat, NEW n \in offset..Len(Script)
    PROVE  StatusAlong(StatusAfter(offset), offset)[n] = StatusAfter(n)
<1> DEFINE st(i) == StatusAlong(StatusAfter(offset), offset)[i]
           Bad == {i \in offset..Len(Script) : st(i) # StatusAfter(i)}
<1>1. Bad = {}
  <2> SUFFICES ASSUME Bad # {} PROVE FALSE
    OBVIOUS
  <2>1. Bad \in SUBSET Nat
    BY ScriptShape
  <2>2. PICK m \in Bad : \A i \in Bad : m <= i
    BY <2>1, LeastElement
  <2>3. m \in offset..Len(Script) /\ m \in 0..Len(Script) /\ st(m) # StatusAfter(m)
    OBVIOUS
  <2>4. CASE m = offset
    BY <2>3, <2>4, StatusAlongStep
  <2>5. CASE m > offset
    <3>1. /\ m \in 1..Len(Script)
          /\ st(m) = Transition(st(m - 1), Script[m])
      BY <2>3, <2>5, StatusAlongStep
    <3>2. m - 1 \notin Bad
      BY <2>2, <2>3, ScriptShape
    <3>3. m - 1 \in offset..Len(Script)
      BY <2>3, <2>5, ScriptShape
    <3>4. st(m - 1) = StatusAfter(m - 1)
      BY <3>2, <3>3
    <3>5. StatusAfter(m) = Transition(StatusAfter(m - 1), Script[m])
      BY <3>1, StatusAfterStep
    <3> QED BY <2>3, <3>1, <3>4, <3>5
  <2> QED BY <2>3, <2>4, <2>5, ScriptShape
<1> QED BY <1>1

-----------------------------------------------------------------------------
(* Part 2.  The types, variable by variable, and what they rest on: a launch past
   its start has its session, and the user is asked only while requests are left. *)
LaunchRecords(S) ==
    [at : {"rest", "recover", "start", "mark", "persist", "card"}, session : {0} \cup S]
RowRecords(S) ==
    [session : S, status : Active \cup Terminal, offset : 0..Len(Script),
     stored : Seq(1..Len(Script))]
PollRecords(R) ==
    [at : {"rest"} \cup Open \cup Settling, row : {0} \cup R, status : Active,
     offset : 0..Len(Script), upto : 0..Len(Script)]
AuditRecords(S) == [at : {"rest", "debit"}, session : {0} \cup S, delta : 0..Len(Script)]

CounterTypes ==
    /\ asked \in BOOLEAN /\ deleted \in BOOLEAN
    /\ confirmed \in 0..MaxRequests
    /\ asked => confirmed < MaxRequests
    /\ waiting \in Nat
    /\ overlaps \in 0..MaxOverlaps /\ faults \in 0..MaxFaults
    /\ happened \subseteq Faults \cup {"race"}

FeedTypes ==
    /\ emitted \in Seq(0..Len(Script))
    /\ debited \in Seq(Nat) /\ Len(debited) = Len(emitted)

LaunchTypes ==
    /\ launch \in [Launcher -> LaunchRecords(Session)]
    /\ marker \in {0} \cup Session
    /\ lost \subseteq Session
    /\ \A l \in Launcher :
          IF launch[l].at \in {"mark", "persist", "card"}
          THEN launch[l].session \in Session ELSE launch[l].session = 0

RowTypes == rows \in Seq(RowRecords(Session))

PollTypes ==
    /\ poll \in [Poller -> PollRecords(RowId)]
    /\ \A p \in Poller : poll[p].at # "rest" => poll[p].row \in RowId

AuditTypes ==
    /\ audit \in AuditRecords(Session)
    /\ audit.at = "debit" <=> audit.session # 0

TypeInv ==
    CounterTypes /\ FeedTypes /\ LaunchTypes /\ RowTypes /\ PollTypes /\ AuditTypes

LEMMA TypeInvTypes ==
    ASSUME TypeInv
    PROVE  SessionsTypeOK
<1>1. \A p \in Poller : poll[p].at # "rest" => poll[p].row # 0
  <2>1. DOMAIN rows = 1..Len(rows) /\ Len(rows) \in Nat
    BY LenProperties DEF TypeInv, RowTypes
  <2> QED BY <2>1 DEF TypeInv, PollTypes, RowId
<1> QED
  BY <1>1 DEF TypeInv, CounterTypes, FeedTypes, LaunchTypes, RowTypes, PollTypes, AuditTypes,
              LaunchRecords, RowRecords, PollRecords, AuditRecords, SessionsTypeOK

LEMMA Ids ==
    ASSUME FeedTypes
    PROVE  /\ Session = 1..Len(emitted) /\ Len(emitted) \in Nat
           /\ DOMAIN debited = Session
           /\ \A s \in Session : emitted[s] \in 0..Len(Script) /\ debited[s] \in Nat
BY ElementOfSeq, LenProperties DEF FeedTypes, Session

LEMMA RowIds ==
    ASSUME RowTypes
    PROVE  /\ RowId = 1..Len(rows) /\ Len(rows) \in Nat
           /\ \A r \in RowId : rows[r] \in RowRecords(Session)
BY ElementOfSeq, LenProperties DEF RowTypes, RowId

(* More sessions and more rows keep what was typed with fewer. *)
LEMMA LaunchKept ==
    ASSUME LaunchTypes, UNCHANGED <<launch, marker, lost>>, Session \subseteq Session'
    PROVE  LaunchTypes'
BY DEF LaunchTypes, LaunchRecords

LEMMA RowKept ==
    ASSUME RowTypes, UNCHANGED rows, Session \subseteq Session'
    PROVE  RowTypes'
<1>1. RowRecords(Session) \subseteq RowRecords(Session')
  BY DEF RowRecords
<1> QED BY <1>1, SeqMonotonic DEF RowTypes

LEMMA PollKept ==
    ASSUME PollTypes, UNCHANGED poll, RowId \subseteq RowId'
    PROVE  PollTypes'
BY DEF PollTypes, PollRecords

LEMMA AuditKept ==
    ASSUME AuditTypes, UNCHANGED audit, Session \subseteq Session'
    PROVE  AuditTypes'
BY DEF AuditTypes, AuditRecords

(* A session more, its feed and its ledger empty. *)
LEMMA StartSessionAdds ==
    ASSUME FeedTypes, StartSession
    PROVE  /\ FeedTypes'
           /\ Len(emitted') = Len(emitted) + 1
           /\ Session' = Session \cup {Len(emitted) + 1}
           /\ \A s \in Session : emitted'[s] = emitted[s] /\ debited'[s] = debited[s]
           /\ emitted'[Len(emitted) + 1] = 0 /\ debited'[Len(emitted) + 1] = 0
<1>1. 0 \in 0..Len(Script)
  BY ScriptShape
<1>2. /\ emitted' \in Seq(0..Len(Script))
      /\ Len(emitted') = Len(emitted) + 1
      /\ \A s \in 1..Len(emitted) : emitted'[s] = emitted[s]
      /\ emitted'[Len(emitted) + 1] = 0
  BY <1>1, AppendProperties DEF FeedTypes, StartSession
<1>3. /\ debited' \in Seq(Nat)
      /\ Len(debited') = Len(debited) + 1
      /\ \A s \in 1..Len(debited) : debited'[s] = debited[s]
      /\ debited'[Len(debited) + 1] = 0
  BY AppendProperties DEF FeedTypes, StartSession
<1>4. FeedTypes'
  BY <1>2, <1>3 DEF FeedTypes
<1>5. Session' = 1..(Len(emitted) + 1)
  BY <1>2, LenProperties DEF Session
<1> QED BY <1>2, <1>3, <1>4, <1>5, Ids DEF FeedTypes

(* A launch goes to a step with its session. *)
LEMMA LaunchMoves ==
    ASSUME LaunchTypes, NEW l \in Launcher,
           NEW step \in {"rest", "recover", "start", "mark", "persist", "card"}, NEW s,
           LaunchGoes(l, step, s), Session \subseteq Session',
           IF step \in {"mark", "persist", "card"} THEN s \in Session' ELSE s = 0,
           marker' \in {0} \cup Session', lost' \subseteq Session'
    PROVE  /\ LaunchTypes'
           /\ launch'[l].at = step /\ launch'[l].session = s
           /\ \A k \in Launcher \ {l} : launch'[k] = launch[k]
<1> DEFINE new == [at |-> step, session |-> s]
<1>1. new \in LaunchRecords(Session')
  BY DEF LaunchRecords
<1>2. new.at = step /\ new.session = s
  OBVIOUS
<1>3. launch' = [launch EXCEPT ![l] = new]
  BY DEF LaunchGoes
<1> HIDE DEF new
<1>4. launch \in [Launcher -> LaunchRecords(Session')]
  BY DEF LaunchTypes, LaunchRecords
<1>5. launch' \in [Launcher -> LaunchRecords(Session')]
  BY <1>1, <1>3, <1>4
<1>6. launch'[l] = new /\ \A k \in Launcher \ {l} : launch'[k] = launch[k]
  BY <1>3, <1>4
<1> QED BY <1>2, <1>5, <1>6 DEF LaunchTypes

(* A poll goes on with what it has to do after its transaction. *)
LEMMA PollMoves ==
    ASSUME PollTypes, NEW p \in Poller, NEW step \in {"rest"} \cup Settling,
           poll[p].at # "rest", PollGoes(p, step), RowId \subseteq RowId'
    PROVE  /\ PollTypes'
           /\ poll'[p].at = step
           /\ step # "rest" => poll'[p].row = poll[p].row
           /\ \A q \in Poller \ {p} : poll'[q] = poll[q]
<1> DEFINE new == IF step = "rest" THEN RestingPoll
                  ELSE [RestingPoll EXCEPT !.at = step, !.row = poll[p].row]
<1>1. poll[p].row \in RowId'
  BY DEF PollTypes
<1>2. /\ new \in PollRecords(RowId')
      /\ new.at = step
      /\ step # "rest" => new.row = poll[p].row
  <2>1. CASE step = "rest"
    BY <2>1, ScriptShape DEF PollRecords, RestingPoll, Active
  <2>2. CASE step # "rest"
    <3>1. new = [at |-> step, row |-> poll[p].row, status |-> "running", offset |-> 0,
                 upto |-> 0]
      BY <2>2 DEF RestingPoll
    <3>2. 0 \in 0..Len(Script) /\ "running" \in Active
      BY ScriptShape DEF Active
    <3> HIDE DEF new
    <3> QED BY <1>1, <2>2, <3>1, <3>2 DEF PollRecords
  <2> QED BY <2>1, <2>2
<1>3. poll' = [poll EXCEPT ![p] = new]
  BY DEF PollGoes
<1> HIDE DEF new
<1>4. poll \in [Poller -> PollRecords(RowId')]
  BY DEF PollTypes, PollRecords
<1>5. poll' \in [Poller -> PollRecords(RowId')]
  BY <1>2, <1>3, <1>4
<1>6. poll'[p] = new /\ \A q \in Poller \ {p} : poll'[q] = poll[q]
  BY <1>3, <1>4
<1> QED BY <1>1, <1>2, <1>5, <1>6 DEF PollTypes

(* A fault is counted and kept in mind. *)
LEMMA FaultCounted ==
    ASSUME CounterTypes, NEW kind, Happens(kind)
    PROVE  /\ faults' \in 0..MaxFaults
           /\ happened' \subseteq Faults \cup {"race"}
           /\ UNCHANGED overlaps
BY SessionsAssumption DEF CounterTypes, Happens

(* A launch writes a row: it is the new last one. *)
LEMMA PersistAdds ==
    ASSUME TypeInv, NEW l \in Launcher, LaunchPersists(l)
    PROVE  /\ RowTypes'
           /\ RowId' = RowId \cup {Len(rows) + 1} /\ Len(rows) + 1 \notin RowId
           /\ \A r \in RowId : rows'[r] = rows[r]
           /\ rows'[Len(rows) + 1] = [session |-> launch[l].session, status |-> "running",
                                      offset |-> 0, stored |-> <<>>]
<1> DEFINE new == [session |-> launch[l].session, status |-> "running", offset |-> 0,
                   stored |-> <<>>]
<1>1. new \in RowRecords(Session)
  <2>1. launch[l].session \in Session
    BY DEF LaunchPersists, TypeInv, LaunchTypes
  <2>2. <<>> \in Seq(1..Len(Script)) /\ 0 \in 0..Len(Script)
    BY ScriptShape, EmptySeq
  <2> QED BY <2>1, <2>2 DEF RowRecords, Active
<1>2. rows' = Append(rows, new) /\ UNCHANGED emitted
  BY DEF LaunchPersists
<1> HIDE DEF new
<1>3. /\ rows' \in Seq(RowRecords(Session))
      /\ Len(rows') = Len(rows) + 1
      /\ \A r \in 1..Len(rows) : rows'[r] = rows[r]
      /\ rows'[Len(rows) + 1] = new
  BY <1>1, <1>2, AppendProperties DEF TypeInv, RowTypes
<1>4. RowTypes'
  BY <1>2, <1>3 DEF RowTypes, Session, RowRecords
<1>5. RowId' = 1..(Len(rows) + 1)
  BY <1>3, LenProperties DEF RowId
<1>6. RowId = 1..Len(rows) /\ Len(rows) \in Nat
  BY RowIds DEF TypeInv
<1> QED BY <1>3, <1>4, <1>5, <1>6 DEF new

(* A poll starts: what it has read. *)
LEMMA StartPollReads ==
    ASSUME TypeInv, NEW p \in Poller, NEW r \in RowId, StartPoll(p, r)
    PROVE  /\ PollTypes'
           /\ poll'[p].at = "fetch" /\ poll'[p].row = r
           /\ poll'[p].status = rows[r].status /\ poll'[p].offset = rows[r].offset
           /\ \A q \in Poller \ {p} : poll'[q] = poll[q]
           /\ overlaps' \in 0..MaxOverlaps
           /\ happened \subseteq happened' /\ happened' \subseteq happened \cup {"overlap"}
           /\ happened' \subseteq Faults \cup {"race"}
           /\ "overlap" \notin happened' =>
                 \A q \in Poller : ~(poll[q].row = r /\ poll[q].at \in Open)
<1> DEFINE new == [at |-> "fetch", row |-> r, status |-> rows[r].status,
                   offset |-> rows[r].offset, upto |-> 0]
<1>1. rows[r] \in RowRecords(Session)
  BY RowIds DEF TypeInv
<1>2. 0 \in 0..Len(Script)
  BY ScriptShape
<1>3. new \in PollRecords(RowId)
  BY <1>1, <1>2 DEF PollRecords, RowRecords, StartPoll, Open
<1>4. /\ new.at = "fetch" /\ new.row = r
      /\ new.status = rows[r].status /\ new.offset = rows[r].offset
  OBVIOUS
<1>5. poll' = [poll EXCEPT ![p] = new] /\ UNCHANGED rows
  BY DEF StartPoll
<1> HIDE DEF new
<1>6. /\ poll' \in [Poller -> PollRecords(RowId)]
      /\ poll'[p] = new /\ \A q \in Poller \ {p} : poll'[q] = poll[q]
  BY <1>3, <1>5 DEF TypeInv, PollTypes
<1>7. PollTypes'
  BY <1>4, <1>5, <1>6 DEF TypeInv, PollTypes, RowId
<1>8. /\ overlaps' \in 0..MaxOverlaps
      /\ happened \subseteq happened' /\ happened' \subseteq happened \cup {"overlap"}
      /\ happened' \subseteq Faults \cup {"race"}
      /\ "overlap" \notin happened' =>
            \A q \in Poller : ~(poll[q].row = r /\ poll[q].at \in Open)
  <2>1. CASE \E q \in Poller : poll[q].row = r /\ poll[q].at \in Open
    <3>1. /\ "overlap" \in Faults /\ overlaps < MaxOverlaps
          /\ overlaps' = overlaps + 1
          /\ happened' = happened \cup {"overlap"}
      BY <2>1 DEF StartPoll
    <3>2. overlaps \in 0..MaxOverlaps /\ happened \subseteq Faults \cup {"race"}
      BY DEF TypeInv, CounterTypes
    <3>3. overlaps' \in 0..MaxOverlaps
      BY <3>1, <3>2, SessionsAssumption
    <3> QED BY <3>1, <3>2, <3>3
  <2>2. CASE ~\E q \in Poller : poll[q].row = r /\ poll[q].at \in Open
    BY <2>2 DEF StartPoll, TypeInv, CounterTypes, faultVars
  <2> QED BY <2>1, <2>2
<1> QED BY <1>4, <1>6, <1>7, <1>8

(* It fetches the feed. *)
LEMMA FetchReads ==
    ASSUME TypeInv, NEW p \in Poller, Fetch(p)
    PROVE  /\ PollTypes'
           /\ poll'[p] = [poll[p] EXCEPT !.at = "commit",
                                         !.upto = emitted[rows[poll[p].row].session]]
           /\ poll[p].row \in RowId /\ rows[poll[p].row].session \in Session
           /\ \A q \in Poller \ {p} : poll'[q] = poll[q]
<1> DEFINE new == [poll[p] EXCEPT !.at = "commit", !.upto = emitted[rows[poll[p].row].session]]
<1>1. poll[p].row \in RowId /\ poll[p] \in PollRecords(RowId)
  BY DEF TypeInv, PollTypes, Fetch
<1>2. rows[poll[p].row].session \in Session
  BY <1>1, RowIds DEF TypeInv, RowRecords
<1>3. emitted[rows[poll[p].row].session] \in 0..Len(Script)
  BY <1>2, Ids DEF TypeInv
<1>4. new \in PollRecords(RowId) /\ new.row = poll[p].row
  BY <1>1, <1>3 DEF PollRecords, Open
<1>5. poll' = [poll EXCEPT ![p] = new] /\ UNCHANGED rows
  BY DEF Fetch
<1> HIDE DEF new
<1>6. /\ poll' \in [Poller -> PollRecords(RowId)]
      /\ poll'[p] = new /\ \A q \in Poller \ {p} : poll'[q] = poll[q]
  BY <1>4, <1>5 DEF TypeInv, PollTypes
<1>7. PollTypes'
  BY <1>1, <1>4, <1>5, <1>6 DEF TypeInv, PollTypes, RowId
<1> QED BY <1>1, <1>2, <1>6, <1>7 DEF new

(* The events a poll has to write. *)
LEMMA NewEventsType ==
    ASSUME TypeInv, NEW p \in Poller
    PROVE  /\ NewEvents(p) \in Seq(1..Len(Script))
           /\ Len(NewEvents(p)) = IF poll[p].upto >= poll[p].offset
                                  THEN poll[p].upto - poll[p].offset ELSE 0
           /\ \A i \in 1..Len(NewEvents(p)) : NewEvents(p)[i] = poll[p].offset + i
<1> DEFINE n == poll[p].upto - poll[p].offset
           k == IF poll[p].upto >= poll[p].offset THEN n ELSE 0
<1>1. poll[p].upto \in 0..Len(Script) /\ poll[p].offset \in 0..Len(Script)
  BY DEF TypeInv, PollTypes, PollRecords
<1>2. k \in Nat /\ 1..n = 1..k
  BY <1>1, ScriptShape
<1>3. \A i \in 1..k : poll[p].offset + i \in 1..Len(Script)
  BY <1>1, ScriptShape
<1>4. NewEvents(p) = [i \in 1..k |-> poll[p].offset + i]
  BY <1>2 DEF NewEvents
<1> HIDE DEF n, k
<1>5. NewEvents(p) \in [1..k -> 1..Len(Script)]
  BY <1>3, <1>4
<1>6. NewEvents(p) \in Seq(1..Len(Script))
  BY <1>2, <1>5, SeqDef
<1>7. Len(NewEvents(p)) = k
  <2>1. DOMAIN NewEvents(p) = 1..k
    BY <1>5
  <2>2. DOMAIN NewEvents(p) = 1..Len(NewEvents(p)) /\ Len(NewEvents(p)) \in Nat
    BY <1>6, LenProperties
  <2> QED BY <1>2, <2>1, <2>2
<1> QED BY <1>4, <1>6, <1>7 DEF n, k

LEMMA NewStatusType ==
    ASSUME TypeInv, NEW p \in Poller
    PROVE  /\ NewStatus(p) \in Active \cup Terminal
           /\ NewStatus(p) \in Terminal => poll[p].upto = Len(Script)
<1>1. poll[p].status \in Active /\ poll[p].offset \in Nat /\ poll[p].upto \in 0..Len(Script)
  BY DEF TypeInv, PollTypes, PollRecords
<1> QED BY <1>1, StatusAlongType DEF NewStatus

(* The transaction of a poll changes its row only, and not what the row is of. *)
LEMMA CommitWrites ==
    ASSUME TypeInv, NEW p \in Poller, Commit(p)
    PROVE  /\ RowTypes' /\ RowId' = RowId
           /\ poll[p].row \in RowId
           /\ \A r \in RowId \ {poll[p].row} : rows'[r] = rows[r]
           /\ rows'[poll[p].row].session = rows[poll[p].row].session
           /\ rows'[poll[p].row].status = IF NewStatus(p) = poll[p].status
                                          THEN rows[poll[p].row].status ELSE NewStatus(p)
           /\ rows'[poll[p].row].offset = IF poll[p].upto = poll[p].offset
                                          THEN rows[poll[p].row].offset ELSE poll[p].upto
           /\ rows'[poll[p].row].stored = rows[poll[p].row].stored \o NewEvents(p)
<1> DEFINE k == poll[p].row
           status == IF NewStatus(p) = poll[p].status THEN rows[k].status ELSE NewStatus(p)
           offset == IF poll[p].upto = poll[p].offset THEN rows[k].offset ELSE poll[p].upto
           stored == rows[k].stored \o NewEvents(p)
           new == [rows[k] EXCEPT !.stored = stored, !.status = status, !.offset = offset]
<1>1. k \in RowId
  BY DEF TypeInv, PollTypes, Commit
<1>2. rows[k] \in RowRecords(Session)
  BY <1>1, RowIds DEF TypeInv
<1>3. stored \in Seq(1..Len(Script))
  BY <1>2, NewEventsType, ConcatProperties DEF RowRecords
<1>4. poll[p].upto \in 0..Len(Script)
  BY DEF TypeInv, PollTypes, PollRecords
<1>5. status \in Active \cup Terminal /\ offset \in 0..Len(Script)
  BY <1>2, <1>4, NewStatusType DEF RowRecords
<1>6. rows' = [rows EXCEPT ![k] = new] /\ UNCHANGED emitted
  BY DEF Commit
<1> HIDE DEF stored, status, offset
<1>7. /\ new \in RowRecords(Session)
      /\ new.session = rows[k].session
      /\ new.status = status /\ new.offset = offset /\ new.stored = stored
  BY <1>2, <1>3, <1>5 DEF RowRecords
<1>8. rows \in Seq(RowRecords(Session)) /\ k \in 1..Len(rows)
  BY <1>1, RowIds DEF TypeInv, RowTypes
<1> HIDE DEF new, k
<1>9. /\ rows' \in Seq(RowRecords(Session))
      /\ Len(rows') = Len(rows)
      /\ \A r \in 1..Len(rows) : rows'[r] = IF r = k THEN new ELSE rows[r]
  BY <1>6, <1>7, <1>8, ExceptSeq
<1>10. RowTypes'
  BY <1>6, <1>9 DEF RowTypes, Session, RowRecords
<1>11. RowId' = 1..Len(rows)
  BY <1>9, LenProperties DEF RowId
<1> QED BY <1>1, <1>7, <1>9, <1>10, <1>11, RowIds DEF TypeInv, k, status, offset, stored

LEMMA TypeInvInit == SessionsInit => TypeInv
<1> SUFFICES ASSUME SessionsInit PROVE TypeInv
  OBVIOUS
<1> USE DEF SessionsInit
<1>1. CounterTypes
  <2>1. /\ 0 \in 0..MaxRequests /\ 0 \in Nat
        /\ 0 \in 0..MaxOverlaps /\ 0 \in 0..MaxFaults
    BY SessionsAssumption
  <2> QED BY <2>1 DEF CounterTypes
<1>2. FeedTypes
  BY EmptySeq DEF FeedTypes
<1>3. LaunchTypes
  BY DEF LaunchTypes, LaunchRecords, RestingLaunch
<1>4. RowTypes
  BY EmptySeq DEF RowTypes
<1>5. PollTypes
  <2>1. RestingPoll \in PollRecords(RowId) /\ RestingPoll.at = "rest"
    BY ScriptShape DEF RestingPoll, PollRecords, Active
  <2>2. poll \in [Poller -> PollRecords(RowId)]
    BY <2>1
  <2> QED BY <2>1, <2>2 DEF PollTypes
<1>6. AuditTypes
  BY ScriptShape DEF AuditTypes, AuditRecords, RestingAudit
<1> QED BY <1>1, <1>2, <1>3, <1>4, <1>5, <1>6 DEF TypeInv

(* Asking, deleting, the marker's end: nobody's work moves. *)
LEMMA UserTypes ==
    ASSUME TypeInv, Ask \/ Confirm \/ DeleteProject \/ MarkerLapses
    PROVE  TypeInv'
<1>1. UNCHANGED <<emitted, debited, rows, poll, audit, launch>>
  BY DEF Ask, Confirm, DeleteProject, MarkerLapses, launchVars, moneyVars
<1>2. Session' = Session /\ RowId' = RowId
  BY <1>1 DEF Session, RowId
<1>3. FeedTypes' /\ RowTypes' /\ PollTypes' /\ AuditTypes'
  BY <1>1, <1>2, RowKept, PollKept, AuditKept DEF TypeInv, FeedTypes
<1>4. LaunchTypes'
  BY <1>1, <1>2
  DEF Ask, Confirm, DeleteProject, MarkerLapses, launchVars, TypeInv, LaunchTypes
<1>5. CounterTypes'
  <2>1. CASE Ask
    BY <2>1 DEF Ask, TypeInv, CounterTypes, launchVars, faultVars
  <2>2. CASE Confirm
    <3>1. confirmed' \in 0..MaxRequests /\ waiting' \in Nat
      BY <2>2, SessionsAssumption DEF Confirm, TypeInv, CounterTypes
    <3> QED BY <2>2, <3>1 DEF Confirm, TypeInv, CounterTypes, faultVars
  <2>3. CASE DeleteProject
    BY <2>3, FaultCounted DEF DeleteProject, TypeInv, CounterTypes, requestVars, launchVars
  <2>4. CASE MarkerLapses
    BY <2>4, FaultCounted DEF MarkerLapses, TypeInv, CounterTypes, requestVars
  <2> QED BY <2>1, <2>2, <2>3, <2>4
<1> QED BY <1>3, <1>4, <1>5 DEF TypeInv

(* A launch that starts no session and writes no row. *)
LEMMA LaunchMoveTypes ==
    ASSUME TypeInv, NEW l \in Launcher,
           LaunchTakes(l) \/ LaunchRecovers(l) \/ LaunchMarks(l) \/ LaunchEnds(l)
    PROVE  TypeInv'
<1>1. UNCHANGED <<emitted, debited, rows, poll, audit, asked, confirmed, deleted, overlaps>>
  BY DEF LaunchTakes, LaunchRecovers, LaunchMarks, LaunchEnds, moneyVars, requestVars, faultVars
<1>2. Session' = Session /\ RowId' = RowId /\ lost' \subseteq Session'
  BY <1>1 DEF Session, RowId, LaunchTakes, LaunchRecovers, LaunchMarks, LaunchEnds, TypeInv, LaunchTypes
<1>3. FeedTypes' /\ RowTypes' /\ PollTypes' /\ AuditTypes'
  BY <1>1, <1>2, RowKept, PollKept, AuditKept DEF TypeInv, FeedTypes
<1>4. LaunchTypes'
  <2>1. CASE LaunchTakes(l)
    <3>1. (IF deleted THEN "rest" ELSE "recover") \in {"rest", "recover"}
      OBVIOUS
    <3> QED BY <2>1, <3>1, <1>2, LaunchMoves DEF LaunchTakes, TypeInv, LaunchTypes
  <2>2. CASE LaunchRecovers(l)
    <3>1. (IF marker # 0 THEN "persist" ELSE "start") \in {"persist", "start"}
      OBVIOUS
    <3>2. marker # 0 => marker \in Session
      BY DEF TypeInv, LaunchTypes
    <3> QED BY <2>2, <3>1, <3>2, <1>2, LaunchMoves DEF LaunchRecovers, TypeInv, LaunchTypes
  <2>3. CASE LaunchMarks(l)
    <3>1. launch[l].session \in Session
      BY <2>3 DEF LaunchMarks, TypeInv, LaunchTypes
    <3> QED BY <2>3, <3>1, <1>2, LaunchMoves DEF LaunchMarks, TypeInv
  <2>4. CASE LaunchEnds(l)
    BY <2>4, <1>2, LaunchMoves DEF LaunchEnds, TypeInv, LaunchTypes
  <2> QED BY <2>1, <2>2, <2>3, <2>4
<1>5. waiting' \in Nat
  BY DEF LaunchTakes, LaunchRecovers, LaunchMarks, LaunchEnds, TypeInv, CounterTypes
<1>6. faults' \in 0..MaxFaults /\ happened' \subseteq Faults \cup {"race"}
  BY DEF LaunchTakes, LaunchRecovers, LaunchMarks, LaunchEnds, TypeInv, CounterTypes, faultVars
<1>7. CounterTypes'
  BY <1>1, <1>5, <1>6 DEF TypeInv, CounterTypes
<1> QED BY <1>3, <1>4, <1>7 DEF TypeInv

LEMMA LaunchStartTypes ==
    ASSUME TypeInv, NEW l \in Launcher, LaunchStarts(l)
    PROVE  TypeInv'
<1>1. /\ FeedTypes' /\ Session \subseteq Session' /\ Len(emitted) + 1 \in Session'
  BY StartSessionAdds DEF LaunchStarts, TypeInv
<1>2. LaunchTypes'
  BY <1>1, LaunchMoves DEF LaunchStarts, TypeInv, LaunchTypes
<1>3. RowTypes' /\ PollTypes' /\ AuditTypes' /\ CounterTypes'
  BY <1>1, RowKept, PollKept, AuditKept
  DEF LaunchStarts, TypeInv, CounterTypes, RowId, requestVars, faultVars
<1> QED BY <1>1, <1>2, <1>3 DEF TypeInv

LEMMA LaunchPersistTypes ==
    ASSUME TypeInv, NEW l \in Launcher, LaunchPersists(l)
    PROVE  TypeInv'
<1>1. RowTypes' /\ RowId \subseteq RowId'
  BY PersistAdds
<1>2. UNCHANGED <<emitted, debited, poll, audit, asked, confirmed, deleted, overlaps, faults,
                  happened, waiting, marker>>
  BY DEF LaunchPersists, requestVars, moneyVars, faultVars
<1>3. Session' = Session /\ UNCHANGED lost
  BY <1>2 DEF Session, LaunchPersists
<1>4. LaunchTypes'
  <2>1. launch[l].session \in Session
    BY DEF LaunchPersists, TypeInv, LaunchTypes
  <2> QED BY <2>1, <1>2, <1>3, LaunchMoves DEF LaunchPersists, TypeInv, LaunchTypes
<1>5. FeedTypes' /\ PollTypes' /\ AuditTypes' /\ CounterTypes'
  BY <1>1, <1>2, <1>3, PollKept, AuditKept DEF TypeInv, CounterTypes, FeedTypes
<1> QED BY <1>1, <1>4, <1>5 DEF TypeInv

(* An execution is over before its time: its task waits again or is gone, and what it had
   started is lost or not. *)
Stops(l) ==
    \/ LaunchRetries(l) \/ LaunchRefused(l) \/ LaunchCrashes(l) \/ LaunchTimesOut(l)
    \/ LaunchKilled(l) \/ PersistFails(l)

LEMMA StoppedLaunch ==
    ASSUME NEW l \in Launcher, Stops(l)
    PROVE  /\ LaunchGoes(l, "rest", 0) /\ launch[l].at # "rest"
           /\ waiting' \in {waiting, waiting + 1}
           /\ UNCHANGED <<asked, confirmed, marker, rows, poll, audit, deleted, overlaps>>
           /\ launch[l].at = "recover" => waiting' = waiting + 1 \/ "kill" \in happened'
           /\ \/ /\ UNCHANGED <<emitted, debited, lost>>
                 /\ launch[l].at # "mark"
                 /\ launch[l].at = "persist" => waiting' = waiting + 1 /\ "crash" \in happened'
              \/ /\ UNCHANGED <<emitted, debited>>
                 /\ launch[l].at \in {"mark", "persist"}
                 /\ lost' = lost \cup {launch[l].session}
              \/ /\ StartSession /\ launch[l].at = "start"
                 /\ lost' = lost \cup {Len(emitted) + 1}
           /\ \E kind : Happens(kind)
<1>1. CASE LaunchRetries(l) \/ LaunchCrashes(l)
  BY <1>1 DEF LaunchRetries, LaunchCrashes, LaunchAgain, Happens, requestVars
<1>2. CASE LaunchRefused(l)
  BY <1>2 DEF LaunchRefused, Happens, requestVars, moneyVars
<1>3. CASE LaunchTimesOut(l)
  BY <1>3 DEF LaunchTimesOut, LaunchAgain, Loses, Happens, requestVars
<1>4. CASE LaunchKilled(l)
  BY <1>4 DEF LaunchKilled, Loses, Happens, requestVars
<1>5. CASE PersistFails(l)
  BY <1>5 DEF PersistFails, Loses, Happens, requestVars, moneyVars
<1> QED BY <1>1, <1>2, <1>3, <1>4, <1>5 DEF Stops

LEMMA LaunchStopTypes ==
    ASSUME TypeInv, NEW l \in Launcher, Stops(l)
    PROVE  TypeInv'
<1>1. StartSession \/ UNCHANGED <<emitted, debited>>
  BY StoppedLaunch
<1>2. FeedTypes' /\ Session \subseteq Session'
  <2>1. CASE StartSession
    BY <2>1, StartSessionAdds DEF TypeInv
  <2>2. CASE UNCHANGED <<emitted, debited>>
    BY <2>2 DEF TypeInv, FeedTypes, Session
  <2> QED BY <1>1, <2>1, <2>2
<1>3. lost' \subseteq Session'
  <2>1. CASE StartSession
    <3>1. Session' = Session \cup {Len(emitted) + 1}
      BY <2>1, StartSessionAdds DEF TypeInv
    <3>2. launch[l].at \in {"mark", "persist"} => launch[l].session \in Session
      BY DEF TypeInv, LaunchTypes
    <3> QED BY <3>1, <3>2, StoppedLaunch DEF TypeInv, LaunchTypes
  <2>2. CASE UNCHANGED <<emitted, debited>>
    <3>1. lost \subseteq Session /\ (launch[l].at \in {"mark", "persist"} => launch[l].session \in Session)
      BY DEF TypeInv, LaunchTypes
    <3>2. ~StartSession
      BY <2>2, StartSessionAdds, Ids DEF TypeInv
    <3> QED BY <1>2, <3>1, <3>2, StoppedLaunch
  <2> QED BY <1>1, <2>1, <2>2
<1>4. LaunchTypes'
  <2>1. marker' \in {0} \cup Session'
    BY <1>2, StoppedLaunch DEF TypeInv, LaunchTypes
  <2> QED BY <1>2, <1>3, <2>1, StoppedLaunch, LaunchMoves DEF TypeInv
<1>5. RowTypes' /\ PollTypes' /\ AuditTypes'
  <2>1. UNCHANGED <<rows, poll, audit>>
    BY StoppedLaunch
  <2> QED BY <1>2, <2>1, RowKept, PollKept, AuditKept DEF TypeInv, RowId
<1>6. faults' \in 0..MaxFaults /\ happened' \subseteq Faults \cup {"race"}
  BY FaultCounted, StoppedLaunch DEF TypeInv
<1>7. CounterTypes'
  BY <1>6, StoppedLaunch DEF TypeInv, CounterTypes
<1> QED BY <1>2, <1>4, <1>5, <1>7 DEF TypeInv

LEMMA StartPollTypes ==
    ASSUME TypeInv, NEW p \in Poller, NEW r \in RowId, StartPoll(p, r)
    PROVE  TypeInv'
<1>1. /\ PollTypes' /\ overlaps' \in 0..MaxOverlaps
      /\ happened' \subseteq Faults \cup {"race"}
  BY StartPollReads
<1>2. UNCHANGED <<requestVars, launchVars, emitted, rows, moneyVars, deleted, faults>>
  BY DEF StartPoll, faultVars
<1>3. LaunchTypes' /\ RowTypes' /\ AuditTypes' /\ FeedTypes'
  BY <1>2, LaunchKept, RowKept, AuditKept
  DEF TypeInv, FeedTypes, Session, launchVars, moneyVars
<1>4. CounterTypes'
  BY <1>1, <1>2 DEF TypeInv, CounterTypes, requestVars, launchVars
<1> QED BY <1>1, <1>3, <1>4 DEF TypeInv

LEMMA PollStepTypes ==
    ASSUME TypeInv, NEW p \in Poller,
           Fetch(p) \/ Commit(p) \/ CheckDebit(p) \/ PollFails(p) \/ SettleFails(p)
    PROVE  TypeInv'
<1>1. UNCHANGED <<requestVars, launchVars, emitted, moneyVars, deleted, overlaps>>
  BY DEF Fetch, Commit, CheckDebit, PollFails, SettleFails, Happens, faultVars
<1>2. LaunchTypes' /\ AuditTypes' /\ FeedTypes'
  BY <1>1, LaunchKept, AuditKept DEF TypeInv, FeedTypes, Session, launchVars, moneyVars
<1>3. faults' \in 0..MaxFaults /\ happened' \subseteq Faults \cup {"race"}
  BY FaultCounted
  DEF Fetch, Commit, CheckDebit, PollFails, SettleFails, TypeInv, CounterTypes, faultVars, Race
<1>4. CounterTypes'
  BY <1>1, <1>3 DEF TypeInv, CounterTypes, requestVars, launchVars
<1>5. RowTypes' /\ RowId' = RowId
  <2>1. CASE Commit(p)
    BY <2>1, CommitWrites
  <2>2. CASE UNCHANGED rows
    BY <2>2, <1>1, RowKept DEF TypeInv, RowId, Session
  <2> QED BY <2>1, <2>2 DEF Fetch, CheckDebit, PollFails, SettleFails
<1>6. PollTypes'
  <2>1. CASE Fetch(p)
    BY <2>1, FetchReads
  <2>2. CASE \E step \in {"rest"} \cup Settling : PollGoes(p, step) /\ poll[p].at # "rest"
    BY <2>2, <1>5, PollMoves DEF TypeInv
  <2> QED BY <2>1, <2>2 DEF Commit, CheckDebit, PollFails, SettleFails, Open, Settling
<1> QED BY <1>2, <1>4, <1>5, <1>6 DEF TypeInv

(* The ledger, by the poll that saw the end or by the operator. *)
LEMMA DebitTypes ==
    ASSUME TypeInv, (\E p \in Poller : ApplyDebit(p)) \/ ReconcileDebits
    PROVE  /\ TypeInv'
           /\ UNCHANGED <<emitted, rows>>
<1>1. UNCHANGED <<requestVars, launchVars, emitted, rows, deleted, faultVars>>
  BY DEF ApplyDebit, ReconcileDebits
<1>2. Session' = Session /\ RowId' = RowId
  BY <1>1 DEF Session, RowId
<1>3. LaunchTypes' /\ RowTypes' /\ CounterTypes'
  BY <1>1, <1>2, LaunchKept, RowKept
  DEF TypeInv, CounterTypes, requestVars, launchVars, faultVars
<1>4. FeedTypes' /\ PollTypes' /\ AuditTypes'
  <2>1. ASSUME NEW p \in Poller, ApplyDebit(p)
        PROVE  FeedTypes' /\ PollTypes' /\ AuditTypes'
    <3>1. poll[p].row \in RowId
      BY <2>1 DEF ApplyDebit, TypeInv, PollTypes
    <3>2. SessionOf(p) \in Session
      BY <3>1, RowIds DEF TypeInv, RowRecords, SessionOf
    <3>3. debited[SessionOf(p)] + Len(Script) \in Nat
      BY <3>2, Ids, ScriptShape DEF TypeInv
    <3>4. debited' = [debited EXCEPT ![SessionOf(p)] = debited[SessionOf(p)] + Len(Script)]
      BY <2>1 DEF ApplyDebit
    <3>5. SessionOf(p) \in 1..Len(debited)
      BY <3>2, Ids DEF TypeInv, FeedTypes
    <3>6. debited' \in Seq(Nat) /\ Len(debited') = Len(debited)
      BY <3>3, <3>4, <3>5, ExceptSeq DEF TypeInv, FeedTypes
    <3>7. FeedTypes'
      BY <1>1, <3>6 DEF TypeInv, FeedTypes
    <3>8. PollTypes'
      BY <2>1, <1>2, PollMoves DEF ApplyDebit, TypeInv
    <3>9. AuditTypes'
      BY <2>1, <1>2, AuditKept DEF ApplyDebit, TypeInv
    <3> QED BY <3>7, <3>8, <3>9
  <2>2. ASSUME ReconcileDebits
        PROVE  FeedTypes' /\ PollTypes' /\ AuditTypes'
    <3>1. audit.session \in Session
      BY <2>2 DEF ReconcileDebits, TypeInv, AuditTypes, AuditRecords
    <3>2. debited[audit.session] + audit.delta \in Nat
      BY <3>1, Ids, ScriptShape DEF TypeInv, AuditTypes, AuditRecords
    <3>3. debited' = [debited EXCEPT ![audit.session] = debited[audit.session] + audit.delta]
      BY <2>2 DEF ReconcileDebits
    <3>4. audit.session \in 1..Len(debited)
      BY <3>1, Ids DEF TypeInv, FeedTypes
    <3>5. debited' \in Seq(Nat) /\ Len(debited') = Len(debited)
      BY <3>2, <3>3, <3>4, ExceptSeq DEF TypeInv, FeedTypes
    <3>6. FeedTypes'
      BY <1>1, <3>5 DEF TypeInv, FeedTypes
    <3>7. PollTypes'
      BY <2>2, <1>2, PollKept DEF ReconcileDebits, TypeInv
    <3>8. AuditTypes'
      BY <2>2, ScriptShape DEF ReconcileDebits, AuditTypes, AuditRecords, RestingAudit
    <3> QED BY <3>6, <3>7, <3>8
  <2> QED BY <2>1, <2>2
<1> QED BY <1>1, <1>3, <1>4 DEF TypeInv

LEMMA ReconcileTypes ==
    ASSUME TypeInv, NEW s \in Session, Reconcile(s)
    PROVE  TypeInv'
<1>1. UNCHANGED <<requestVars, launchVars, emitted, rows, poll, debited, deleted, overlaps>>
  BY DEF Reconcile
<1>2. Session' = Session /\ RowId' = RowId
  BY <1>1 DEF Session, RowId
<1>3. LaunchTypes' /\ RowTypes' /\ PollTypes' /\ FeedTypes'
  BY <1>1, <1>2, LaunchKept, RowKept, PollKept DEF TypeInv, FeedTypes, launchVars
<1>4. AuditTypes'
  <2>1. emitted[s] - debited[s] \in 0..Len(Script)
    BY Ids, ScriptShape DEF Reconcile, TypeInv
  <2>2. s # 0
    BY Ids DEF TypeInv
  <2> QED BY <1>2, <2>1, <2>2 DEF Reconcile, AuditTypes, AuditRecords
<1>5. CounterTypes'
  <2>1. faults' \in 0..MaxFaults
    BY SessionsAssumption DEF Reconcile, TypeInv, CounterTypes
  <2>2. happened' \subseteq Faults \cup {"race"}
    BY DEF Reconcile, TypeInv, CounterTypes, Race
  <2> QED BY <1>1, <2>1, <2>2 DEF TypeInv, CounterTypes, requestVars, launchVars
<1> QED BY <1>3, <1>4, <1>5 DEF TypeInv

(* One event more of one feed. *)
LEMMA EmitAdds ==
    ASSUME FeedTypes, NEW s \in Session, Emit(s)
    PROVE  /\ FeedTypes' /\ Session' = Session
           /\ emitted[s] < Len(Script)
           /\ \A t \in Session : emitted'[t] = IF t = s THEN emitted[s] + 1 ELSE emitted[t]
<1>1. emitted[s] \in 0..Len(Script) /\ emitted[s] # Len(Script) /\ s \in 1..Len(emitted)
  BY Ids DEF Emit, Ended
<1>2. emitted[s] < Len(Script) /\ emitted[s] + 1 \in 0..Len(Script)
  BY <1>1, ScriptShape
<1>3. emitted' = [emitted EXCEPT ![s] = emitted[s] + 1] /\ UNCHANGED debited
  BY DEF Emit, moneyVars
<1>4. /\ emitted' \in Seq(0..Len(Script))
      /\ Len(emitted') = Len(emitted)
      /\ \A t \in 1..Len(emitted) : emitted'[t] = IF t = s THEN emitted[s] + 1 ELSE emitted[t]
  BY <1>1, <1>2, <1>3, ExceptSeq DEF FeedTypes
<1>5. Session' = 1..Len(emitted)
  BY <1>4, LenProperties DEF Session
<1> QED BY <1>2, <1>3, <1>4, <1>5, Ids DEF FeedTypes

LEMMA EmitTypes ==
    ASSUME TypeInv, NEW s \in Session, Emit(s)
    PROVE  TypeInv'
<1>1. FeedTypes' /\ Session' = Session
  BY EmitAdds DEF TypeInv
<1>2. UNCHANGED <<requestVars, launchVars, rows, poll, moneyVars, deleted, faultVars>>
  BY DEF Emit
<1>3. LaunchTypes' /\ RowTypes' /\ PollTypes' /\ AuditTypes'
  BY <1>1, <1>2, LaunchKept, RowKept, PollKept, AuditKept
  DEF TypeInv, launchVars, moneyVars, RowId
<1>4. CounterTypes'
  BY <1>2 DEF TypeInv, CounterTypes, requestVars, launchVars, faultVars
<1> QED BY <1>1, <1>3, <1>4 DEF TypeInv

LEMMA TypeInvInductive ==
    ASSUME TypeInv, [SessionsNext]_sessionsVars
    PROVE  TypeInv'
<1>1. CASE Ask \/ Confirm \/ DeleteProject \/ MarkerLapses
  BY <1>1, UserTypes
<1>2. CASE \E l \in Launcher : LaunchStep(l)
  BY <1>2, LaunchMoveTypes, LaunchStartTypes, LaunchPersistTypes DEF LaunchStep
<1>3. CASE \E l \in Launcher : Stops(l)
  BY <1>3, LaunchStopTypes
<1>4. CASE \E s \in Session : Emit(s) \/ Reconcile(s)
  BY <1>4, EmitTypes, ReconcileTypes
<1>5. CASE \E p \in Poller, r \in RowId : StartPoll(p, r)
  BY <1>5, StartPollTypes
<1>6. CASE \E p \in Poller : PollStep(p) \/ PollFails(p) \/ SettleFails(p)
  BY <1>6, PollStepTypes, DebitTypes DEF PollStep
<1>7. CASE ReconcileDebits
  BY <1>7, DebitTypes
<1>8. CASE UNCHANGED sessionsVars
  <2>1. Session' = Session /\ RowId' = RowId
    BY <1>8 DEF sessionsVars, Session, RowId
  <2>2. LaunchTypes' /\ RowTypes' /\ PollTypes' /\ AuditTypes'
    BY <1>8, <2>1, LaunchKept, RowKept, PollKept, AuditKept DEF TypeInv, sessionsVars
  <2> QED BY <1>8, <2>2 DEF TypeInv, CounterTypes, FeedTypes, sessionsVars
<1> QED BY <1>1, <1>2, <1>3, <1>4, <1>5, <1>6, <1>7, <1>8 DEF SessionsNext, Trouble, Stops

LEMMA TypeInvSafe == SessionsSpec => []TypeInv
BY TypeInvInit, TypeInvInductive, PTL DEF SessionsSpec

-----------------------------------------------------------------------------
(* What no step takes back: sessions, their feeds, rows and what rows are of, and what
   has happened. *)
Grown ==
    /\ Session \subseteq Session'
    /\ \A s \in Session : emitted'[s] >= emitted[s]
    /\ RowId \subseteq RowId'
    /\ \A r \in RowId : rows'[r].session = rows[r].session
    /\ happened \subseteq happened'

LEMMA FaultKept ==
    ASSUME NEW kind, Happens(kind)
    PROVE  happened \subseteq happened'
BY DEF Happens

LEMMA FeedsGrow ==
    ASSUME FeedTypes, \/ UNCHANGED emitted
                      \/ StartSession
                      \/ \E s \in Session : Emit(s)
    PROVE  /\ Session \subseteq Session'
           /\ \A s \in Session : emitted'[s] >= emitted[s]
<1>1. \A s \in Session : emitted[s] \in Nat
  BY Ids, ScriptShape
<1>2. CASE UNCHANGED emitted
  BY <1>1, <1>2 DEF Session
<1>3. CASE StartSession
  BY <1>1, <1>3, StartSessionAdds
<1>4. CASE \E s \in Session : Emit(s)
  BY <1>1, <1>4, EmitAdds
<1> QED BY <1>2, <1>3, <1>4

LEMMA RowsGrow ==
    ASSUME TypeInv, \/ UNCHANGED rows
                    \/ \E l \in Launcher : LaunchPersists(l)
                    \/ \E p \in Poller : Commit(p)
    PROVE  /\ RowId \subseteq RowId'
           /\ \A r \in RowId : rows'[r].session = rows[r].session
<1>1. CASE UNCHANGED rows
  BY <1>1 DEF RowId
<1>2. ASSUME NEW l \in Launcher, LaunchPersists(l)
      PROVE  /\ RowId \subseteq RowId'
             /\ \A r \in RowId : rows'[r].session = rows[r].session
  BY <1>2, PersistAdds
<1>3. ASSUME NEW p \in Poller, Commit(p)
      PROVE  /\ RowId \subseteq RowId'
             /\ \A r \in RowId : rows'[r].session = rows[r].session
  BY <1>3, CommitWrites
<1> QED BY <1>1, <1>2, <1>3

LEMMA StepsGrow ==
    ASSUME TypeInv, [SessionsNext]_sessionsVars
    PROVE  Grown
<1>1. CASE Ask \/ Confirm \/ DeleteProject \/ MarkerLapses
  <2>1. UNCHANGED <<emitted, rows>> /\ happened \subseteq happened'
    BY <1>1, FaultKept
    DEF Ask, Confirm, DeleteProject, MarkerLapses, faultVars
  <2> QED BY <2>1, FeedsGrow, RowsGrow DEF Grown, TypeInv
<1>2. ASSUME NEW l \in Launcher, LaunchStep(l)
      PROVE  Grown
  <2>1. /\ UNCHANGED happened
        /\ UNCHANGED emitted \/ StartSession
        /\ UNCHANGED rows \/ LaunchPersists(l)
    BY <1>2 DEF LaunchStep, LaunchTakes, LaunchRecovers, LaunchMarks, LaunchEnds,
                LaunchStarts, LaunchPersists, faultVars
  <2> QED BY <2>1, FeedsGrow, RowsGrow DEF Grown, TypeInv
<1>3. ASSUME NEW l \in Launcher, Stops(l)
      PROVE  Grown
  <2>1. /\ happened \subseteq happened'
        /\ UNCHANGED emitted \/ StartSession
        /\ UNCHANGED rows
    BY <1>3, FaultKept, StoppedLaunch
  <2> QED BY <2>1, FeedsGrow, RowsGrow DEF Grown, TypeInv
<1>4. ASSUME NEW s \in Session, Emit(s) \/ Reconcile(s)
      PROVE  Grown
  <2>1. /\ happened \subseteq happened'
        /\ UNCHANGED emitted \/ Emit(s)
        /\ UNCHANGED rows
    BY <1>4 DEF Emit, Reconcile, faultVars
  <2> QED BY <2>1, FeedsGrow, RowsGrow DEF Grown, TypeInv
<1>5. ASSUME NEW p \in Poller, NEW r \in RowId, StartPoll(p, r)
      PROVE  Grown
  <2>1. happened \subseteq happened' /\ UNCHANGED <<emitted, rows>>
    BY <1>5, StartPollReads DEF StartPoll
  <2> QED BY <2>1, FeedsGrow, RowsGrow DEF Grown, TypeInv
<1>6. ASSUME NEW p \in Poller, PollStep(p) \/ PollFails(p) \/ SettleFails(p)
      PROVE  Grown
  <2>1. /\ happened \subseteq happened'
        /\ UNCHANGED emitted
        /\ UNCHANGED rows \/ Commit(p)
    BY <1>6, FaultKept
    DEF PollStep, Fetch, Commit, CheckDebit, ApplyDebit, PollFails, SettleFails, faultVars
  <2> QED BY <2>1, FeedsGrow, RowsGrow DEF Grown, TypeInv
<1>7. CASE ReconcileDebits \/ UNCHANGED sessionsVars
  <2>1. UNCHANGED <<emitted, rows, happened>>
    BY <1>7 DEF ReconcileDebits, sessionsVars, faultVars
  <2> QED BY <2>1, FeedsGrow, RowsGrow DEF Grown, TypeInv
<1> QED BY <1>1, <1>2, <1>3, <1>4, <1>5, <1>6, <1>7 DEF SessionsNext, Trouble, Stops

-----------------------------------------------------------------------------
(* Part 3.  The ledger.  A poll goes on to settle only a session that has ended, since
   what it fetched is in the feed; until two debits of a session race, whoever has
   decided to debit it is alone and finds the ledger as it was when it looked. *)
CostKnown ==
    \A p \in Poller :
        /\ poll[p].at \in Settling => Ended(SessionOf(p))
        /\ poll[p].at = "commit" => poll[p].upto <= emitted[SessionOf(p)]

OneDebit ==
    Safe({"race"}) =>
        /\ \A p \in Poller : poll[p].at = "debit" =>
              /\ debited[SessionOf(p)] = 0
              /\ audit.session # SessionOf(p)
              /\ \A q \in Poller : poll[q].at = "debit" /\ SessionOf(q) = SessionOf(p) => q = p
        /\ audit.at = "debit" => debited[audit.session] + audit.delta <= emitted[audit.session]

LedgerInv == CostKnown /\ OneDebit /\ NeverOvercharged

LEMMA PolledSession ==
    ASSUME TypeInv
    PROVE  \A p \in Poller : poll[p].at # "rest" =>
               /\ poll[p].row \in RowId /\ SessionOf(p) \in Session
               /\ SessionOf(p) # 0
<1>1. \A r \in RowId : rows[r].session \in Session
  BY RowIds DEF TypeInv, RowRecords
<1>2. 0 \notin Session
  BY Ids DEF TypeInv
<1> QED BY <1>1, <1>2 DEF TypeInv, PollTypes, SessionOf

(* Who keeps its poll keeps its session; a session that has ended stays so. *)
LEMMA PollStays ==
    ASSUME TypeInv, TypeInv', Grown, NEW p \in Poller, poll[p].at # "rest",
           poll'[p].row = poll[p].row
    PROVE  /\ SessionOf(p)' = SessionOf(p)
           /\ Ended(SessionOf(p)) => Ended(SessionOf(p))'
           /\ emitted'[SessionOf(p)] >= emitted[SessionOf(p)]
<1>1. poll[p].row \in RowId /\ SessionOf(p) \in Session
  BY PolledSession
<1>2. SessionOf(p)' = SessionOf(p)
  BY <1>1 DEF Grown, SessionOf
<1>3. emitted[SessionOf(p)] \in 0..Len(Script) /\ emitted'[SessionOf(p)] >= emitted[SessionOf(p)]
  BY <1>1, Ids DEF TypeInv, Grown
<1>4. emitted'[SessionOf(p)] \in 0..Len(Script)
  <2>1. SessionOf(p) \in Session'
    BY <1>1 DEF Grown
  <2> QED BY <2>1, ElementOfSeq, LenProperties DEF TypeInv, FeedTypes, Session
<1> QED BY <1>2, <1>3, <1>4, ScriptShape DEF Ended

(* Steps in which no poll settles, and nothing is debited. *)
LEMMA NoDebitKeepsLedger ==
    ASSUME TypeInv, TypeInv', Grown, LedgerInv,
           \A p \in Poller : poll'[p] = poll[p] \/ poll'[p].at \in {"rest", "fetch"},
           UNCHANGED audit,
           \A s \in Session : debited'[s] = debited[s],
           \A s \in Session' \ Session : debited'[s] = 0
    PROVE  LedgerInv'
<1>1. Safe({"race"})' => Safe({"race"})
  BY DEF Safe, Grown
<1>2. \A p \in Poller : poll'[p].at \in {"commit"} \cup Settling =>
          /\ poll[p].at = poll'[p].at
          /\ poll'[p].upto = poll[p].upto
          /\ SessionOf(p)' = SessionOf(p) /\ SessionOf(p) \in Session
          /\ Ended(SessionOf(p)) => Ended(SessionOf(p))'
          /\ emitted'[SessionOf(p)] >= emitted[SessionOf(p)]
  <2> SUFFICES ASSUME NEW p \in Poller, poll'[p].at \in {"commit"} \cup Settling
               PROVE  /\ poll[p].at = poll'[p].at
                      /\ poll'[p].upto = poll[p].upto
                      /\ SessionOf(p)' = SessionOf(p) /\ SessionOf(p) \in Session
                      /\ Ended(SessionOf(p)) => Ended(SessionOf(p))'
                      /\ emitted'[SessionOf(p)] >= emitted[SessionOf(p)]
    OBVIOUS
  <2>1. poll'[p] = poll[p] /\ poll[p].at # "rest"
    BY DEF Settling
  <2> QED BY <2>1, PollStays, PolledSession
<1>3. CostKnown'
  <2> SUFFICES ASSUME NEW p \in Poller
               PROVE  /\ poll'[p].at \in Settling => Ended(SessionOf(p))'
                      /\ poll'[p].at = "commit" => poll'[p].upto <= emitted'[SessionOf(p)']
    BY DEF CostKnown
  <2>1. CASE poll'[p].at \in Settling
    BY <2>1, <1>2 DEF LedgerInv, CostKnown, Settling
  <2>2. CASE poll'[p].at = "commit"
    <3>1. poll[p].upto <= emitted[SessionOf(p)] /\ SessionOf(p) \in Session
      BY <2>2, <1>2 DEF LedgerInv, CostKnown
    <3>2. poll[p].upto \in Nat /\ emitted[SessionOf(p)] \in Nat
          /\ emitted'[SessionOf(p)] \in Nat
      <4>1. SessionOf(p) \in Session'
        BY <3>1 DEF Grown
      <4>2. emitted'[SessionOf(p)] \in 0..Len(Script)
        BY <4>1, ElementOfSeq, LenProperties DEF TypeInv, FeedTypes, Session
      <4> QED BY <3>1, <4>2, Ids, ScriptShape DEF TypeInv, PollTypes, PollRecords
    <3> QED BY <2>2, <3>1, <3>2, <1>2 DEF Settling
  <2> QED BY <2>1, <2>2
<1>4. ASSUME Safe({"race"})', NEW s \in Session'
      PROVE  debited'[s] <= emitted'[s]
  <2>1. emitted'[s] \in Nat
    BY ElementOfSeq, LenProperties, ScriptShape DEF TypeInv, FeedTypes, Session
  <2>2. CASE s \in Session
    BY <2>1, <2>2, <1>1, <1>4, Ids DEF Grown, LedgerInv, NeverOvercharged, TypeInv
  <2>3. CASE s \notin Session
    BY <2>1, <2>3
  <2> QED BY <2>2, <2>3
<1>5. ASSUME Safe({"race"})', NEW p \in Poller, poll'[p].at = "debit"
      PROVE  /\ debited'[SessionOf(p)'] = 0
             /\ audit'.session # SessionOf(p)'
             /\ \A q \in Poller : poll'[q].at = "debit" /\ SessionOf(q)' = SessionOf(p)' => q = p
  <2>1. \A q \in Poller : poll'[q].at = "debit" =>
            poll[q].at = "debit" /\ SessionOf(q)' = SessionOf(q) /\ SessionOf(q) \in Session
    BY <1>2 DEF Settling
  <2> QED BY <2>1, <1>1, <1>5 DEF LedgerInv, OneDebit
<1>6. ASSUME Safe({"race"})', audit'.at = "debit"
      PROVE  debited'[audit'.session] + audit'.delta <= emitted'[audit'.session]
  <2>1. audit.session \in Session /\ audit.delta \in Nat
    BY <1>6, ScriptShape DEF TypeInv, AuditTypes, AuditRecords
  <2>2. debited[audit.session] + audit.delta <= emitted[audit.session]
    BY <1>1, <1>6 DEF LedgerInv, OneDebit
  <2>3. /\ emitted'[audit.session] >= emitted[audit.session]
        /\ emitted[audit.session] \in Nat /\ debited[audit.session] \in Nat
    BY <2>1, Ids, ScriptShape DEF Grown, TypeInv
  <2>4. emitted'[audit.session] \in Nat
    <3>1. audit.session \in Session'
      BY <2>1 DEF Grown
    <3> QED BY <3>1, ElementOfSeq, LenProperties, ScriptShape DEF TypeInv, FeedTypes, Session
  <2> QED BY <2>1, <2>2, <2>3, <2>4
<1>7. OneDebit'
  BY <1>5, <1>6 DEF OneDebit
<1>8. NeverOvercharged'
  BY <1>4 DEF NeverOvercharged
<1> QED BY <1>3, <1>7, <1>8 DEF LedgerInv

(* One poll moves; the others know what they knew. *)
LEMMA OnePollMoves ==
    ASSUME TypeInv, TypeInv', Grown, LedgerInv, UNCHANGED emitted, NEW p \in Poller,
           \A q \in Poller \ {p} : poll'[q] = poll[q],
           poll'[p].at # "rest" => poll[p].at # "rest" /\ poll'[p].row = poll[p].row,
           poll'[p].at \in Settling => Ended(SessionOf(p)),
           poll'[p].at = "commit" => poll'[p].upto <= emitted[SessionOf(p)]
    PROVE  /\ CostKnown'
           /\ \A q \in Poller : poll'[q].at \in Settling =>
                 /\ SessionOf(q)' = SessionOf(q) /\ SessionOf(q) \in Session
                 /\ q # p => poll[q] = poll'[q]
<1>1. \A q \in Poller : poll'[q].at # "rest" =>
          /\ poll[q].at # "rest" /\ poll'[q].row = poll[q].row
  OBVIOUS
<1>2. \A q \in Poller : poll'[q].at # "rest" =>
          /\ SessionOf(q)' = SessionOf(q) /\ SessionOf(q) \in Session
          /\ Ended(SessionOf(q)) => Ended(SessionOf(q))'
  BY <1>1, PollStays, PolledSession
<1>3. ASSUME NEW q \in Poller
      PROVE  /\ poll'[q].at \in Settling => Ended(SessionOf(q))'
             /\ poll'[q].at = "commit" => poll'[q].upto <= emitted'[SessionOf(q)']
  <2>1. CASE q = p
    BY <2>1, <1>2 DEF Settling
  <2>2. CASE q # p
    BY <2>2, <1>2 DEF LedgerInv, CostKnown, Settling
  <2> QED BY <2>1, <2>2
<1> QED BY <1>2, <1>3 DEF CostKnown, Settling

LEMMA SettlesKept ==
    ASSUME TypeInv, TypeInv', Grown, LedgerInv, UNCHANGED <<emitted, audit, debited>>,
           NEW p \in Poller,
           \A q \in Poller \ {p} : poll'[q] = poll[q],
           poll'[p].at # "rest" => poll[p].at # "rest" /\ poll'[p].row = poll[p].row,
           poll'[p].at \in Settling => Ended(SessionOf(p)),
           poll'[p].at = "commit" => poll'[p].upto <= emitted[SessionOf(p)],
           Safe({"race"})' /\ poll'[p].at = "debit" =>
               /\ debited[SessionOf(p)] = 0
               /\ ~DebitPending(SessionOf(p))
    PROVE  LedgerInv'
<1>1. /\ CostKnown'
      /\ \A q \in Poller : poll'[q].at \in Settling =>
            /\ SessionOf(q)' = SessionOf(q) /\ SessionOf(q) \in Session
            /\ q # p => poll[q] = poll'[q]
  BY OnePollMoves
<1>2. Safe({"race"})' => Safe({"race"})
  BY DEF Safe, Grown
<1>3. ASSUME Safe({"race"})', NEW q \in Poller, poll'[q].at = "debit"
      PROVE  /\ debited'[SessionOf(q)'] = 0
             /\ audit'.session # SessionOf(q)'
             /\ \A t \in Poller : poll'[t].at = "debit" /\ SessionOf(t)' = SessionOf(q)' => t = q
  <2>1. \A t \in Poller : poll'[t].at = "debit" =>
            SessionOf(t)' = SessionOf(t) /\ (t # p => poll[t].at = "debit")
    BY <1>1 DEF Settling
  <2>2. CASE q = p
    BY <2>1, <2>2, <1>3 DEF DebitPending
  <2>3. CASE q # p
    <3>1. poll[q].at = "debit" /\ SessionOf(q)' = SessionOf(q)
      BY <2>1, <2>3, <1>3
    <3>2. /\ debited[SessionOf(q)] = 0 /\ audit.session # SessionOf(q)
          /\ \A t \in Poller : poll[t].at = "debit" /\ SessionOf(t) = SessionOf(q) => t = q
      BY <3>1, <1>2, <1>3 DEF LedgerInv, OneDebit
    <3>3. poll'[p].at = "debit" => SessionOf(p) # SessionOf(q)
      BY <3>1, <1>3 DEF DebitPending
    <3> QED BY <3>1, <3>2, <3>3, <2>1
  <2> QED BY <2>2, <2>3
<1>4. OneDebit'
  BY <1>2, <1>3 DEF OneDebit, LedgerInv
<1>5. NeverOvercharged'
  BY <1>2 DEF NeverOvercharged, LedgerInv, Session
<1> QED BY <1>1, <1>4, <1>5 DEF LedgerInv

LEMMA PollKeepsLedger ==
    ASSUME TypeInv, TypeInv', Grown, LedgerInv, NEW p \in Poller,
           Fetch(p) \/ Commit(p) \/ CheckDebit(p)
    PROVE  LedgerInv'
<1>1. CASE Fetch(p)
  <2>1. UNCHANGED <<emitted, audit, debited>>
    BY <1>1 DEF Fetch, moneyVars
  <2>2. /\ poll'[p] = [poll[p] EXCEPT !.at = "commit",
                                      !.upto = emitted[rows[poll[p].row].session]]
        /\ \A q \in Poller \ {p} : poll'[q] = poll[q]
        /\ rows[poll[p].row].session \in Session
    BY <1>1, FetchReads
  <2>3. poll[p] \in PollRecords(RowId) /\ poll[p].at = "fetch"
    BY <1>1 DEF Fetch, TypeInv, PollTypes
  <2>4. /\ poll'[p].at = "commit" /\ poll'[p].row = poll[p].row
        /\ poll'[p].upto = emitted[SessionOf(p)]
    BY <2>2, <2>3 DEF PollRecords, SessionOf
  <2>5. emitted[SessionOf(p)] \in Nat
    BY <2>2, Ids, ScriptShape DEF TypeInv, SessionOf
  <2>6. \A q \in Poller \ {p} : poll'[q] = poll[q]
    BY <2>2
  <2>7. poll[p].at # "rest" /\ poll'[p].at \notin Settling /\ poll'[p].at # "debit"
    BY <2>3, <2>4 DEF Settling
  <2>8. poll'[p].upto <= emitted[SessionOf(p)]
    BY <2>4, <2>5
  <2> QED BY <2>1, <2>4, <2>6, <2>7, <2>8, SettlesKept
<1>2. CASE Commit(p)
  <2> DEFINE step == IF NewStatus(p) \in Terminal THEN "check" ELSE "rest"
  <2>1. UNCHANGED <<emitted, audit, debited>>
    BY <1>2 DEF Commit, moneyVars
  <2>2. /\ poll'[p].at = step
        /\ step # "rest" => poll'[p].row = poll[p].row
        /\ \A q \in Poller \ {p} : poll'[q] = poll[q]
    <3>1. step \in {"rest"} \cup Settling
      BY DEF Settling
    <3>2. poll[p].at # "rest" /\ RowId \subseteq RowId' /\ PollGoes(p, step)
      BY <1>2 DEF Commit, Grown
    <3> QED BY <3>1, <3>2, PollMoves DEF TypeInv
  <2>3. poll'[p].at \in Settling => Ended(SessionOf(p))
    <3> SUFFICES ASSUME NewStatus(p) \in Terminal PROVE Ended(SessionOf(p))
      BY <2>2 DEF Settling
    <3>1. poll[p].upto = Len(Script)
      BY NewStatusType
    <3>2. Len(Script) <= emitted[SessionOf(p)] /\ SessionOf(p) \in Session
      BY <1>2, <3>1, PolledSession DEF Commit, LedgerInv, CostKnown
    <3>3. emitted[SessionOf(p)] \in 0..Len(Script)
      BY <3>2, Ids DEF TypeInv
    <3> QED BY <3>2, <3>3, ScriptShape DEF Ended
  <2>4. poll[p].at # "rest" /\ poll'[p].at \notin {"commit", "debit"}
    BY <1>2, <2>2 DEF Commit
  <2> QED BY <2>1, <2>2, <2>3, <2>4, SettlesKept
<1>3. CASE CheckDebit(p)
  <2>1. UNCHANGED <<emitted, audit, debited>>
    BY <1>3 DEF CheckDebit, moneyVars
  <2>2. poll[p].at = "check" /\ Ended(SessionOf(p)) /\ SessionOf(p) \in Session
    BY <1>3, PolledSession DEF CheckDebit, LedgerInv, CostKnown, Settling
  <2>3. /\ poll'[p].at = IF debited[SessionOf(p)] > 0 THEN "rest" ELSE "debit"
        /\ poll'[p].at # "rest" => poll'[p].row = poll[p].row
        /\ \A q \in Poller \ {p} : poll'[q] = poll[q]
    BY <1>3, <2>2, PollMoves DEF CheckDebit, TypeInv, Grown, Settling
  <2>4. debited[SessionOf(p)] \in Nat
    BY <2>2, Ids DEF TypeInv
  <2>5. Safe({"race"})' /\ poll'[p].at = "debit" =>
            /\ debited[SessionOf(p)] = 0
            /\ ~DebitPending(SessionOf(p))
    BY <1>3, <2>3, <2>4 DEF CheckDebit, Safe, Race
  <2>6. poll'[p].at # "commit"
    BY <2>3
  <2> QED BY <2>1, <2>2, <2>3, <2>5, <2>6, SettlesKept
<1> QED BY <1>1, <1>2, <1>3

(* The debit of the poll that saw the end: the whole cost, into an empty ledger. *)
LEMMA ApplyKeepsLedger ==
    ASSUME TypeInv, TypeInv', Grown, LedgerInv, NEW p \in Poller, ApplyDebit(p)
    PROVE  LedgerInv'
<1> DEFINE s == SessionOf(p)
<1>1. /\ UNCHANGED <<emitted, rows, audit, happened>>
      /\ poll[p].at = "debit" /\ s \in Session /\ Ended(s)
  BY PolledSession DEF ApplyDebit, faultVars, LedgerInv, CostKnown, Settling
<1>2. /\ poll'[p].at = "rest"
      /\ \A q \in Poller \ {p} : poll'[q] = poll[q]
  BY PollMoves DEF ApplyDebit, TypeInv, Grown
<1>3. /\ CostKnown'
      /\ \A q \in Poller : poll'[q].at \in Settling =>
            /\ SessionOf(q)' = SessionOf(q) /\ SessionOf(q) \in Session
            /\ q # p => poll[q] = poll'[q]
  <2>1. poll'[p].at \notin Settling
    BY <1>2 DEF Settling
  <2> QED BY <1>1, <1>2, <2>1, OnePollMoves
<1>4. debited' = [debited EXCEPT ![s] = debited[s] + Len(Script)]
  BY DEF ApplyDebit
<1>5. \A t \in Session : debited'[t] = IF t = s THEN debited[s] + Len(Script) ELSE debited[t]
  BY <1>1, <1>4, Ids DEF TypeInv
<1>6. ASSUME Safe({"race"})
      PROVE  debited'[s] = emitted[s]
  BY <1>1, <1>5, <1>6, ScriptShape DEF LedgerInv, OneDebit, Ended
<1> HIDE DEF s
<1>7. NeverOvercharged'
  <2> SUFFICES ASSUME Safe({"race"}), NEW t \in Session PROVE debited'[t] <= emitted[t]
    BY <1>1 DEF NeverOvercharged, Safe, Session
  <2>1. emitted[t] \in Nat
    BY Ids, ScriptShape DEF TypeInv
  <2> QED BY <2>1, <1>5, <1>6 DEF LedgerInv, NeverOvercharged
<1>8. ASSUME Safe({"race"})
      PROVE  /\ \A q \in Poller : poll'[q].at = "debit" =>
                   /\ debited'[SessionOf(q)'] = 0
                   /\ audit.session # SessionOf(q)'
                   /\ \A t \in Poller : poll'[t].at = "debit" /\ SessionOf(t)' = SessionOf(q)'
                                           => t = q
             /\ audit.at = "debit" =>
                   debited'[audit.session] + audit.delta <= emitted[audit.session]
  <2>1. \A q \in Poller : poll'[q].at = "debit" =>
            /\ q # p /\ poll[q].at = "debit" /\ SessionOf(q)' = SessionOf(q)
            /\ SessionOf(q) \in Session
    BY <1>2, <1>3 DEF Settling
  <2>2. \A q \in Poller : poll[q].at = "debit" /\ q # p => SessionOf(q) # s
    BY <1>1, <1>8 DEF LedgerInv, OneDebit, s
  <2>3. audit.session # s
    BY <1>1, <1>8 DEF LedgerInv, OneDebit, s
  <2>4. audit.at = "debit" => audit.session \in Session
    BY DEF TypeInv, AuditTypes, AuditRecords
  <2> QED BY <2>1, <2>2, <2>3, <2>4, <1>5, <1>8 DEF LedgerInv, OneDebit
<1>9. OneDebit'
  BY <1>1, <1>8 DEF OneDebit, Safe
<1> QED BY <1>3, <1>7, <1>9 DEF LedgerInv

(* The operator's debit: of what the ledger lacked when it was looked at. *)
LEMMA ReconcileKeepsLedger ==
    ASSUME TypeInv, TypeInv', Grown, LedgerInv, NEW s \in Session, Reconcile(s)
    PROVE  LedgerInv'
<1>1. /\ UNCHANGED <<emitted, rows, poll, debited>>
      /\ audit'.at = "debit" /\ audit'.session = s /\ audit'.delta = emitted[s] - debited[s]
  BY DEF Reconcile
<1>2. Safe({"race"})' => Safe({"race"}) /\ ~DebitPending(s)
  BY DEF Reconcile, Safe, Race
<1>3. CostKnown' /\ NeverOvercharged'
  BY <1>1, <1>2 DEF LedgerInv, CostKnown, NeverOvercharged, SessionOf, Ended, Session
<1>4. debited[s] + (emitted[s] - debited[s]) <= emitted[s]
  BY Ids, ScriptShape DEF TypeInv
<1>5. ASSUME Safe({"race"})', NEW p \in Poller, poll[p].at = "debit"
      PROVE  /\ debited[SessionOf(p)] = 0
             /\ s # SessionOf(p)
             /\ \A q \in Poller : poll[q].at = "debit" /\ SessionOf(q) = SessionOf(p) => q = p
  BY <1>2, <1>5 DEF LedgerInv, OneDebit, DebitPending
<1>6. OneDebit'
  BY <1>1, <1>4, <1>5 DEF OneDebit, SessionOf
<1> QED BY <1>3, <1>6 DEF LedgerInv

LEMMA ReconcileDebitsKeepsLedger ==
    ASSUME TypeInv, TypeInv', Grown, LedgerInv, ReconcileDebits
    PROVE  LedgerInv'
<1> DEFINE s == audit.session
<1>1. /\ UNCHANGED <<emitted, rows, poll, happened>>
      /\ audit.at = "debit" /\ s \in Session /\ audit.delta \in Nat
  BY ScriptShape DEF ReconcileDebits, faultVars, TypeInv, AuditTypes, AuditRecords
<1>2. /\ audit'.at = "rest" /\ audit'.session = 0
      /\ debited' = [debited EXCEPT ![s] = debited[s] + audit.delta]
  BY DEF ReconcileDebits, RestingAudit
<1>3. \A t \in Session : debited'[t] = IF t = s THEN debited[s] + audit.delta ELSE debited[t]
  BY <1>1, <1>2, Ids DEF TypeInv
<1>4. CostKnown'
  BY <1>1 DEF LedgerInv, CostKnown, SessionOf, Ended
<1>5. Safe({"race"}) => debited[s] + audit.delta <= emitted[s]
  BY <1>1 DEF LedgerInv, OneDebit
<1> HIDE DEF s
<1>6. NeverOvercharged'
  <2> SUFFICES ASSUME Safe({"race"}), NEW t \in Session PROVE debited'[t] <= emitted[t]
    BY <1>1 DEF NeverOvercharged, Safe, Session
  <2> QED BY <1>3, <1>5 DEF LedgerInv, NeverOvercharged
<1>7. ASSUME Safe({"race"}), NEW p \in Poller, poll[p].at = "debit"
      PROVE  /\ debited'[SessionOf(p)] = 0
             /\ 0 # SessionOf(p)
             /\ \A q \in Poller : poll[q].at = "debit" /\ SessionOf(q) = SessionOf(p) => q = p
  <2>1. SessionOf(p) # s /\ SessionOf(p) \in Session /\ SessionOf(p) # 0
    BY <1>7, PolledSession DEF LedgerInv, OneDebit, s
  <2> QED BY <2>1, <1>3, <1>7 DEF LedgerInv, OneDebit
<1>8. OneDebit'
  BY <1>1, <1>2, <1>7 DEF OneDebit, Safe, SessionOf
<1> QED BY <1>4, <1>6, <1>8 DEF LedgerInv

LEMMA LedgerInductive ==
    ASSUME TypeInv, LedgerInv, [SessionsNext]_sessionsVars
    PROVE  LedgerInv'
<1>1. TypeInv' /\ Grown
  BY TypeInvInductive, StepsGrow
<1>2. ASSUME UNCHANGED <<poll, audit>>,
             StartSession \/ UNCHANGED debited,
             StartSession \/ UNCHANGED Session
      PROVE  LedgerInv'
  <2>1. /\ \A s \in Session : debited'[s] = debited[s]
        /\ \A s \in Session' \ Session : debited'[s] = 0
    BY <1>2, StartSessionAdds DEF TypeInv
  <2> QED BY <2>1, <1>1, <1>2, NoDebitKeepsLedger
<1>3. CASE Ask \/ Confirm \/ DeleteProject \/ MarkerLapses \/ UNCHANGED sessionsVars
  <2>1. UNCHANGED <<poll, audit, debited, emitted>>
    BY <1>3 DEF Ask, Confirm, DeleteProject, MarkerLapses, sessionsVars, moneyVars
  <2> QED BY <2>1, <1>2 DEF Session
<1>4. ASSUME NEW l \in Launcher,
             LaunchStep(l) \/ Stops(l)
      PROVE  LedgerInv'
  <2>1. /\ UNCHANGED <<poll, audit>>
        /\ StartSession \/ UNCHANGED <<emitted, debited>>
    BY <1>4, StoppedLaunch
    DEF LaunchStep, LaunchTakes, LaunchRecovers, LaunchStarts, LaunchMarks, LaunchPersists,
        LaunchEnds, moneyVars
  <2> QED BY <2>1, <1>2 DEF Session
<1>5. ASSUME NEW s \in Session, Emit(s)
      PROVE  LedgerInv'
  <2>1. UNCHANGED <<poll, audit, debited>> /\ Session' = Session
    BY <1>5, EmitAdds DEF Emit, moneyVars, TypeInv
  <2> QED BY <2>1, <1>2
<1>6. ASSUME NEW p \in Poller, NEW r \in RowId, StartPoll(p, r)
      PROVE  LedgerInv'
  <2>1. /\ UNCHANGED <<audit, debited, emitted>>
        /\ \A q \in Poller : poll'[q] = poll[q] \/ poll'[q].at = "fetch"
    BY <1>6, StartPollReads DEF StartPoll, moneyVars
  <2>2. Session' = Session
    BY <2>1 DEF Session
  <2> QED BY <2>1, <2>2, <1>1, NoDebitKeepsLedger
<1>7. ASSUME NEW p \in Poller, PollFails(p) \/ SettleFails(p)
      PROVE  LedgerInv'
  <2>1. UNCHANGED <<audit, debited, emitted>> /\ PollGoes(p, "rest") /\ poll[p].at # "rest"
    BY <1>7 DEF PollFails, SettleFails, moneyVars, Open, Settling
  <2>2. \A q \in Poller : poll'[q] = poll[q] \/ poll'[q].at = "rest"
    BY <1>1, <2>1, PollMoves DEF TypeInv, Grown
  <2>3. Session' = Session
    BY <2>1 DEF Session
  <2> QED BY <2>1, <2>2, <2>3, <1>1, NoDebitKeepsLedger
<1>8. ASSUME NEW p \in Poller, PollStep(p)
      PROVE  LedgerInv'
  BY <1>1, <1>8, PollKeepsLedger, ApplyKeepsLedger DEF PollStep
<1>9. ASSUME NEW s \in Session, Reconcile(s)
      PROVE  LedgerInv'
  BY <1>1, <1>9, ReconcileKeepsLedger
<1>10. CASE ReconcileDebits
  BY <1>1, <1>10, ReconcileDebitsKeepsLedger
<1> QED BY <1>3, <1>4, <1>5, <1>6, <1>7, <1>8, <1>9, <1>10 DEF SessionsNext, Trouble, Stops

LEMMA LedgerSafe == SessionsSpec => []LedgerInv
<1>1. SessionsInit => LedgerInv
  <2> SUFFICES ASSUME SessionsInit PROVE LedgerInv
    OBVIOUS
  <2>1. \A p \in Poller : poll[p].at = "rest"
    BY DEF SessionsInit, RestingPoll
  <2>2. audit.at = "rest" /\ Session = {}
    BY DEF SessionsInit, RestingAudit, Session
  <2> QED BY <2>1, <2>2 DEF LedgerInv, CostKnown, OneDebit, NeverOvercharged, Settling
<1> QED BY <1>1, LedgerInductive, TypeInvSafe, PTL DEF SessionsSpec

(* The state is well formed, the status a poll computes from any stretch of any feed
   included, and no session is charged more than it cost so far, whoever debits it and
   in whatever order, until two debits of it were decided on before either was in the
   ledger. *)
THEOREM SessionsSoundSafe == SessionsSpec => []SessionsSound
<1>1. TypeInv /\ LedgerInv => SessionsSound
  BY TypeInvTypes DEF LedgerInv, SessionsSound
<1> QED BY <1>1, LedgerSafe, TypeInvSafe, PTL

-----------------------------------------------------------------------------
(* Part 4.  Requests and sessions.  Every confirmed request is one task in the broker,
   or one execution that has not started its session yet, or one session.  A redelivered
   task counts again, and gives that up as soon as it finds the marker. *)
LaunchesAt(steps) == {l \in Launcher : launch[l].at \in steps}
Coming == Cardinality(LaunchesAt({"recover", "start"}))
Starting == Cardinality(LaunchesAt({"start"}))

Counted ==
    Safe({"timeout"}) =>
        /\ Safe({"lapse"}) => \A l \in Launcher : launch[l].at \in {"persist", "card"} => marker # 0
        /\ Safe({"crash"}) \/ (Safe({"lapse"}) /\ marker = 0) =>
               waiting + Coming + Len(emitted) <= confirmed
        /\ Safe({"lapse"}) /\ marker # 0 => Starting + Len(emitted) <= confirmed

LEMMA LaunchesCounted ==
    /\ Coming \in Nat /\ Starting \in Nat
    /\ Starting <= Coming
<1>1. IsFiniteSet(Launcher)
  BY SessionsAssumption
<1>2. IsFiniteSet(LaunchesAt({"recover", "start"}))
  BY <1>1, FS_Subset DEF LaunchesAt
<1>3. LaunchesAt({"start"}) \subseteq LaunchesAt({"recover", "start"})
  BY DEF LaunchesAt
<1> QED BY <1>2, <1>3, FS_Subset, FS_CardinalityType DEF Coming, Starting

(* One execution moves: the count of those at some steps changes by itself only. *)
LEMMA OneLaunchCounts ==
    ASSUME NEW CONSTANT steps, NEW l \in Launcher,
           \A k \in Launcher \ {l} : launch'[k] = launch[k]
    PROVE  Cardinality(LaunchesAt(steps))' =
               Cardinality(LaunchesAt(steps))
                 + (IF launch'[l].at \in steps THEN 1 ELSE 0)
                 - (IF launch[l].at \in steps THEN 1 ELSE 0)
<1> DEFINE A == LaunchesAt(steps)
           B == {k \in Launcher : launch'[k].at \in steps}
<1>1. IsFiniteSet(Launcher)
  BY SessionsAssumption
<1>2. IsFiniteSet(A) /\ IsFiniteSet(B)
  BY <1>1, FS_Subset DEF LaunchesAt
<1>3. Cardinality(A) \in Nat
  BY <1>2, FS_CardinalityType
<1>4. Cardinality(LaunchesAt(steps))' = Cardinality(B)
  BY DEF LaunchesAt
<1>5. l \in A <=> launch[l].at \in steps
  BY DEF LaunchesAt
<1>6. l \in B <=> launch'[l].at \in steps
  OBVIOUS
<1>7. A \ {l} = B \ {l}
  BY DEF LaunchesAt
<1> HIDE DEF A, B
<1>8. Cardinality(B) = Cardinality(A) + (IF l \in B THEN 1 ELSE 0) - (IF l \in A THEN 1 ELSE 0)
  <2>1. CASE (l \in A) = (l \in B)
    <3>1. A = B
      BY <2>1, <1>7
    <3> QED BY <3>1, <1>3
  <2>2. CASE l \in A /\ l \notin B
    <3>1. B = A \ {l}
      BY <2>2, <1>7
    <3>2. Cardinality(B) = Cardinality(A) - 1
      BY <3>1, <1>2, <2>2, FS_RemoveElement
    <3> QED BY <3>2, <1>3, <2>2
  <2>3. CASE l \notin A /\ l \in B
    <3>1. B = A \cup {l}
      BY <2>3, <1>7
    <3>2. Cardinality(B) = Cardinality(A) + 1
      BY <3>1, <1>2, <2>3, FS_AddElement
    <3> QED BY <3>2, <1>3, <2>3
  <2> QED BY <2>1, <2>2, <2>3
<1> QED BY <1>4, <1>5, <1>6, <1>8 DEF A

LEMMA LaunchGone ==
    ASSUME LaunchTypes, NEW l \in Launcher, NEW step, NEW s, LaunchGoes(l, step, s)
    PROVE  /\ launch'[l].at = step /\ launch'[l].session = s
           /\ \A k \in Launcher \ {l} : launch'[k] = launch[k]
           /\ Coming' = Coming + (IF step \in {"recover", "start"} THEN 1 ELSE 0)
                               - (IF launch[l].at \in {"recover", "start"} THEN 1 ELSE 0)
           /\ Starting' = Starting + (IF step = "start" THEN 1 ELSE 0)
                                   - (IF launch[l].at = "start" THEN 1 ELSE 0)
<1>1. /\ launch'[l].at = step /\ launch'[l].session = s
      /\ \A k \in Launcher \ {l} : launch'[k] = launch[k]
  BY DEF LaunchTypes, LaunchGoes
<1>2. Coming' = Coming + (IF step \in {"recover", "start"} THEN 1 ELSE 0)
                       - (IF launch[l].at \in {"recover", "start"} THEN 1 ELSE 0)
  BY <1>1, OneLaunchCounts DEF Coming
<1>3. Starting' = Starting + (IF step \in {"start"} THEN 1 ELSE 0)
                           - (IF launch[l].at \in {"start"} THEN 1 ELSE 0)
  BY <1>1, OneLaunchCounts DEF Starting
<1> QED BY <1>1, <1>2, <1>3

(* What the counts are made of. *)
LEMMA CountTypes ==
    ASSUME TypeInv
    PROVE  /\ waiting \in Nat /\ confirmed \in Nat /\ Len(emitted) \in Nat
           /\ Coming \in Nat /\ Starting \in Nat /\ Starting <= Coming
<1>1. confirmed \in Nat
  BY SessionsAssumption DEF TypeInv, CounterTypes
<1> QED BY <1>1, LaunchesCounted, Ids DEF TypeInv, CounterTypes

(* Steps that no launch makes. *)
LEMMA OthersKeepCounts ==
    ASSUME Counted, happened \subseteq happened',
           UNCHANGED <<confirmed, waiting, launch>>, Len(emitted') = Len(emitted),
           marker' = marker \/ "lapse" \in happened'
    PROVE  Counted'
<1>1. Coming' = Coming /\ Starting' = Starting
  BY DEF Coming, Starting, LaunchesAt
<1> QED BY <1>1 DEF Counted, Safe

LEMMA ConfirmKeepsCounts ==
    ASSUME TypeInv, Counted, Confirm
    PROVE  Counted'
<1>1. /\ confirmed' = confirmed + 1 /\ waiting' = waiting + 1
      /\ UNCHANGED <<launch, marker, emitted, happened>>
  BY DEF Confirm, faultVars
<1>2. Coming' = Coming /\ Starting' = Starting
  BY <1>1 DEF Coming, Starting, LaunchesAt
<1> QED BY <1>1, <1>2, CountTypes DEF Counted, Safe

LEMMA LaunchKeepsCounts ==
    ASSUME TypeInv, Counted, NEW l \in Launcher, LaunchStep(l)
    PROVE  Counted'
<1>1. LaunchTypes /\ UNCHANGED <<confirmed, happened>>
  BY DEF LaunchStep, LaunchTakes, LaunchRecovers, LaunchStarts, LaunchMarks, LaunchPersists,
         LaunchEnds, TypeInv, requestVars, faultVars
<1>2. CASE LaunchTakes(l)
  <2> DEFINE step == IF deleted THEN "rest" ELSE "recover"
  <2>1. /\ LaunchGoes(l, step, 0) /\ launch[l].at = "rest"
        /\ waiting' = waiting - 1 /\ UNCHANGED <<marker, emitted>>
    BY <1>2 DEF LaunchTakes
  <2>2. step \in {"rest", "recover"}
    OBVIOUS
  <2> HIDE DEF step
  <2>3. /\ Coming' \in {Coming, Coming + 1} /\ Starting' = Starting
        /\ launch'[l].at = step /\ \A k \in Launcher \ {l} : launch'[k] = launch[k]
    BY <2>1, <2>2, <1>1, LaunchGone, LaunchesCounted
  <2> QED BY <1>1, <2>1, <2>2, <2>3, CountTypes DEF Counted, Safe
<1>3. CASE LaunchRecovers(l)
  <2> DEFINE step == IF marker # 0 THEN "persist" ELSE "start"
  <2>1. /\ LaunchGoes(l, step, marker) /\ launch[l].at = "recover"
        /\ UNCHANGED <<waiting, marker, emitted>>
    BY <1>3 DEF LaunchRecovers
  <2>2. IF marker # 0 THEN step = "persist" ELSE step = "start"
    OBVIOUS
  <2> HIDE DEF step
  <2>3. /\ IF marker # 0 THEN Coming' = Coming - 1 /\ Starting' = Starting
                         ELSE Coming' = Coming /\ Starting' = Starting + 1
        /\ launch'[l].at = step /\ \A k \in Launcher \ {l} : launch'[k] = launch[k]
    BY <2>1, <2>2, <1>1, LaunchGone, LaunchesCounted
  <2> QED BY <1>1, <2>1, <2>2, <2>3, CountTypes DEF Counted, Safe
<1>4. CASE LaunchStarts(l)
  <2>1. /\ LaunchGoes(l, "mark", Len(emitted) + 1) /\ launch[l].at = "start"
        /\ UNCHANGED <<waiting, marker>> /\ Len(emitted') = Len(emitted) + 1
    BY <1>4, StartSessionAdds DEF LaunchStarts, TypeInv
  <2>2. /\ Coming' = Coming - 1 /\ Starting' = Starting - 1
        /\ launch'[l].at = "mark" /\ \A k \in Launcher \ {l} : launch'[k] = launch[k]
    BY <2>1, <1>1, LaunchGone, LaunchesCounted
  <2> QED BY <1>1, <2>1, <2>2, CountTypes DEF Counted, Safe
<1>5. CASE LaunchMarks(l)
  <2>1. /\ LaunchGoes(l, "persist", launch[l].session) /\ launch[l].at = "mark"
        /\ UNCHANGED <<waiting, emitted>> /\ marker' = launch[l].session
    BY <1>5 DEF LaunchMarks
  <2>2. /\ Coming' = Coming /\ Starting' = Starting
        /\ launch'[l].at = "persist" /\ \A k \in Launcher \ {l} : launch'[k] = launch[k]
    BY <2>1, <1>1, LaunchGone, LaunchesCounted
  <2>3. marker' # 0
    BY <1>1, <2>1, Ids DEF LaunchTypes, TypeInv
  <2> QED BY <1>1, <2>1, <2>2, <2>3, CountTypes DEF Counted, Safe
<1>6. CASE LaunchPersists(l) \/ LaunchEnds(l)
  <2> DEFINE step == IF launch[l].at = "persist" THEN "card" ELSE "rest"
             s == IF launch[l].at = "persist" THEN launch[l].session ELSE 0
  <2>1. /\ LaunchGoes(l, step, s) /\ launch[l].at \in {"persist", "card"}
        /\ UNCHANGED <<waiting, marker, emitted>>
    BY <1>6 DEF LaunchPersists, LaunchEnds
  <2>2. step \in {"card", "rest"}
    OBVIOUS
  <2> HIDE DEF step, s
  <2>3. /\ Coming' = Coming /\ Starting' = Starting
        /\ launch'[l].at = step /\ \A k \in Launcher \ {l} : launch'[k] = launch[k]
    BY <2>1, <2>2, <1>1, LaunchGone, LaunchesCounted
  <2> QED BY <1>1, <2>1, <2>2, <2>3, CountTypes DEF Counted, Safe
<1> QED BY <1>2, <1>3, <1>4, <1>5, <1>6 DEF LaunchStep

(* An execution is over: its request counts as a waiting task or not at all. *)
LEMMA CountsFall ==
    ASSUME TypeInv, Counted, happened \subseteq happened', UNCHANGED <<confirmed, marker>>,
           \A k \in Launcher : launch'[k] = launch[k] \/ launch'[k].at = "rest",
           waiting' \in Nat, Coming' \in Nat, Starting' \in Nat, Len(emitted') \in Nat,
           \/ waiting' + Coming' + Len(emitted') <= waiting + Coming + Len(emitted)
           \/ ~Safe({"crash"})' /\ (marker # 0 \/ ~Safe({"lapse"}) \/ ~Safe({"timeout"})),
           Starting' + Len(emitted') <= Starting + Len(emitted)
    PROVE  Counted'
<1>1. /\ waiting \in Nat /\ confirmed \in Nat /\ Len(emitted) \in Nat
      /\ Coming \in Nat /\ Starting \in Nat /\ Starting <= Coming
  BY CountTypes
<1>2. /\ Safe({"timeout"})' => Safe({"timeout"})
      /\ Safe({"crash"})' => Safe({"crash"})
      /\ Safe({"lapse"})' => Safe({"lapse"})
  BY DEF Safe
<1> SUFFICES ASSUME Safe({"timeout"})' PROVE Counted'
  BY DEF Counted
<1>3. Safe({"lapse"})' => \A l \in Launcher : launch'[l].at \in {"persist", "card"} => marker' # 0
  <2> SUFFICES ASSUME Safe({"lapse"})', NEW l \in Launcher, launch'[l].at \in {"persist", "card"}
               PROVE  marker' # 0
    OBVIOUS
  <2>1. launch[l].at \in {"persist", "card"}
    OBVIOUS
  <2> QED BY <1>2, <2>1 DEF Counted
<1>4. Safe({"crash"})' \/ (Safe({"lapse"})' /\ marker' = 0) => waiting' + Coming' + Len(emitted') <= confirmed'
  <2> SUFFICES ASSUME Safe({"crash"})' \/ (Safe({"lapse"})' /\ marker' = 0)
               PROVE  waiting' + Coming' + Len(emitted') <= confirmed'
    OBVIOUS
  <2>1. waiting + Coming + Len(emitted) <= confirmed
    BY <1>2 DEF Counted
  <2>2. waiting' + Coming' + Len(emitted') <= waiting + Coming + Len(emitted)
    BY <1>2
  <2> QED BY <1>1, <2>1, <2>2
<1>5. Safe({"lapse"})' /\ marker' # 0 => Starting' + Len(emitted') <= confirmed'
  <2> SUFFICES ASSUME Safe({"lapse"})', marker' # 0
               PROVE  Starting' + Len(emitted') <= confirmed'
    OBVIOUS
  <2>1. Starting + Len(emitted) <= confirmed
    BY <1>2 DEF Counted
  <2> QED BY <1>1, <2>1
<1> QED BY <1>3, <1>4, <1>5 DEF Counted

LEMMA StopKeepsCounts ==
    ASSUME TypeInv, Counted, NEW l \in Launcher, Stops(l)
    PROVE  Counted'
<1>1. /\ LaunchTypes /\ UNCHANGED <<confirmed, marker>>
      /\ LaunchGoes(l, "rest", 0) /\ launch[l].at # "rest"
      /\ happened \subseteq happened'
  BY FaultKept, StoppedLaunch DEF TypeInv
<1>2. /\ launch'[l].at = "rest" /\ \A k \in Launcher \ {l} : launch'[k] = launch[k]
      /\ Coming' = IF launch[l].at \in {"recover", "start"} THEN Coming - 1 ELSE Coming
      /\ Starting' = IF launch[l].at = "start" THEN Starting - 1 ELSE Starting
  BY <1>1, LaunchGone, LaunchesCounted
<1>3. /\ waiting \in Nat /\ Len(emitted) \in Nat /\ Coming \in Nat /\ Starting \in Nat
      /\ waiting' \in Nat /\ Coming' \in Nat /\ Starting' \in Nat /\ Len(emitted') \in Nat
  <2>1. TypeInv'
    BY LaunchStopTypes
  <2>2. Coming' \in Nat /\ Starting' \in Nat
    <3>1. IsFiniteSet(Launcher)
      BY SessionsAssumption
    <3>2. /\ IsFiniteSet(LaunchesAt({"recover", "start"})')
          /\ IsFiniteSet(LaunchesAt({"start"})')
      BY <3>1, FS_Subset DEF LaunchesAt
    <3> QED BY <3>2, FS_CardinalityType DEF Coming, Starting
  <2>3. waiting' \in Nat
    BY <2>1 DEF TypeInv, CounterTypes
  <2>4. Len(emitted') \in Nat
    BY <2>1, LenProperties DEF TypeInv, FeedTypes
  <2> QED BY <2>2, <2>3, <2>4, CountTypes
<1>4. CASE LaunchTimesOut(l)
  <2>1. ~Safe({"timeout"})'
    BY <1>4 DEF LaunchTimesOut, Happens, Safe
  <2> QED BY <2>1 DEF Counted
<1>5. CASE LaunchRetries(l)
  <2>1. /\ waiting' = waiting + 1 /\ UNCHANGED emitted
        /\ launch[l].at \in {"recover", "start"}
    BY <1>5 DEF LaunchRetries, LaunchAgain
  <2>2. /\ waiting' + Coming' + Len(emitted') <= waiting + Coming + Len(emitted)
        /\ Starting' + Len(emitted') <= Starting + Len(emitted)
    BY <1>2, <1>3, <2>1
  <2> QED BY <1>1, <1>2, <1>3, <2>2, CountsFall
<1>6. CASE LaunchCrashes(l)
  <2>1. /\ waiting' = waiting + 1 /\ UNCHANGED emitted
        /\ launch[l].at \notin {"rest", "mark"} /\ "crash" \in happened'
    BY <1>6 DEF LaunchCrashes, LaunchAgain, Happens
  <2>2. launch[l].at \in {"recover", "start", "persist", "card"}
    BY <1>1, <2>1 DEF LaunchTypes, LaunchRecords
  <2>3. Starting' + Len(emitted') <= Starting + Len(emitted)
    BY <1>2, <1>3, <2>1
  <2>4. CASE launch[l].at \in {"recover", "start"}
    <3>1. waiting' + Coming' + Len(emitted') <= waiting + Coming + Len(emitted)
      BY <1>2, <1>3, <2>1, <2>4
    <3> QED BY <1>1, <1>2, <1>3, <2>3, <3>1, CountsFall
  <2>5. CASE launch[l].at \in {"persist", "card"}
    <3>1. ~Safe({"crash"})' /\ (marker # 0 \/ ~Safe({"lapse"}) \/ ~Safe({"timeout"}))
      BY <2>1, <2>5 DEF Counted, Safe
    <3> QED BY <1>1, <1>2, <1>3, <2>3, <3>1, CountsFall
  <2> QED BY <2>2, <2>4, <2>5
<1>7. CASE LaunchRefused(l) \/ PersistFails(l)
  <2>1. UNCHANGED <<waiting, emitted>>
    BY <1>7 DEF LaunchRefused, PersistFails
  <2>2. /\ waiting' + Coming' + Len(emitted') <= waiting + Coming + Len(emitted)
        /\ Starting' + Len(emitted') <= Starting + Len(emitted)
    BY <1>2, <1>3, <2>1
  <2> QED BY <1>1, <1>2, <1>3, <2>2, CountsFall
<1>8. CASE LaunchKilled(l)
  <2>1. UNCHANGED waiting
    BY <1>8 DEF LaunchKilled
  <2>2. \/ Len(emitted') = Len(emitted)
        \/ Len(emitted') = Len(emitted) + 1 /\ launch[l].at = "start"
    BY <1>8, StartSessionAdds DEF LaunchKilled, TypeInv
  <2>3. /\ waiting' + Coming' + Len(emitted') <= waiting + Coming + Len(emitted)
        /\ Starting' + Len(emitted') <= Starting + Len(emitted)
    BY <1>2, <1>3, <2>1, <2>2
  <2> QED BY <1>1, <1>2, <1>3, <2>3, CountsFall
<1> QED BY <1>4, <1>5, <1>6, <1>7, <1>8 DEF Stops

LEMMA CountedInductive ==
    ASSUME TypeInv, Counted, [SessionsNext]_sessionsVars
    PROVE  Counted'
<1>1. happened \subseteq happened'
  BY StepsGrow DEF Grown
<1>2. CASE Ask \/ DeleteProject \/ MarkerLapses \/ ReconcileDebits \/ UNCHANGED sessionsVars
  <2>1. /\ UNCHANGED <<confirmed, waiting, launch, emitted>>
        /\ marker' = marker \/ "lapse" \in happened'
    BY <1>2 DEF Ask, DeleteProject, MarkerLapses, ReconcileDebits, sessionsVars, requestVars,
                launchVars, Happens
  <2> QED BY <1>1, <2>1, OthersKeepCounts
<1>3. CASE Confirm
  BY <1>3, ConfirmKeepsCounts
<1>4. CASE \E l \in Launcher : LaunchStep(l)
  BY <1>4, LaunchKeepsCounts
<1>5. CASE \E l \in Launcher : Stops(l)
  BY <1>5, StopKeepsCounts
<1>6. ASSUME NEW s \in Session, Emit(s) \/ Reconcile(s)
      PROVE  Counted'
  <2>1. UNCHANGED <<confirmed, waiting, launch, marker>> /\ Len(emitted') = Len(emitted)
    <3>1. CASE Emit(s)
      <4>1. emitted' = [emitted EXCEPT ![s] = emitted[s] + 1] /\ s \in 1..Len(emitted)
        BY <3>1, Ids DEF Emit, TypeInv
      <4>2. emitted[s] + 1 \in 0..Len(Script)
        BY <3>1, EmitAdds, Ids, ScriptShape DEF TypeInv
      <4>3. Len(emitted') = Len(emitted)
        BY <4>1, <4>2, ExceptSeq DEF TypeInv, FeedTypes
      <4> QED BY <3>1, <4>3 DEF Emit, requestVars, launchVars
    <3>2. CASE Reconcile(s)
      BY <3>2 DEF Reconcile, requestVars, launchVars
    <3> QED BY <1>6, <3>1, <3>2
  <2> QED BY <1>1, <2>1, OthersKeepCounts
<1>7. CASE \E p \in Poller : (\E r \in RowId : StartPoll(p, r)) \/ PollStep(p) \/ PollFails(p)
                             \/ SettleFails(p)
  <2>1. UNCHANGED <<confirmed, waiting, launch, marker, emitted>>
    BY <1>7 DEF StartPoll, PollStep, Fetch, Commit, CheckDebit, ApplyDebit, PollFails,
                SettleFails, requestVars, launchVars
  <2> QED BY <1>1, <2>1, OthersKeepCounts
<1> QED BY <1>2, <1>3, <1>4, <1>5, <1>6, <1>7 DEF SessionsNext, Trouble, Stops

LEMMA CountedInit == SessionsInit => Counted
<1> SUFFICES ASSUME SessionsInit PROVE Counted
  OBVIOUS
<1>1. Len(emitted) = 0 /\ waiting = 0 /\ confirmed = 0 /\ marker = 0
  BY DEF SessionsInit
<1>2. LaunchesAt({"recover", "start"}) = {}
  BY DEF SessionsInit, RestingLaunch, LaunchesAt
<1>3. Coming = 0
  BY <1>2, FS_EmptySet DEF Coming
<1>4. \A l \in Launcher : launch[l].at = "rest"
  BY DEF SessionsInit, RestingLaunch
<1> QED BY <1>1, <1>3, <1>4 DEF Counted

LEMMA CountedSafe == SessionsSpec => []Counted
BY CountedInit, CountedInductive, TypeInvSafe, PTL DEF SessionsSpec

LEMMA CountedSuffices ==
    ASSUME TypeInv, Counted
    PROVE  OneSessionPerRequest
BY CountTypes DEF Counted, OneSessionPerRequest, Safe

(* However launch tasks are retried, redelivered and interleaved, a confirmed request
   starts at most one session at the dashboard, unless the answer of a start is lost or
   the marker expires under a crash. *)
THEOREM OneSessionPerRequestSafe == SessionsSpec => []OneSessionPerRequest
BY CountedSafe, CountedSuffices, TypeInvSafe, PTL

-----------------------------------------------------------------------------
(* Part 5.  Who watches a session: its row, the execution that will write one, or the
   marker, under which a waiting task will find it; a session whose launch was cut off is
   known to be lost.  A request is one task, waiting or under way, so that with a single
   request nobody else writes the marker. *)
Busy == Cardinality(LaunchesAt({"recover", "start", "mark", "persist", "card"}))
OneTaskEach == waiting + Busy <= confirmed

HasRow(s) == \E r \in RowId : rows[r].session = s
HasLaunch(s) == \E l \in Launcher : launch[l].session = s
HasMarker(s) == marker = s /\ (waiting > 0 \/ \E l \in Launcher : launch[l].at = "recover")
Held(s) == HasRow(s) \/ HasLaunch(s) \/ s \in lost

OneRequest == confirmed <= 1 /\ Safe({"kill", "lapse", "delete"})

CardsHaveRows == \A l \in Launcher : launch[l].at = "card" => HasRow(launch[l].session)
PersistMarked == \A l \in Launcher : launch[l].at = "persist" => marker = launch[l].session

Watched ==
    /\ CardsHaveRows
    /\ Safe({"crash"}) => \A s \in Session : Held(s)
    /\ OneRequest => /\ ~deleted /\ PersistMarked
                     /\ \A s \in Session : Held(s) \/ HasMarker(s)

LEMMA BusyType == Busy \in Nat
<1>1. IsFiniteSet(Launcher)
  BY SessionsAssumption
<1>2. IsFiniteSet(LaunchesAt({"recover", "start", "mark", "persist", "card"}))
  BY <1>1, FS_Subset DEF LaunchesAt
<1> QED BY <1>2, FS_CardinalityType DEF Busy

LEMMA BusyMoves ==
    ASSUME LaunchTypes, NEW l \in Launcher,
           NEW step \in {"rest", "recover", "start", "mark", "persist", "card"}, NEW s,
           LaunchGoes(l, step, s)
    PROVE  Busy' = Busy + (IF step = "rest" THEN 0 ELSE 1) - (IF launch[l].at = "rest" THEN 0 ELSE 1)
<1> DEFINE steps == {"recover", "start", "mark", "persist", "card"}
<1>1. /\ launch'[l].at = step
      /\ \A k \in Launcher \ {l} : launch'[k] = launch[k]
  BY LaunchGone
<1>2. Busy' = Busy + (IF launch'[l].at \in steps THEN 1 ELSE 0) - (IF launch[l].at \in steps THEN 1 ELSE 0)
  BY <1>1, OneLaunchCounts DEF Busy
<1>3. launch[l].at \in steps <=> launch[l].at # "rest"
  BY DEF LaunchTypes, LaunchRecords
<1>4. launch'[l].at \in steps <=> step # "rest"
  BY <1>1
<1> QED BY <1>2, <1>3, <1>4

LEMMA OneTaskStays ==
    ASSUME TypeInv, OneTaskEach, [SessionsNext]_sessionsVars
    PROVE  OneTaskEach'
<1>1. LaunchTypes /\ waiting \in Nat /\ confirmed \in Nat /\ Busy \in Nat
  BY CountTypes, BusyType DEF TypeInv
<1>2. CASE UNCHANGED launch /\ \/ UNCHANGED <<waiting, confirmed>>
                               \/ waiting' = waiting + 1 /\ confirmed' = confirmed + 1
  BY <1>1, <1>2 DEF OneTaskEach, Busy, LaunchesAt
<1>3. ASSUME NEW l \in Launcher, LaunchStep(l)
      PROVE  OneTaskEach'
  <2>1. UNCHANGED confirmed
    BY <1>3 DEF LaunchStep, LaunchTakes, LaunchRecovers, LaunchStarts, LaunchMarks, LaunchPersists,
                LaunchEnds, requestVars
  <2>2. CASE LaunchTakes(l)
    <3> DEFINE step == IF deleted THEN "rest" ELSE "recover"
    <3>1. /\ LaunchGoes(l, step, 0) /\ launch[l].at = "rest"
          /\ waiting' = waiting - 1 /\ step \in {"rest", "recover"}
      BY <2>2 DEF LaunchTakes
    <3> HIDE DEF step
    <3>2. Busy' = Busy \/ Busy' = Busy + 1
      BY <1>1, <3>1, BusyMoves
    <3> QED BY <1>1, <2>1, <3>1, <3>2 DEF OneTaskEach
  <2>3. CASE LaunchRecovers(l)
    <3> DEFINE step == IF marker # 0 THEN "persist" ELSE "start"
    <3>1. /\ LaunchGoes(l, step, marker) /\ launch[l].at = "recover"
          /\ UNCHANGED waiting /\ step \in {"persist", "start"}
      BY <2>3 DEF LaunchRecovers
    <3> HIDE DEF step
    <3>2. Busy' = Busy
      BY <1>1, <3>1, BusyMoves
    <3> QED BY <1>1, <2>1, <3>1, <3>2 DEF OneTaskEach
  <2>4. CASE LaunchStarts(l)
    <3>1. Busy' = Busy
      BY <1>1, <2>4, BusyMoves DEF LaunchStarts
    <3> QED BY <1>1, <2>1, <2>4, <3>1 DEF OneTaskEach, LaunchStarts
  <2>5. CASE LaunchMarks(l)
    <3>1. Busy' = Busy
      BY <1>1, <2>5, BusyMoves DEF LaunchMarks
    <3> QED BY <1>1, <2>1, <2>5, <3>1 DEF OneTaskEach, LaunchMarks
  <2>6. CASE LaunchPersists(l)
    <3>1. Busy' = Busy
      BY <1>1, <2>6, BusyMoves DEF LaunchPersists
    <3> QED BY <1>1, <2>1, <2>6, <3>1 DEF OneTaskEach, LaunchPersists
  <2>7. CASE LaunchEnds(l)
    <3>1. Busy' = Busy - 1
      BY <1>1, <2>7, BusyMoves DEF LaunchEnds
    <3> QED BY <1>1, <2>1, <2>7, <3>1 DEF OneTaskEach, LaunchEnds
  <2> QED BY <1>3, <2>2, <2>3, <2>4, <2>5, <2>6, <2>7 DEF LaunchStep
<1>4. ASSUME NEW l \in Launcher, Stops(l)
      PROVE  OneTaskEach'
  <2>1. LaunchGoes(l, "rest", 0) /\ launch[l].at # "rest"
    BY <1>4, StoppedLaunch
  <2>2. waiting' \in {waiting, waiting + 1} /\ UNCHANGED confirmed
    BY <1>4, StoppedLaunch
  <2>3. Busy' = Busy - 1
    <3>1. l \in Launcher /\ LaunchTypes /\ Busy \in Nat
      BY <1>1, <1>4
    <3>2. Busy' = Busy + (IF "rest" = "rest" THEN 0 ELSE 1) - (IF launch[l].at = "rest" THEN 0 ELSE 1)
      BY <2>1, <3>1, BusyMoves
    <3> QED BY <2>1, <3>1, <3>2
  <2>4. waiting + Busy <= confirmed
    BY DEF OneTaskEach
  <2>5. waiting' + Busy' <= confirmed'
    <3>1. waiting \in Nat /\ confirmed \in Nat /\ Busy \in Nat /\ confirmed' = confirmed
      BY <1>1, <2>2
    <3>2. CASE waiting' = waiting
      BY <2>3, <2>4, <3>1, <3>2
    <3>3. CASE waiting' = waiting + 1
      BY <2>3, <2>4, <3>1, <3>3
    <3> QED BY <2>2, <3>2, <3>3
  <2> QED BY <2>5 DEF OneTaskEach
<1>5. CASE Ask \/ Confirm \/ DeleteProject \/ MarkerLapses \/ ReconcileDebits
           \/ UNCHANGED sessionsVars
  BY <1>2, <1>5 DEF Ask, Confirm, DeleteProject, MarkerLapses, ReconcileDebits, sessionsVars,
                    requestVars, launchVars
<1>6. CASE \E s \in Session : Emit(s) \/ Reconcile(s)
  BY <1>2, <1>6 DEF Emit, Reconcile, requestVars, launchVars
<1>7. CASE \E p \in Poller : (\E r \in RowId : StartPoll(p, r)) \/ PollStep(p) \/ PollFails(p)
                             \/ SettleFails(p)
  BY <1>2, <1>7 DEF StartPoll, PollStep, Fetch, Commit, CheckDebit, ApplyDebit, PollFails,
                    SettleFails, requestVars, launchVars
<1> QED BY <1>3, <1>4, <1>5, <1>6, <1>7 DEF SessionsNext, Trouble, Stops

(* With one request, an execution under way is the only one, and no task waits. *)
LEMMA OnlyTask ==
    ASSUME TypeInv, OneTaskEach, confirmed <= 1, NEW l \in Launcher, launch[l].at # "rest"
    PROVE  waiting = 0 /\ \A k \in Launcher \ {l} : launch[k].at = "rest"
<1> DEFINE A == LaunchesAt({"recover", "start", "mark", "persist", "card"})
<1>1. \A k \in Launcher : launch[k].at # "rest" <=> k \in A
  BY DEF TypeInv, LaunchTypes, LaunchRecords, LaunchesAt
<1>2. IsFiniteSet(A)
  BY SessionsAssumption, FS_Subset DEF LaunchesAt
<1>3. Cardinality(A) = Busy
  BY DEF Busy
<1> HIDE DEF A
<1>4. Cardinality(A \ {l}) = Busy - 1 /\ IsFiniteSet(A \ {l})
  BY <1>1, <1>2, <1>3, FS_RemoveElement
<1>5. Busy - 1 \in Nat
  BY <1>4, FS_CardinalityType
<1>6. waiting = 0 /\ Busy - 1 = 0
  BY <1>5, BusyType, CountTypes DEF OneTaskEach
<1>7. A \ {l} = {}
  BY <1>4, <1>6, FS_EmptySet
<1> QED BY <1>1, <1>6, <1>7

LEMMA RowsRemain ==
    ASSUME Grown, NEW s, HasRow(s)
    PROVE  HasRow(s)'
BY DEF Grown, HasRow

LEMMA LostStays ==
    ASSUME [SessionsNext]_sessionsVars
    PROVE  lost \subseteq lost'
<1>1. CASE \E l \in Launcher : LaunchStep(l)
  BY <1>1 DEF LaunchStep, LaunchTakes, LaunchRecovers, LaunchStarts, LaunchMarks, LaunchPersists,
              LaunchEnds
<1>2. CASE \E l \in Launcher : Stops(l)
  BY <1>2, StoppedLaunch
<1>3. CASE Ask \/ Confirm \/ DeleteProject \/ MarkerLapses \/ ReconcileDebits
           \/ UNCHANGED sessionsVars
  BY <1>3 DEF Ask, Confirm, DeleteProject, MarkerLapses, ReconcileDebits, sessionsVars, launchVars
<1>4. CASE \E s \in Session : Emit(s) \/ Reconcile(s)
  BY <1>4 DEF Emit, Reconcile, launchVars
<1>5. CASE \E p \in Poller : (\E r \in RowId : StartPoll(p, r)) \/ PollStep(p) \/ PollFails(p)
                             \/ SettleFails(p)
  BY <1>5 DEF StartPoll, PollStep, Fetch, Commit, CheckDebit, ApplyDebit, PollFails, SettleFails,
              launchVars
<1> QED BY <1>1, <1>2, <1>3, <1>4, <1>5 DEF SessionsNext, Trouble, Stops

(* What a step has to keep: the holders of every session, but for those of a crashed
   execution, which a waiting task finds under the marker. *)
Kept(s) ==
    \/ Held(s)'
    \/ ~Safe({"crash"})' /\ (OneRequest' => HasMarker(s)')

LEMMA WatchKept ==
    ASSUME TypeInv, Watched, happened \subseteq happened', confirmed' \in Nat,
           confirmed' >= confirmed, CardsHaveRows',
           \A s \in Session' : (s \in Session /\ ~Held(s)) \/ Kept(s),
           OneRequest' => /\ ~deleted' /\ PersistMarked'
                          /\ \A s \in Session : HasMarker(s) => Held(s)' \/ HasMarker(s)'
    PROVE  Watched'
<1>1. confirmed \in Nat
  BY CountTypes
<1>2. /\ Safe({"crash"})' => Safe({"crash"})
      /\ OneRequest' => OneRequest
  BY <1>1 DEF OneRequest, Safe
<1>3. Safe({"crash"})' => \A s \in Session' : Held(s)'
  BY <1>2 DEF Watched, Kept
<1>4. OneRequest' => \A s \in Session' : Held(s)' \/ HasMarker(s)'
  BY <1>2 DEF Watched, Kept
<1> QED BY <1>3, <1>4 DEF Watched

(* Steps that no launch makes. *)
LEMMA OthersKeepWatch ==
    ASSUME TypeInv, Grown, Watched, lost \subseteq lost', Session' = Session,
           confirmed' >= confirmed, confirmed' \in Nat, waiting' >= waiting, waiting' \in Nat,
           UNCHANGED launch,
           marker' = marker \/ "lapse" \in happened',
           deleted' = deleted \/ "delete" \in happened'
    PROVE  Watched'
<1>1. happened \subseteq happened'
  BY DEF Grown
<1>2. \A s : HasRow(s) => HasRow(s)'
  BY RowsRemain
<1>3. waiting \in Nat /\ confirmed \in Nat
  BY CountTypes
<1>4. \A s : Held(s) => Held(s)'
  BY <1>2 DEF Held, HasLaunch
<1>5. CardsHaveRows'
  BY <1>2 DEF Watched, CardsHaveRows, HasRow
<1>6. ASSUME OneRequest'
      PROVE  /\ ~deleted' /\ PersistMarked'
             /\ \A s \in Session : HasMarker(s) => HasMarker(s)'
  <2>1. OneRequest /\ UNCHANGED <<marker, deleted>>
    BY <1>1, <1>3, <1>6 DEF OneRequest, Safe
  <2> QED BY <1>3, <2>1 DEF Watched, PersistMarked, HasMarker
<1> QED BY <1>1, <1>4, <1>5, <1>6, WatchKept DEF Kept

(* An execution goes on: what it watched is watched after it. *)
LEMMA LaunchKeepsWatch ==
    ASSUME TypeInv, Grown, OneTaskEach, Watched, NEW l \in Launcher, LaunchStep(l)
    PROVE  Watched'
<1>1. UNCHANGED <<confirmed, happened, deleted, lost>> /\ confirmed \in Nat /\ waiting \in Nat
  BY CountTypes DEF LaunchStep, LaunchTakes, LaunchRecovers, LaunchStarts, LaunchMarks,
         LaunchPersists, LaunchEnds, requestVars, faultVars
<1>2. OneRequest' = OneRequest
  BY <1>1 DEF OneRequest, Safe
<1>3. \A s : HasRow(s) => HasRow(s)'
  BY RowsRemain
<1>4. LaunchTypes /\ 0 \notin Session
  BY Ids DEF TypeInv
<1>5. ASSUME NEW step \in {"rest", "recover", "start", "mark", "persist", "card"}, NEW t,
             LaunchGoes(l, step, t),
             Session' = Session \/ (Session' = Session \cup {t} /\ launch[l].session = 0),
             step = "card" => HasRow(t)',
             launch[l].session \in Session =>
                 t = launch[l].session \/ HasRow(launch[l].session),
             OneRequest => /\ step = "persist" => marker' = t
                           /\ launch[l].at = "rest" => UNCHANGED marker
                           /\ \A s \in Session : HasMarker(s) => t = s \/ HasMarker(s)'
      PROVE  Watched'
  <2>1. /\ launch'[l].at = step /\ launch'[l].session = t
        /\ \A k \in Launcher \ {l} : launch'[k] = launch[k]
    BY <1>4, <1>5, LaunchGone
  <2>2. HasLaunch(t)'
    BY <2>1 DEF HasLaunch
  <2>3. ASSUME NEW s \in Session', Held(s) \/ s \notin Session
        PROVE  Held(s)'
    <3>1. CASE s \notin Session
      BY <1>5, <2>2, <2>3, <3>1 DEF Held
    <3>2. CASE s \in Session /\ HasLaunch(s)
      <4>1. HasLaunch(s)' \/ HasRow(s)
        BY <1>5, <2>1, <2>2, <3>2 DEF HasLaunch
      <4> QED BY <1>3, <4>1 DEF Held
    <3> QED BY <1>1, <1>3, <2>3, <3>1, <3>2 DEF Held
  <2>4. CardsHaveRows'
    BY <1>3, <1>5, <2>1 DEF Watched, CardsHaveRows, HasRow
  <2>5. ASSUME OneRequest'
        PROVE  /\ ~deleted' /\ PersistMarked'
               /\ \A s \in Session : HasMarker(s) => Held(s)' \/ HasMarker(s)'
    <3>1. OneRequest /\ ~deleted' /\ PersistMarked
      BY <1>1, <1>2, <2>5 DEF Watched
    <3>2. PersistMarked'
      <4>1. CASE launch[l].at = "rest"
        BY <1>5, <2>1, <3>1, <4>1 DEF PersistMarked
      <4>2. CASE launch[l].at # "rest"
        <5>1. \A k \in Launcher \ {l} : launch[k].at = "rest"
          BY <3>1, <4>2, OnlyTask DEF OneRequest
        <5> QED BY <1>5, <2>1, <3>1, <5>1 DEF PersistMarked
      <4> QED BY <4>1, <4>2
    <3>3. \A s \in Session : HasMarker(s) => Held(s)' \/ HasMarker(s)'
      BY <1>5, <2>2, <3>1 DEF Held
    <3> QED BY <3>1, <3>2, <3>3
  <2> QED BY <1>1, <2>3, <2>4, <2>5, WatchKept DEF Kept
<1>6. CASE LaunchTakes(l)
  <2> DEFINE step == IF deleted THEN "rest" ELSE "recover"
  <2>1. /\ LaunchGoes(l, step, 0) /\ launch[l].at = "rest" /\ UNCHANGED <<marker, emitted>>
        /\ step \in {"rest", "recover"}
    BY <1>6 DEF LaunchTakes
  <2>2. launch[l].session = 0 /\ Session' = Session
    BY <1>4, <2>1 DEF LaunchTypes, Session
  <2>3. OneRequest => step = "recover"
    BY DEF Watched
  <2> HIDE DEF step
  <2>4. ASSUME OneRequest, NEW s \in Session, HasMarker(s)
        PROVE  HasMarker(s)'
    <3>1. launch'[l].at = "recover"
      BY <1>4, <2>1, <2>3, <2>4, LaunchGone
    <3> QED BY <2>1, <2>4, <3>1 DEF HasMarker
  <2> QED BY <1>4, <1>5, <2>1, <2>2, <2>4
<1>7. CASE LaunchRecovers(l)
  <2> DEFINE step == IF marker # 0 THEN "persist" ELSE "start"
  <2>1. /\ LaunchGoes(l, step, marker) /\ launch[l].at = "recover" /\ UNCHANGED <<marker, emitted>>
        /\ step \in {"persist", "start"}
    BY <1>7 DEF LaunchRecovers
  <2> HIDE DEF step
  <2>2. launch[l].session = 0 /\ Session' = Session
    BY <1>4, <2>1 DEF LaunchTypes, Session
  <2>3. \A s \in Session : HasMarker(s) => marker = s
    BY DEF HasMarker
  <2> QED BY <1>4, <1>5, <2>1, <2>2, <2>3
<1>8. CASE LaunchStarts(l)
  <2> PICK t : t = Len(emitted) + 1
    OBVIOUS
  <2>1. /\ LaunchGoes(l, "mark", t) /\ launch[l].at = "start"
        /\ UNCHANGED <<waiting, marker>>
        /\ Session' = Session \cup {t}
    BY <1>8, StartSessionAdds DEF LaunchStarts, TypeInv
  <2>2. launch[l].session = 0
    BY <1>4, <2>1 DEF LaunchTypes
  <2>3. \A s \in Session : HasMarker(s) => HasMarker(s)'
    <3>1. \A k \in Launcher \ {l} : launch'[k] = launch[k]
      BY <1>4, <2>1, LaunchGone
    <3> QED BY <2>1, <3>1 DEF HasMarker
  <2> QED BY <1>4, <1>5, <2>1, <2>2, <2>3
<1>9. CASE LaunchMarks(l)
  <2> PICK t : t = launch[l].session
    OBVIOUS
  <2>1. /\ LaunchGoes(l, "persist", t) /\ launch[l].at = "mark"
        /\ UNCHANGED <<waiting, emitted>> /\ marker' = t
    BY <1>9 DEF LaunchMarks
  <2>2. Session' = Session
    BY <2>1 DEF Session
  <2>3. ASSUME OneRequest, NEW s \in Session
        PROVE  ~HasMarker(s)
    <3>1. waiting = 0 /\ \A k \in Launcher \ {l} : launch[k].at = "rest"
      BY <2>1, <2>3, OnlyTask DEF OneRequest
    <3> QED BY <2>1, <3>1 DEF HasMarker
  <2> QED BY <1>5, <2>1, <2>2, <2>3
<1>10. CASE LaunchPersists(l)
  <2> PICK t : t = launch[l].session
    OBVIOUS
  <2>1. /\ LaunchGoes(l, "card", t) /\ launch[l].at = "persist"
        /\ UNCHANGED <<waiting, marker, emitted>>
    BY <1>10 DEF LaunchPersists
  <2>2. HasRow(t)'
    <3> DEFINE new == [session |-> launch[l].session, status |-> "running", offset |-> 0,
                       stored |-> <<>>]
    <3>1. new.session = launch[l].session
      OBVIOUS
    <3>2. RowId' = RowId \cup {Len(rows) + 1} /\ rows'[Len(rows) + 1] = new
      BY <1>10, PersistAdds
    <3> HIDE DEF new
    <3>3. \E r \in RowId' : rows'[r].session = t
      BY <3>1, <3>2
    <3> QED BY <3>3 DEF HasRow
  <2>3. \A s \in Session : HasMarker(s) => HasMarker(s)'
    <3>1. /\ launch'[l].at = "card"
          /\ \A k \in Launcher \ {l} : launch'[k] = launch[k]
      BY <1>4, <2>1, LaunchGone
    <3> QED BY <2>1, <3>1 DEF HasMarker
  <2>4. Session' = Session
    BY <2>1 DEF Session
  <2> QED BY <1>5, <2>1, <2>2, <2>3, <2>4
<1>11. CASE LaunchEnds(l)
  <2>1. /\ LaunchGoes(l, "rest", 0) /\ launch[l].at = "card"
        /\ UNCHANGED <<waiting, marker, emitted>>
    BY <1>11 DEF LaunchEnds
  <2>2. HasRow(launch[l].session)
    BY <2>1 DEF Watched, CardsHaveRows
  <2>3. \A s \in Session : HasMarker(s) => HasMarker(s)'
    <3>1. \A k \in Launcher \ {l} : launch'[k] = launch[k]
      BY <1>4, <2>1, LaunchGone
    <3> QED BY <2>1, <3>1 DEF HasMarker
  <2>4. Session' = Session
    BY <2>1 DEF Session
  <2> QED BY <1>5, <2>1, <2>2, <2>3, <2>4
<1> QED BY <1>6, <1>7, <1>8, <1>9, <1>10, <1>11 DEF LaunchStep

(* An attempt is over: its session is lost, or has its row, or the task waits again and
   finds the marker. *)
LEMMA StopKeepsWatch ==
    ASSUME TypeInv, Grown, OneTaskEach, Watched, NEW l \in Launcher, Stops(l)
    PROVE  Watched'
<1>1. /\ LaunchGoes(l, "rest", 0) /\ launch[l].at # "rest"
      /\ UNCHANGED <<confirmed, marker, deleted>>
      /\ waiting' \in {waiting, waiting + 1}
      /\ launch[l].at = "recover" => waiting' = waiting + 1 \/ "kill" \in happened'
  BY StoppedLaunch
<1>2. /\ happened \subseteq happened' /\ confirmed \in Nat /\ waiting \in Nat
  BY CountTypes DEF Grown
<1>3. \A s : HasRow(s) => HasRow(s)'
  BY RowsRemain
<1>4. LaunchTypes /\ 0 \notin Session
  BY Ids DEF TypeInv
<1>5. /\ launch'[l].at = "rest"
      /\ \A k \in Launcher \ {l} : launch'[k] = launch[k]
  BY <1>1, <1>4, LaunchGone
<1>6. CardsHaveRows'
  BY <1>3, <1>5 DEF Watched, CardsHaveRows, HasRow
<1>7. lost \subseteq lost'
  BY StoppedLaunch
<1>8. OneRequest' => OneRequest
  BY <1>1, <1>2 DEF OneRequest, Safe
<1>9. ASSUME NEW s \in Session', s \notin Session
      PROVE  s \in lost'
  <2>1. StartSession /\ lost' = lost \cup {Len(emitted) + 1}
    BY <1>9, StoppedLaunch DEF Session
  <2>2. Session' = Session \cup {Len(emitted) + 1}
    BY <2>1, StartSessionAdds DEF TypeInv
  <2> QED BY <1>9, <2>1, <2>2
<1>10. ASSUME NEW s \in Session, Held(s)
       PROVE  Kept(s)
  <2>1. CASE HasRow(s) \/ s \in lost
    BY <1>3, <1>7, <2>1 DEF Kept, Held
  <2>2. ASSUME NEW k \in Launcher \ {l}, launch[k].session = s
        PROVE  Kept(s)
    BY <1>5, <2>2 DEF Kept, Held, HasLaunch
  <2>3. CASE launch[l].session = s
    <3>1. launch[l].at \in {"mark", "persist", "card"}
      BY <1>4, <2>3 DEF LaunchTypes
    <3>2. CASE launch[l].at = "card"
      BY <2>1, <2>3, <3>2 DEF Watched, CardsHaveRows
    <3>3. CASE s \in lost'
      BY <3>3 DEF Kept, Held
    <3>4. CASE launch[l].at # "card" /\ s \notin lost'
      <4>1. launch[l].at = "persist" /\ "crash" \in happened' /\ waiting' = waiting + 1
        BY <2>3, <3>1, <3>4, StoppedLaunch
      <4>2. ASSUME OneRequest'
            PROVE  HasMarker(s)'
        <5>1. marker' = s
          BY <1>1, <1>8, <2>3, <4>1, <4>2 DEF Watched, PersistMarked
        <5> QED BY <1>2, <4>1, <5>1 DEF HasMarker
      <4> QED BY <4>1, <4>2 DEF Kept, Safe
    <3> QED BY <3>2, <3>3, <3>4
  <2> QED BY <1>10, <2>1, <2>2, <2>3 DEF Held, HasLaunch
<1>11. ASSUME OneRequest'
       PROVE  /\ ~deleted' /\ PersistMarked'
              /\ \A s \in Session : HasMarker(s) => HasMarker(s)'
  <2>1. ~deleted' /\ PersistMarked'
    BY <1>1, <1>5, <1>8, <1>11 DEF Watched, PersistMarked
  <2>2. "kill" \notin happened'
    BY <1>11 DEF OneRequest, Safe
  <2>3. ASSUME NEW s \in Session, HasMarker(s)
        PROVE  HasMarker(s)'
    <3>1. CASE launch[l].at = "recover"
      BY <1>1, <1>2, <2>2, <2>3, <3>1 DEF HasMarker
    <3>2. CASE launch[l].at # "recover"
      BY <1>1, <1>2, <1>5, <2>3, <3>2 DEF HasMarker
    <3> QED BY <3>1, <3>2
  <2> QED BY <2>1, <2>3
<1>12. \A s \in Session' : (s \in Session /\ ~Held(s)) \/ Kept(s)
  BY <1>9, <1>10 DEF Kept, Held
<1> QED BY <1>1, <1>2, <1>6, <1>11, <1>12, WatchKept

LEMMA WatchedInductive ==
    ASSUME TypeInv, OneTaskEach, Watched, [SessionsNext]_sessionsVars
    PROVE  Watched'
<1>1. Grown /\ lost \subseteq lost' /\ confirmed \in Nat /\ waiting \in Nat
  BY StepsGrow, CountTypes, LostStays
<1>2. CASE Ask \/ Confirm \/ DeleteProject \/ MarkerLapses \/ ReconcileDebits
           \/ UNCHANGED sessionsVars
  <2>1. /\ UNCHANGED <<launch, emitted>>
        /\ confirmed' \in {confirmed, confirmed + 1} /\ waiting' \in {waiting, waiting + 1}
        /\ marker' = marker \/ "lapse" \in happened'
        /\ deleted' = deleted \/ "delete" \in happened'
    BY <1>2 DEF Ask, Confirm, DeleteProject, MarkerLapses, ReconcileDebits, sessionsVars,
                requestVars, launchVars, Happens
  <2>2. Session' = Session
    BY <2>1 DEF Session
  <2> QED BY <1>1, <2>1, <2>2, OthersKeepWatch
<1>3. CASE \E l \in Launcher : LaunchStep(l)
  BY <1>1, <1>3, LaunchKeepsWatch
<1>4. CASE \E l \in Launcher : Stops(l)
  BY <1>1, <1>4, StopKeepsWatch
<1>5. ASSUME NEW s \in Session, Emit(s) \/ Reconcile(s)
      PROVE  Watched'
  <2>1. UNCHANGED <<confirmed, waiting, launch, marker, deleted>>
    BY <1>5 DEF Emit, Reconcile, requestVars, launchVars
  <2>2. Session' = Session
    BY <1>5, EmitAdds DEF Reconcile, Session, TypeInv
  <2> QED BY <1>1, <2>1, <2>2, OthersKeepWatch
<1>6. CASE \E p \in Poller : (\E r \in RowId : StartPoll(p, r)) \/ PollStep(p) \/ PollFails(p)
                             \/ SettleFails(p)
  <2>1. UNCHANGED <<confirmed, waiting, launch, marker, deleted, emitted>>
    BY <1>6 DEF StartPoll, PollStep, Fetch, Commit, CheckDebit, ApplyDebit, PollFails,
                SettleFails, requestVars, launchVars
  <2>2. Session' = Session
    BY <2>1 DEF Session
  <2> QED BY <1>1, <2>1, <2>2, OthersKeepWatch
<1> QED BY <1>2, <1>3, <1>4, <1>5, <1>6 DEF SessionsNext, Trouble, Stops

LEMMA WatchedInit == SessionsInit => Watched /\ OneTaskEach
<1> SUFFICES ASSUME SessionsInit PROVE Watched /\ OneTaskEach
  OBVIOUS
<1>1. /\ Session = {} /\ ~deleted
      /\ \A l \in Launcher : launch[l].at = "rest"
  BY DEF SessionsInit, RestingLaunch, Session
<1>2. LaunchesAt({"recover", "start", "mark", "persist", "card"}) = {}
  BY <1>1 DEF LaunchesAt
<1>3. Busy = 0 /\ waiting = 0 /\ confirmed = 0
  BY <1>2, FS_EmptySet DEF Busy, SessionsInit
<1>4. OneTaskEach
  BY <1>3 DEF OneTaskEach
<1> QED BY <1>1, <1>4 DEF Watched, CardsHaveRows, PersistMarked

LEMMA WatchedSuffices ==
    ASSUME Watched
    PROVE  SessionsAreWatched
BY DEF Watched, SessionsAreWatched, OneRequest, Held, HasRow, HasLaunch, HasMarker

(* Every session the dashboard was made to start has a row, an execution that will
   write it, or a waiting task that will find it under the marker, unless it was lost
   with the execution that started it: for any number of requests without a crash, and
   for one request whatever crashes. *)
THEOREM SessionsAreWatchedSafe == SessionsSpec => []SessionsAreWatched
<1>1. TypeInv /\ OneTaskEach /\ Watched /\ [SessionsNext]_sessionsVars => OneTaskEach' /\ Watched'
  BY OneTaskStays, WatchedInductive
<1> QED BY <1>1, WatchedInit, WatchedSuffices, TypeInvSafe, PTL DEF SessionsSpec

-----------------------------------------------------------------------------
(* Part 6.  Rows and feeds.  Until two polls of a row are open at once, an open poll
   still knows its row as it is, so what it writes continues what is stored. *)
FirstEvents(n) == [i \in 1..n |-> i]

Follows(r) ==
    /\ rows[r].stored = FirstEvents(rows[r].offset)
    /\ rows[r].offset <= emitted[rows[r].session]
    /\ rows[r].status = StatusAfter(rows[r].offset)

Fresh(p) ==
    /\ \A q \in Poller : poll[q].at \in Open /\ poll[q].row = poll[p].row => q = p
    /\ poll[p].offset = rows[poll[p].row].offset
    /\ poll[p].status = rows[poll[p].row].status
    /\ poll[p].at = "commit" => poll[p].offset <= poll[p].upto

FollowInv ==
    Safe({"overlap"}) =>
        /\ \A r \in RowId : Follows(r)
        /\ \A p \in Poller : poll[p].at \in Open => Fresh(p)

LEMMA FirstEventsType ==
    ASSUME NEW n \in Nat
    PROVE  /\ FirstEvents(n) \in Seq(Nat) /\ Len(FirstEvents(n)) = n
           /\ \A i \in 1..n : FirstEvents(n)[i] = i
<1>1. FirstEvents(n) \in [1..n -> Nat]
  BY DEF FirstEvents
<1>2. FirstEvents(n) \in Seq(Nat)
  BY <1>1, SeqDef
<1>3. DOMAIN FirstEvents(n) = 1..n /\ DOMAIN FirstEvents(n) = 1..Len(FirstEvents(n))
      /\ Len(FirstEvents(n)) \in Nat
  BY <1>1, <1>2, LenProperties
<1> QED BY <1>2, <1>3 DEF FirstEvents

(* Writing the events after the cursor extends a prefix of the feed. *)
LEMMA EventsContinue ==
    ASSUME NEW a \in Nat, NEW b \in Nat, a <= b, NEW new \in Seq(Nat), Len(new) = b - a,
           \A i \in 1..Len(new) : new[i] = a + i
    PROVE  FirstEvents(a) \o new = FirstEvents(b)
<1>1. PICK old : /\ old = FirstEvents(a) /\ old \in Seq(Nat) /\ Len(old) = a
                 /\ \A i \in 1..a : old[i] = i
  BY FirstEventsType
<1>2. PICK all : /\ all = old \o new /\ all \in Seq(Nat) /\ Len(all) = Len(old) + Len(new)
                 /\ \A i \in 1..(Len(old) + Len(new)) :
                       all[i] = IF i <= Len(old) THEN old[i] ELSE new[i - Len(old)]
  <2> DEFINE all == old \o new
  <2>1. /\ all \in Seq(Nat) /\ Len(all) = Len(old) + Len(new)
        /\ \A i \in 1..(Len(old) + Len(new)) :
              all[i] = IF i <= Len(old) THEN old[i] ELSE new[i - Len(old)]
    BY <1>1, ConcatProperties
  <2> QED BY <2>1
<1>3. PICK want : /\ want = FirstEvents(b) /\ want \in Seq(Nat) /\ Len(want) = b
                  /\ \A i \in 1..b : want[i] = i
  BY FirstEventsType
<1>4. Len(all) = b
  BY <1>1, <1>2
<1>5. \A i \in 1..b : all[i] = want[i]
  <2> SUFFICES ASSUME NEW i \in 1..b PROVE all[i] = i
    BY <1>3
  <2>1. all[i] = IF i <= a THEN old[i] ELSE new[i - a]
    BY <1>1, <1>2, <1>4
  <2>2. CASE i <= a
    BY <1>1, <2>1, <2>2
  <2>3. CASE i > a
    <3>1. i - a \in 1..Len(new) /\ a + (i - a) = i
      BY <2>3
    <3> QED BY <2>1, <2>3, <3>1
  <2> QED BY <2>2, <2>3
<1>6. all = want
  BY <1>2, <1>3, <1>4, <1>5, SeqEqual
<1> QED BY <1>1, <1>2, <1>3, <1>6

(* Steps that write no row and open no poll. *)
LEMMA OthersKeepFollow ==
    ASSUME TypeInv, TypeInv', Grown, FollowInv, UNCHANGED rows,
           \A q \in Poller : poll'[q] = poll[q] \/ poll'[q].at \notin Open
    PROVE  FollowInv'
<1> SUFFICES ASSUME Safe({"overlap"})' PROVE FollowInv'
  BY DEF FollowInv
<1>1. Safe({"overlap"})
  BY DEF Safe, Grown
<1>2. RowId' = RowId /\ \A r \in RowId : rows[r] \in RowRecords(Session)
  BY RowIds DEF RowId, TypeInv
<1>3. ASSUME NEW r \in RowId
      PROVE  Follows(r)'
  <2>1. Follows(r) /\ rows[r].session \in Session /\ rows[r].offset \in Nat
    BY <1>1, <1>2, ScriptShape DEF FollowInv, RowRecords
  <2>2. rows[r].session \in Session'
    BY <2>1 DEF Grown
  <2>3. emitted[rows[r].session] \in Nat /\ emitted'[rows[r].session] \in Nat
    <3>1. emitted[rows[r].session] \in 0..Len(Script)
      BY <2>1, Ids DEF TypeInv
    <3>2. emitted'[rows[r].session] \in 0..Len(Script)
      BY <2>2, ElementOfSeq, LenProperties DEF TypeInv, FeedTypes, Session
    <3> QED BY <3>1, <3>2, ScriptShape
  <2> QED BY <2>1, <2>3 DEF Follows, Grown
<1>4. ASSUME NEW p \in Poller, poll'[p].at \in Open
      PROVE  Fresh(p)'
  <2>1. poll'[p] = poll[p] /\ Fresh(p)
    BY <1>1, <1>4 DEF FollowInv
  <2>2. \A q \in Poller : poll'[q].at \in Open => poll'[q] = poll[q]
    OBVIOUS
  <2> QED BY <2>1, <2>2 DEF Fresh
<1> QED BY <1>2, <1>3, <1>4 DEF FollowInv

LEMMA PersistKeepsFollow ==
    ASSUME TypeInv, FollowInv, NEW l \in Launcher, LaunchPersists(l)
    PROVE  FollowInv'
<1> SUFFICES ASSUME Safe({"overlap"})' PROVE FollowInv'
  BY DEF FollowInv
<1> DEFINE k == Len(rows) + 1
           new == [session |-> launch[l].session, status |-> "running", offset |-> 0,
                   stored |-> <<>>]
<1>1. Safe({"overlap"}) /\ UNCHANGED <<emitted, poll>>
  BY DEF LaunchPersists, Safe, faultVars
<1>2. /\ new.session = launch[l].session /\ new.status = "running"
      /\ new.offset = 0 /\ new.stored = <<>>
  OBVIOUS
<1>3. /\ RowId' = RowId \cup {k}
      /\ \A r \in RowId : rows'[r] = rows[r]
      /\ rows'[k] = new
  BY PersistAdds
<1> HIDE DEF new, k
<1>4. ASSUME NEW r \in RowId'
      PROVE  Follows(r)'
  <2>1. CASE r \in RowId
    <3>1. Follows(r)
      BY <1>1, <2>1 DEF FollowInv
    <3> QED BY <1>1, <1>3, <2>1, <3>1 DEF Follows
  <2>2. CASE r = k
    <3>1. FirstEvents(0) = <<>>
      <4>1. FirstEvents(0) \in Seq(Nat) /\ Len(FirstEvents(0)) = 0
        BY FirstEventsType
      <4> QED BY <4>1, EmptySeq
    <3>2. StatusAfter(0) = "running"
      BY ScriptShape DEF StatusAfter
    <3>3. launch[l].session \in Session
      BY DEF LaunchPersists, TypeInv, LaunchTypes
    <3>4. 0 <= emitted[launch[l].session]
      BY <3>3, Ids, ScriptShape DEF TypeInv
    <3> QED BY <1>1, <1>2, <1>3, <2>2, <3>1, <3>2, <3>4 DEF Follows
  <2> QED BY <1>3, <2>1, <2>2
<1>5. ASSUME NEW p \in Poller, poll'[p].at \in Open
      PROVE  Fresh(p)'
  <2>1. Fresh(p) /\ poll[p].at \in Open
    BY <1>1, <1>5 DEF FollowInv
  <2>2. poll[p].row \in RowId
    BY <2>1 DEF TypeInv, PollTypes, Open
  <2> QED BY <1>1, <1>3, <2>1, <2>2 DEF Fresh
<1> QED BY <1>4, <1>5 DEF FollowInv

LEMMA StartPollKeepsFollow ==
    ASSUME TypeInv, FollowInv, NEW p \in Poller, NEW r \in RowId, StartPoll(p, r)
    PROVE  FollowInv'
<1> SUFFICES ASSUME Safe({"overlap"})' PROVE FollowInv'
  BY DEF FollowInv
<1>1. UNCHANGED <<emitted, rows>>
  BY DEF StartPoll
<1>2. /\ poll'[p].at = "fetch" /\ poll'[p].row = r
      /\ poll'[p].status = rows[r].status /\ poll'[p].offset = rows[r].offset
      /\ \A q \in Poller \ {p} : poll'[q] = poll[q]
      /\ \A q \in Poller : ~(poll[q].row = r /\ poll[q].at \in Open)
      /\ Safe({"overlap"})
  BY StartPollReads DEF Safe
<1>3. \A t \in RowId' : Follows(t)'
  BY <1>1, <1>2 DEF FollowInv, Follows, RowId
<1>4. ASSUME NEW q \in Poller, poll'[q].at \in Open
      PROVE  Fresh(q)'
  <2>1. CASE q = p
    BY <1>1, <1>2, <2>1 DEF Fresh
  <2>2. CASE q # p
    <3>1. Fresh(q) /\ poll'[q] = poll[q] /\ poll[q].row # r
      BY <1>2, <1>4, <2>2 DEF FollowInv
    <3> QED BY <1>1, <1>2, <3>1 DEF Fresh
  <2> QED BY <2>1, <2>2
<1> QED BY <1>3, <1>4 DEF FollowInv

LEMMA FetchKeepsFollow ==
    ASSUME TypeInv, FollowInv, NEW p \in Poller, Fetch(p)
    PROVE  FollowInv'
<1> SUFFICES ASSUME Safe({"overlap"})' PROVE FollowInv'
  BY DEF FollowInv
<1>1. UNCHANGED <<emitted, rows>> /\ Safe({"overlap"}) /\ poll[p].at = "fetch"
  BY DEF Fetch, Safe, faultVars
<1>2. /\ poll'[p] = [poll[p] EXCEPT !.at = "commit",
                                    !.upto = emitted[rows[poll[p].row].session]]
      /\ poll[p].row \in RowId
      /\ \A q \in Poller \ {p} : poll'[q] = poll[q]
  BY FetchReads
<1>3. poll[p] \in PollRecords(RowId)
  BY DEF TypeInv, PollTypes
<1>4. /\ poll'[p].at = "commit" /\ poll'[p].row = poll[p].row
      /\ poll'[p].offset = poll[p].offset /\ poll'[p].status = poll[p].status
      /\ poll'[p].upto = emitted[rows[poll[p].row].session]
  BY <1>2, <1>3 DEF PollRecords
<1>5. \A q \in Poller \ {p} : poll'[q] = poll[q]
  BY <1>2
<1>6. \A r \in RowId' : Follows(r)'
  BY <1>1 DEF FollowInv, Follows, RowId
<1>7. /\ Fresh(p) /\ Follows(poll[p].row)
  BY <1>1, <1>2 DEF FollowInv, Open
<1>8. poll'[p].offset <= poll'[p].upto
  BY <1>4, <1>7 DEF Fresh, Follows
<1>9. \A q \in Poller : poll'[q].row = poll[q].row /\ (poll'[q].at \in Open => poll[q].at \in Open)
  BY <1>1, <1>4, <1>5 DEF Open
<1>10. ASSUME NEW q \in Poller, poll'[q].at \in Open
       PROVE  Fresh(q)'
  <2>1. Fresh(q)
    BY <1>1, <1>9, <1>10 DEF FollowInv
  <2>2. CASE q = p
    BY <1>1, <1>4, <1>8, <1>9, <2>1, <2>2 DEF Fresh
  <2>3. CASE q # p
    BY <1>1, <1>5, <1>9, <2>1, <2>3 DEF Fresh
  <2> QED BY <2>2, <2>3
<1> QED BY <1>6, <1>10 DEF FollowInv

(* What the transaction writes is the feed up to what was fetched. *)
LEMMA CommitKeepsFollow ==
    ASSUME TypeInv, CostKnown, FollowInv, NEW p \in Poller, Commit(p)
    PROVE  FollowInv'
<1> SUFFICES ASSUME Safe({"overlap"})' PROVE FollowInv'
  BY DEF FollowInv
<1> DEFINE k == poll[p].row
           a == poll[p].offset
           b == poll[p].upto
<1>1. UNCHANGED emitted /\ Safe({"overlap"}) /\ poll[p].at = "commit"
  BY DEF Commit, Safe, faultVars
<1>2. /\ k \in RowId /\ RowId' = RowId
      /\ \A r \in RowId \ {k} : rows'[r] = rows[r]
      /\ rows'[k].session = rows[k].session
      /\ rows'[k].status = IF NewStatus(p) = poll[p].status
                           THEN rows[k].status ELSE NewStatus(p)
      /\ rows'[k].offset = IF b = a THEN rows[k].offset ELSE b
      /\ rows'[k].stored = rows[k].stored \o NewEvents(p)
  BY CommitWrites
<1>3. Fresh(p) /\ Follows(k)
  BY <1>1, <1>2 DEF FollowInv, Open
<1>4. /\ a \in 0..Len(Script) /\ b \in 0..Len(Script)
      /\ a <= b /\ rows[k].offset = a /\ rows[k].status = poll[p].status
  BY <1>1, <1>3 DEF Fresh, TypeInv, PollTypes, PollRecords
<1>5. NewStatus(p) = StatusAfter(b)
  <2>1. poll[p].status = StatusAfter(a)
    BY <1>3, <1>4 DEF Follows
  <2>2. b \in a..Len(Script) /\ a \in Nat
    BY <1>4, ScriptShape
  <2>3. StatusAlong(StatusAfter(a), a)[b] = StatusAfter(b)
    BY <2>2, StatusAlongFeed
  <2> QED BY <2>1, <2>3 DEF NewStatus
<1>6. rows'[k].offset = b /\ rows'[k].status = StatusAfter(b)
  BY <1>2, <1>4, <1>5
<1>7. rows'[k].stored = FirstEvents(b)
  <2>1. /\ NewEvents(p) \in Seq(1..Len(Script))
        /\ Len(NewEvents(p)) = b - a
        /\ \A i \in 1..Len(NewEvents(p)) : NewEvents(p)[i] = a + i
    BY <1>4, NewEventsType
  <2>2. NewEvents(p) \in Seq(Nat) /\ a \in Nat /\ b \in Nat
    BY <1>4, <2>1, SeqMonotonic, ScriptShape
  <2>3. FirstEvents(a) \o NewEvents(p) = FirstEvents(b)
    BY <1>4, <2>1, <2>2, EventsContinue
  <2> QED BY <1>2, <1>3, <1>4, <2>3 DEF Follows
<1>8. b <= emitted[rows[k].session]
  BY <1>1 DEF CostKnown, SessionOf
<1> HIDE DEF k, b, a
<1>9. ASSUME NEW r \in RowId
      PROVE  Follows(r)'
  <2>1. CASE r = k
    BY <1>1, <1>2, <1>6, <1>7, <1>8, <2>1 DEF Follows
  <2>2. CASE r # k
    <3>1. Follows(r) /\ rows'[r] = rows[r]
      BY <1>1, <1>2, <2>2 DEF FollowInv
    <3> QED BY <1>1, <3>1 DEF Follows
  <2> QED BY <2>1, <2>2
<1>10. /\ poll'[p].at \notin Open
       /\ \A q \in Poller \ {p} : poll'[q] = poll[q]
  <2> DEFINE step == IF NewStatus(p) \in Terminal THEN "check" ELSE "rest"
  <2>1. step \in {"rest"} \cup Settling /\ step \notin Open
    BY DEF Settling, Open
  <2>2. PollGoes(p, step) /\ poll[p].at # "rest" /\ RowId \subseteq RowId' /\ PollTypes
    BY <1>1, <1>2 DEF Commit, TypeInv
  <2> HIDE DEF step
  <2> QED BY <2>1, <2>2, PollMoves
<1>11. ASSUME NEW q \in Poller, poll'[q].at \in Open
       PROVE  Fresh(q)'
  <2>1. q # p /\ poll'[q] = poll[q] /\ Fresh(q) /\ poll[q].row \in RowId
    BY <1>1, <1>10, <1>11 DEF FollowInv, TypeInv, PollTypes, Open
  <2>2. poll[q].row # k
    BY <1>1, <1>3, <1>10, <1>11, <2>1 DEF Fresh, Open, k
  <2> QED BY <1>2, <1>10, <2>1, <2>2 DEF Fresh
<1> QED BY <1>2, <1>9, <1>11 DEF FollowInv

LEMMA FollowInductive ==
    ASSUME TypeInv, CostKnown, FollowInv, [SessionsNext]_sessionsVars
    PROVE  FollowInv'
<1>1. TypeInv' /\ Grown
  BY TypeInvInductive, StepsGrow
<1>2. CASE Ask \/ Confirm \/ DeleteProject \/ MarkerLapses \/ ReconcileDebits
           \/ UNCHANGED sessionsVars
  <2>1. UNCHANGED <<rows, poll>>
    BY <1>2 DEF Ask, Confirm, DeleteProject, MarkerLapses, ReconcileDebits, sessionsVars
  <2> QED BY <1>1, <2>1, OthersKeepFollow
<1>3. ASSUME NEW l \in Launcher,
             LaunchStep(l) \/ Stops(l)
      PROVE  FollowInv'
  <2>1. LaunchPersists(l) \/ UNCHANGED <<rows, poll>>
    BY <1>3, StoppedLaunch
    DEF LaunchStep, LaunchTakes, LaunchRecovers, LaunchStarts, LaunchMarks, LaunchEnds
  <2> QED BY <1>1, <2>1, OthersKeepFollow, PersistKeepsFollow
<1>4. ASSUME NEW s \in Session, Emit(s) \/ Reconcile(s)
      PROVE  FollowInv'
  <2>1. UNCHANGED <<rows, poll>>
    BY <1>4 DEF Emit, Reconcile
  <2> QED BY <1>1, <2>1, OthersKeepFollow
<1>5. CASE \E p \in Poller, r \in RowId : StartPoll(p, r)
  BY <1>5, StartPollKeepsFollow
<1>6. CASE \E p \in Poller : Fetch(p) \/ Commit(p)
  BY <1>6, FetchKeepsFollow, CommitKeepsFollow
<1>7. ASSUME NEW p \in Poller,
             CheckDebit(p) \/ ApplyDebit(p) \/ PollFails(p) \/ SettleFails(p)
      PROVE  FollowInv'
  <2>1. /\ UNCHANGED rows /\ poll[p].at # "rest"
        /\ PollGoes(p, "rest") \/ PollGoes(p, "debit")
    BY <1>7 DEF CheckDebit, ApplyDebit, PollFails, SettleFails, Open, Settling
  <2>2. \A q \in Poller : poll'[q] = poll[q] \/ poll'[q].at \in {"rest", "debit"}
    BY <1>1, <2>1, PollMoves DEF TypeInv, Grown, Settling
  <2> QED BY <1>1, <2>1, <2>2, OthersKeepFollow DEF Open
<1> QED BY <1>2, <1>3, <1>4, <1>5, <1>6, <1>7 DEF SessionsNext, Trouble, Stops, PollStep

LEMMA FollowInit == SessionsInit => FollowInv
<1> SUFFICES ASSUME SessionsInit PROVE FollowInv
  OBVIOUS
<1>1. RowId = {}
  BY DEF SessionsInit, RowId
<1>2. \A p \in Poller : poll[p].at = "rest"
  BY DEF SessionsInit, RestingPoll
<1> QED BY <1>1, <1>2 DEF FollowInv, Open

(* A row's transcript is the feed up to its cursor, nothing missing and nothing twice,
   and its status what those events make it, for every feed: whatever fails, dies or is
   retried, as long as no two polls of one row are open at once. *)
THEOREM RowMatchesFeedSafe == SessionsSpec => []RowMatchesFeed
<1>1. FollowInv => RowMatchesFeed
  BY DEF FollowInv, RowMatchesFeed, Follows, FirstEvents
<1>2. LedgerInv => CostKnown
  BY DEF LedgerInv
<1> QED BY <1>1, <1>2, FollowInit, FollowInductive, LedgerSafe, TypeInvSafe, PTL
    DEF SessionsSpec
=============================================================================
