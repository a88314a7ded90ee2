----------------------- MODULE GenerationWorkerProofs -----------------------
(***************************************************************************)
(* What holds of the chat worker for every number of request threads,      *)
(* conversations, messages and unload requests.                            *)
(***************************************************************************)
EXTENDS GenerationWorker, FiniteSetTheorems, TLAPS

(* Where each thread can be, and what it adds or has taken there. *)
Shape ==
    /\ \A s \in Sender :
          /\ at[s] \in Adding \cup {"idle", "check"}
          /\ at[s] # "idle" => adds[s] \in Chat
    /\ at[Unloader] \in Adding \cup {"idle", "clearQueue", "defer", "look", "unload"}
    /\ at[Worker] \in Adding \cup {"idle", "item", "handle", "start", "run", "free", "unload"}
    /\ \A t \in {Unloader, Worker} : at[t] \in Adding => adds[t] = Unload
    /\ at[Worker] \in {"idle", "item"} => taken.msg = NoMsg
    /\ at[Worker] = "handle" => taken.msg \in Message
    /\ at[Worker] \in {"start", "run", "free"} => taken.msg \in Chat
    /\ at[Worker] \in Adding \cup {"unload"} => taken.msg \in Chat \cup {NoMsg}

Busy == {t \in Thread : at[t] \in Adding}
Checking == {u \in Sender : at[u] = "check"}
One(b) == IF b THEN 1 ELSE 0

(* Every index is used by a message that was accepted or by an unload that was
   requested; the messages on their way have theirs still to come. *)
Counted ==
    /\ sent + Cardinality(Checking) <= MaxChats
    /\ index + Cardinality(Busy) + One(unload) + One(at[Unloader] \in {"clearQueue", "defer"})
         <= sent + unloads

TypeInv == WorkerTypeOK /\ Shape /\ Counted

-----------------------------------------------------------------------------
LEMMA Kinds ==
    /\ NoMsg \notin Chat /\ Unload \notin Chat /\ NoMsg \notin Message
    /\ Unload \in Message /\ Chat \subseteq Message
    /\ \A m \in Chat : m[1] \in Conv /\ m \in Conv \X (1..MaxChats)
BY WorkerAssumption DEF Chat, Message

LEMMA Counts ==
    /\ IsFiniteSet(Thread)
    /\ IsFiniteSet(Busy) /\ Cardinality(Busy) \in Nat
    /\ IsFiniteSet(Checking) /\ Cardinality(Checking) \in Nat
<1>1. IsFiniteSet(Sender \cup {Unloader}) /\ IsFiniteSet((Sender \cup {Unloader}) \cup {Worker})
  BY WorkerAssumption, FS_AddElement
<1>2. Thread = (Sender \cup {Unloader}) \cup {Worker}
  BY DEF Thread
<1>3. Busy \in SUBSET Thread /\ Checking \in SUBSET Thread
  BY DEF Busy, Checking, Thread
<1> QED
  BY <1>1, <1>2, <1>3, FS_Subset, FS_CardinalityType

LEMMA Toggled ==
    ASSUME NEW S, IsFiniteSet(S), NEW x
    PROVE  /\ Cardinality(S) \in Nat
           /\ Cardinality(S \cup {x}) = Cardinality(S) + (IF x \in S THEN 0 ELSE 1)
           /\ Cardinality(S \ {x}) = Cardinality(S) - (IF x \in S THEN 1 ELSE 0)
<1>1. Cardinality(S) \in Nat
  BY FS_CardinalityType
<1>2. Cardinality(S \cup {x}) = Cardinality(S) + (IF x \in S THEN 0 ELSE 1)
  BY <1>1, FS_AddElement
<1>3. CASE x \in S
  <2>1. Cardinality(S \ {x}) = Cardinality(S) - 1
    BY <1>3, FS_RemoveElement
  <2> QED
    BY <1>1, <1>2, <1>3, <2>1
<1>4. CASE x \notin S
  <2>1. S \ {x} = S
    BY <1>4
  <2> QED
    BY <1>1, <1>2, <1>4, <2>1
<1> QED
  BY <1>3, <1>4

(* What a thread's move does to the two counts. *)
LEMMA MoveCounts ==
    ASSUME WorkerTypeOK, NEW t \in Thread, NEW l, at' = [at EXCEPT ![t] = l]
    PROVE  /\ (l \in Adding <=> at[t] \in Adding) => Cardinality(Busy') = Cardinality(Busy)
           /\ l \in Adding /\ at[t] \notin Adding => Cardinality(Busy') = Cardinality(Busy) + 1
           /\ l \notin Adding /\ at[t] \in Adding => Cardinality(Busy') = Cardinality(Busy) - 1
           /\ t \notin Sender \/ (l # "check" /\ at[t] # "check")
                 => Cardinality(Checking') = Cardinality(Checking)
           /\ t \in Sender /\ l = "check" /\ at[t] # "check"
                 => Cardinality(Checking') = Cardinality(Checking) + 1
           /\ t \in Sender /\ l # "check" /\ at[t] = "check"
                 => Cardinality(Checking') = Cardinality(Checking) - 1
<1>0. at'[t] = l /\ \A u \in Thread : u # t => at'[u] = at[u]
  BY DEF WorkerTypeOK
<1>1. /\ t \in Busy <=> at[t] \in Adding
      /\ Cardinality(Busy \cup {t}) = Cardinality(Busy) + (IF t \in Busy THEN 0 ELSE 1)
      /\ Cardinality(Busy \ {t}) = Cardinality(Busy) - (IF t \in Busy THEN 1 ELSE 0)
      /\ Cardinality(Busy) \in Nat
  BY Counts, Toggled DEF Busy
<1>2. /\ t \in Checking <=> t \in Sender /\ at[t] = "check"
      /\ Cardinality(Checking \cup {t}) = Cardinality(Checking) + (IF t \in Checking THEN 0 ELSE 1)
      /\ Cardinality(Checking \ {t}) = Cardinality(Checking) - (IF t \in Checking THEN 1 ELSE 0)
      /\ Cardinality(Checking) \in Nat
  BY Counts, Toggled DEF Checking
<1>3. Busy' = IF l \in Adding THEN Busy \cup {t} ELSE Busy \ {t}
  BY <1>0 DEF Busy
<1>4. Checking' = IF t \in Sender /\ l = "check" THEN Checking \cup {t} ELSE Checking \ {t}
  BY <1>0 DEF Checking, Thread
<1>5. CASE l \in Adding
  BY <1>1, <1>2, <1>3, <1>4, <1>5
<1>6. CASE l \notin Adding
  BY <1>1, <1>2, <1>3, <1>4, <1>6
<1> QED
  BY <1>5, <1>6

LEMMA TypeInit == Init => TypeInv
<1> SUFFICES ASSUME Init PROVE TypeInv
  OBVIOUS
<1>0. fifo \in Seq(Index) /\ 0 \in Index
  BY WorkerAssumption DEF Init, Index
<1>1. WorkerTypeOK /\ Shape
  <2>1. WorkerTypeOK
    BY <1>0, WorkerAssumption DEF Init, WorkerTypeOK, Nothing
  <2>2. Shape
    BY WorkerAssumption DEF Init, Shape, Nothing, Thread, Adding
  <2> QED
    BY <2>1, <2>2
<1>2. Busy = {} /\ Checking = {}
  BY DEF Init, Busy, Checking, Adding, Thread
<1>3. at[Unloader] = "idle"
  BY DEF Init, Thread
<1>4. Cardinality(Busy) = 0 /\ Cardinality(Checking) = 0
  BY <1>2, FS_EmptySet
<1> QED
  BY <1>1, <1>2, <1>3, <1>4, WorkerAssumption DEF TypeInv, Counted, Init, One

(* A thread that adds has an index to come, a request that waits for the lock a
   number. *)
LEMMA Room ==
    ASSUME TypeInv, NEW t \in Thread
    PROVE  /\ at[t] \in Adding => index + 1 \in Index
           /\ t \in Sender /\ at[t] = "check" => sent + 1 \in 1..MaxChats
<1>0. WorkerTypeOK /\ Counted /\ MaxChats \in Nat /\ MaxUnloads \in Nat
  BY WorkerAssumption DEF TypeInv
<1>1. /\ sent \in 0..MaxChats /\ unloads \in 0..MaxUnloads /\ index \in 0..MaxChats + MaxUnloads
      /\ \A b \in BOOLEAN : One(b) \in {0, 1}
  BY <1>0 DEF WorkerTypeOK, Index, One
<1>2. ASSUME at[t] \in Adding PROVE index + 1 \in Index
  <2>1. t \in Busy /\ Cardinality(Busy) # 0
    BY <1>2, Counts, FS_EmptySet DEF Busy
  <2>2. One(unload) \in {0, 1} /\ One(at[Unloader] \in {"clearQueue", "defer"}) \in {0, 1}
    BY DEF One
  <2> QED
    BY <1>0, <1>1, <2>1, <2>2, Counts DEF Counted, Index
<1>3. ASSUME t \in Sender, at[t] = "check" PROVE sent + 1 \in 1..MaxChats
  <2>1. t \in Checking /\ Cardinality(Checking) # 0
    BY <1>3, Counts, FS_EmptySet DEF Checking
  <2> QED
    BY <1>0, <1>1, <2>1, Counts DEF Counted
<1> QED
  BY <1>2, <1>3

LEMMA TypesStep == TypeInv /\ [Next]_workerVars => WorkerTypeOK'
<1> SUFFICES ASSUME TypeInv, [Next]_workerVars PROVE WorkerTypeOK'
  OBVIOUS
<1>0. WorkerTypeOK /\ Shape /\ Nothing \in [index : Index, owner : Message \cup {NoMsg}, msg : Message \cup {NoMsg}]
  BY WorkerAssumption DEF TypeInv, Nothing, Index
<1>a. Worker \in Thread /\ Unloader \in Thread /\ Sender \subseteq Thread
  BY DEF Thread
<1>1. ASSUME NEW t \in Thread, Store(t) PROVE WorkerTypeOK'
  BY <1>0, <1>1 DEF Store, GoTo, Trouble, Troubles, flagVars, WorkerTypeOK, Adding
<1>2. ASSUME NEW t \in Thread, Tag(t) PROVE WorkerTypeOK'
  BY <1>0, <1>2 DEF Tag, GoTo, flagVars, countVars, WorkerTypeOK, Adding
<1>3. ASSUME NEW t \in Thread, Put(t) PROVE WorkerTypeOK'
  BY <1>0, <1>3 DEF Put, GoTo, flagVars, countVars, WorkerTypeOK, Adding
<1>4. ASSUME NEW t \in Thread, Bump(t) PROVE WorkerTypeOK'
  <2>1. index + 1 \in Index
    BY <1>4, Room DEF Bump, Adding
  <2> QED
    BY <1>0, <1>4, <2>1 DEF Bump, After, GoTo, flagVars, countVars, WorkerTypeOK
<1>5. ASSUME NEW t \in Thread, QueueUnload(t) PROVE WorkerTypeOK'
  <2>1. CASE unload
    <3>1. adds' = [adds EXCEPT ![t] = Unload] /\ at' = [at EXCEPT ![t] = "store"]
      BY <1>5, <2>1 DEF QueueUnload, GoTo
    <3>2. /\ adds' \in [Thread -> Message \cup {NoMsg}]
          /\ at' \in [Thread -> Adding \cup {"idle", "check", "clearQueue", "defer", "look",
                                             "unload", "item", "handle", "start", "run", "free"}]
      BY <1>0, <3>1, Kinds DEF WorkerTypeOK, Adding
    <3> QED
      BY <1>0, <1>5, <3>2 DEF QueueUnload, queueVars, countVars, WorkerTypeOK
  <2>2. CASE ~unload
    BY <1>0, <1>5, <2>2 DEF QueueUnload, After, GoTo, queueVars, countVars, WorkerTypeOK
  <2> QED
    BY <2>1, <2>2
<1>6. ASSUME NEW s \in Sender, NEW c \in Conv, Request(s, c) PROVE WorkerTypeOK'
  <2>1. MaxChats \in 1..MaxChats
    <3>1. sent + Cardinality(Checking) < MaxChats /\ sent \in Nat
      BY <1>0, <1>6 DEF Request, Checking, WorkerTypeOK
    <3> QED
      BY <3>1, Counts, WorkerAssumption
  <2>2. <<c, MaxChats>> \in Message
    BY <2>1 DEF Message, Chat
  <2> QED
    BY <1>0, <1>a, <1>6, <2>2 DEF Request, GoTo, queueVars, countVars, WorkerTypeOK
<1>7. ASSUME NEW s \in Sender, Accept(s) PROVE WorkerTypeOK'
  <2>1. sent' = sent + 1 /\ sent' \in 1..MaxChats /\ adds[s][1] \in Conv
    BY <1>0, <1>a, <1>7, Room, Kinds DEF Accept, Shape
  <2>2. <<adds[s][1], sent'>> \in Message /\ sent' \in 0..MaxChats
    BY <2>1 DEF Message, Chat
  <2> QED
    BY <1>0, <1>a, <1>7, <2>1, <2>2 DEF Accept, GoTo, queueVars, flagVars, WorkerTypeOK, Adding
<1>8. ASSUME NEW s \in Sender, StillWorking(s) PROVE WorkerTypeOK'
  BY <1>0, <1>a, <1>8 DEF StillWorking, GoTo, queueVars, flagVars, countVars, WorkerTypeOK
<1>9. ASSUME Interrupt PROVE WorkerTypeOK'
  <2>1. unloads' \in 0..MaxUnloads
    BY <1>0, <1>9, WorkerAssumption DEF Interrupt, WorkerTypeOK
  <2> QED
    BY <1>0, <1>a, <1>9, <2>1 DEF Interrupt, GoTo, queueVars, WorkerTypeOK
<1>10. ASSUME ClearQueue \/ Defer \/ Look PROVE WorkerTypeOK'
  <2>1. CASE ClearQueue
    BY <1>0, <1>a, <2>1 DEF ClearQueue, GoTo, Trouble, Troubles, flagVars, WorkerTypeOK
  <2>2. CASE Defer
    BY <1>0, <1>a, <2>2 DEF Defer, GoTo, queueVars, WorkerTypeOK
  <2>3. CASE Look
    BY <1>0, <1>a, <2>3 DEF Look, GoTo, queueVars, flagVars, countVars, WorkerTypeOK
  <2> QED
    BY <1>10, <2>1, <2>2, <2>3
<1>11. ASSUME Take PROVE WorkerTypeOK'
  <2>1. Head(fifo) \in Index /\ Tail(fifo) \in Seq(Index)
    BY <1>0, <1>11 DEF Take, WorkerTypeOK
  <2> QED
    BY <1>0, <1>a, <1>11, <2>1 DEF Take, Nothing, GoTo, flagVars, countVars, WorkerTypeOK
<1>12. ASSUME TakeItem PROVE WorkerTypeOK'
  <2>1. taken.index \in Index
    BY <1>0 DEF WorkerTypeOK
  <2> QED
    BY <1>0, <1>a, <1>12, <2>1 DEF TakeItem, GoTo, flagVars, countVars, WorkerTypeOK
<1>13. ASSUME HandleUnload \/ Skip \/ Proceed \/ Start PROVE WorkerTypeOK'
  BY <1>0, <1>a, <1>13 DEF HandleUnload, Skip, Proceed, Start, Frees, GoTo, queueVars, flagVars,
     countVars, WorkerTypeOK
<1>14. ASSUME Finish \/ Fail \/ Free PROVE WorkerTypeOK'
  <2>1. CASE Finish
    BY <1>0, <1>a, <2>1 DEF Finish, Frees, GoTo, queueVars, countVars, WorkerTypeOK
  <2>2. CASE Fail
    BY <1>0, <1>a, <2>2 DEF Fail, GoTo, queueVars, countVars, WorkerTypeOK
  <2>3. CASE Free
    BY <1>0, <1>a, <2>3 DEF Free, Frees, GoTo, queueVars, flagVars, countVars, WorkerTypeOK
  <2> QED
    BY <1>14, <2>1, <2>2, <2>3
<1>15. ASSUME EmptyResult \/ Escape PROVE WorkerTypeOK'
  <2>1. seen' \in SUBSET Troubles
    BY <1>0, <1>15, WorkerAssumption DEF EmptyResult, Escape, Happens, Troubles, WorkerTypeOK
  <2>2. CASE EmptyResult
    BY <1>0, <1>a, <2>1, <2>2 DEF EmptyResult, Frees, GoTo, queueVars, flagVars, WorkerTypeOK
  <2>3. CASE Escape
    BY <1>0, <1>a, <2>1, <2>3 DEF Escape, GoTo, queueVars, flagVars, WorkerTypeOK
  <2> QED
    BY <1>15, <2>2, <2>3
<1>16. ASSUME UNCHANGED workerVars PROVE WorkerTypeOK'
  BY <1>0, <1>16 DEF workerVars, queueVars, flagVars, countVars, WorkerTypeOK
<1> QED
  BY <1>a, <1>1, <1>2, <1>3, <1>4, <1>5, <1>6, <1>7, <1>8, <1>9, <1>10, <1>11, <1>12, <1>13,
     <1>14, <1>15, <1>16
  DEF Next, SenderStep, UnloaderStep, WorkerStep, Add

-----------------------------------------------------------------------------
(* A step of one thread that only it and its message take. *)
LEMMA SenderShape ==
    ASSUME WorkerTypeOK, Shape, NEW s \in Sender, NEW l \in Adding \cup {"idle", "check"},
           at' = [at EXCEPT ![s] = l], taken' = taken,
           l # "idle" => adds'[s] \in Chat,
           \A t \in Thread : t # s => adds'[t] = adds[t]
    PROVE  Shape'
BY WorkerAssumption DEF Shape, WorkerTypeOK, Thread

LEMMA UnloaderShape ==
    ASSUME WorkerTypeOK, Shape, taken' = taken,
           NEW l \in Adding \cup {"idle", "clearQueue", "defer", "look", "unload"},
           at' = [at EXCEPT ![Unloader] = l],
           l \in Adding => adds'[Unloader] = Unload,
           \A t \in Thread : t # Unloader => adds'[t] = adds[t]
    PROVE  Shape'
BY WorkerAssumption DEF Shape, WorkerTypeOK, Thread

LEMMA WorkerShape ==
    ASSUME WorkerTypeOK, Shape,
           NEW l \in Adding \cup {"idle", "item", "handle", "start", "run", "free", "unload"},
           at' = [at EXCEPT ![Worker] = l],
           l \in Adding => adds'[Worker] = Unload,
           \A t \in Thread : t # Worker => adds'[t] = adds[t],
           l \in {"idle", "item"} => taken'.msg = NoMsg,
           l = "handle" => taken'.msg \in Message,
           l \in {"start", "run", "free"} => taken'.msg \in Chat,
           l \in Adding \cup {"unload"} => taken'.msg \in Chat \cup {NoMsg}
    PROVE  Shape'
BY WorkerAssumption DEF Shape, WorkerTypeOK, Thread

(* What After answers. *)
LEMMA AfterAdding ==
    ASSUME TypeInv, NEW t \in Thread, at[t] \in Adding \cup {"unload"}
    PROVE  /\ After(t) \in {"idle", "free"}
           /\ t # Worker => After(t) = "idle"
           /\ After(t) = "idle" /\ t = Worker => taken.msg = NoMsg
           /\ After(t) = "free" => taken.msg \in Chat
BY DEF TypeInv, Shape, After

LEMMA ShapeStep == TypeInv /\ [Next]_workerVars => Shape'
<1> SUFFICES ASSUME TypeInv, [Next]_workerVars PROVE Shape'
  OBVIOUS
<1>0. WorkerTypeOK /\ Shape
  BY DEF TypeInv
<1>a. /\ Worker \in Thread /\ Unloader \in Thread /\ Sender \subseteq Thread
      /\ \A t \in Thread : t \in Sender \/ t = Unloader \/ t = Worker
  BY DEF Thread
<1>1. ASSUME NEW t \in Thread, NEW l \in Adding, at[t] \in Adding,
             at' = [at EXCEPT ![t] = l], UNCHANGED <<adds, taken>>
      PROVE  Shape'
  <2>1. CASE t \in Sender
    BY <1>0, <1>1, <2>1, SenderShape DEF Shape, Adding
  <2>2. CASE t = Unloader
    BY <1>0, <1>1, <2>2, UnloaderShape DEF Shape
  <2>3. CASE t = Worker
    BY <1>0, <1>1, <2>3, WorkerShape DEF Shape, Adding
  <2> QED
    BY <1>a, <2>1, <2>2, <2>3
<1>2. ASSUME NEW t \in Thread, Store(t) \/ Tag(t) \/ Put(t) PROVE Shape'
  BY <1>1, <1>2 DEF Store, Tag, Put, GoTo, Adding
<1>3. ASSUME NEW t \in Thread, at[t] \in Adding \cup {"unload"}, GoTo(t, After(t)),
             \A u \in Thread : u # t => adds'[u] = adds[u], taken' = taken
      PROVE  Shape'
  <2>1. CASE t \in Sender
    BY <1>0, <1>3, <1>a, <2>1, WorkerAssumption, AfterAdding, SenderShape DEF GoTo
  <2>2. CASE t = Unloader
    BY <1>0, <1>3, <2>2, WorkerAssumption, AfterAdding, UnloaderShape DEF GoTo, Adding
  <2>3. CASE t = Worker
    BY <1>0, <1>3, <2>3, AfterAdding, WorkerShape DEF GoTo, Adding
  <2> QED
    BY <1>a, <2>1, <2>2, <2>3
<1>4. ASSUME NEW t \in Thread, Bump(t) PROVE Shape'
  BY <1>0, <1>3, <1>4 DEF Bump, WorkerTypeOK, Adding
<1>5. ASSUME NEW t \in Thread, QueueUnload(t) PROVE Shape'
  <2>1. CASE unload
    <3>1. /\ adds' = [adds EXCEPT ![t] = Unload] /\ at' = [at EXCEPT ![t] = "store"]
          /\ at[t] = "unload" /\ taken' = taken
      BY <1>5, <2>1 DEF QueueUnload, GoTo
    <3>2. adds'[t] = Unload /\ \A u \in Thread : u # t => adds'[u] = adds[u]
      BY <1>0, <3>1 DEF WorkerTypeOK
    <3>3. t \notin Sender
      BY <1>0, <3>1 DEF Shape, Adding
    <3>4. CASE t = Unloader
      BY <1>0, <3>1, <3>2, <3>4, UnloaderShape DEF Adding
    <3>5. CASE t = Worker
      BY <1>0, <3>1, <3>2, <3>5, WorkerShape DEF Adding, Shape
    <3> QED
      BY <1>a, <3>3, <3>4, <3>5
  <2>2. CASE ~unload
    BY <1>3, <1>5, <2>2 DEF QueueUnload
  <2> QED
    BY <2>1, <2>2
<1>6. ASSUME NEW s \in Sender, NEW c \in Conv, Request(s, c) PROVE Shape'
  <2>1. MaxChats \in 1..MaxChats
    <3>1. sent + Cardinality(Checking) < MaxChats /\ sent \in Nat
      BY <1>0, <1>6 DEF Request, Checking, WorkerTypeOK
    <3> QED
      BY <3>1, Counts, WorkerAssumption
  <2>2. adds'[s] \in Chat /\ \A t \in Thread : t # s => adds'[t] = adds[t]
    BY <1>0, <1>a, <1>6, <2>1 DEF Request, Chat, WorkerTypeOK
  <2> QED
    BY <1>0, <1>6, <2>2, SenderShape DEF Request, GoTo
<1>7. ASSUME NEW s \in Sender, Accept(s) PROVE Shape'
  <2>1. sent' = sent + 1 /\ sent' \in 1..MaxChats /\ adds[s][1] \in Conv
    BY <1>0, <1>a, <1>7, Room, Kinds DEF Accept, Shape
  <2>2. adds'[s] \in Chat /\ \A t \in Thread : t # s => adds'[t] = adds[t]
    BY <1>0, <1>a, <1>7, <2>1 DEF Accept, Chat, WorkerTypeOK
  <2> QED
    BY <1>0, <1>7, <2>2, SenderShape DEF Accept, GoTo, Adding
<1>8. ASSUME NEW s \in Sender, StillWorking(s) PROVE Shape'
  <2>1. \A t \in Thread : t # s => adds'[t] = adds[t]
    BY <1>0, <1>a, <1>8 DEF StillWorking, WorkerTypeOK
  <2> QED
    BY <1>0, <1>8, <2>1, SenderShape DEF StillWorking, GoTo
<1>9. ASSUME NEW l \in {"idle", "clearQueue", "defer", "look", "unload"}, GoTo(Unloader, l),
             UNCHANGED <<adds, taken>>
      PROVE  Shape'
  BY <1>0, <1>9, UnloaderShape DEF GoTo, Adding
<1>10. ASSUME Interrupt \/ ClearQueue \/ Defer \/ Look PROVE Shape'
  BY <1>9, <1>10 DEF Interrupt, ClearQueue, Defer, Look
<1>11. ASSUME Take \/ TakeItem PROVE Shape'
  <2>1. CASE Take
    BY <1>0, <2>1, WorkerShape DEF Take, Nothing, GoTo, Adding
  <2>2. CASE TakeItem
    <3>1. taken.index \in Index
      BY <1>0 DEF WorkerTypeOK
    <3>2. CASE items[taken.index] = NoMsg
      BY <1>0, <2>2, <3>2, WorkerShape DEF TakeItem, Nothing, GoTo, Adding
    <3>3. CASE items[taken.index] # NoMsg
      BY <1>0, <2>2, <3>1, <3>3, WorkerShape DEF TakeItem, GoTo, Adding, WorkerTypeOK
    <3> QED
      BY <3>2, <3>3
  <2> QED
    BY <1>11, <2>1, <2>2
<1>12. ASSUME GoTo(Worker, "idle"), adds' = adds, taken' = Nothing PROVE Shape'
  BY <1>0, <1>12, WorkerShape DEF GoTo, Nothing, Adding
<1>13. ASSUME HandleUnload \/ Skip \/ Free \/ EmptyResult \/ Escape PROVE Shape'
  BY <1>12, <1>13 DEF HandleUnload, Skip, Free, EmptyResult, Escape
<1>14. ASSUME Proceed \/ Start PROVE Shape'
  BY <1>0, <1>14, WorkerShape DEF Proceed, Start, GoTo, Adding, Shape
<1>15. ASSUME Finish \/ Fail PROVE Shape'
  BY <1>0, <1>15, WorkerShape DEF Finish, Fail, GoTo, Nothing, Adding, Shape
<1>16. ASSUME UNCHANGED workerVars PROVE Shape'
  BY <1>0, <1>16 DEF workerVars, Shape
<1> QED
  BY <1>a, <1>2, <1>4, <1>5, <1>6, <1>7, <1>8, <1>10, <1>11, <1>13, <1>14, <1>15, <1>16
  DEF Next, SenderStep, UnloaderStep, WorkerStep, Add

-----------------------------------------------------------------------------
(* The counts after a move that stays among the steps of an add, begins one,
   ends one, or has nothing to do with adding. *)
LEMMA StillAdding ==
    ASSUME TypeInv, NEW t \in Thread, at[t] \in Adding, NEW l \in Adding,
           at' = [at EXCEPT ![t] = l], UNCHANGED <<sent, unloads, index, unload>>
    PROVE  Counted'
<1>0. WorkerTypeOK /\ Counted /\ l # "check" /\ at[t] # "check"
  BY DEF TypeInv, Adding
<1>1. Cardinality(Busy') = Cardinality(Busy) /\ Cardinality(Checking') = Cardinality(Checking)
  BY <1>0, MoveCounts DEF Adding
<1>2. at'[Unloader] \in {"clearQueue", "defer"} <=> at[Unloader] \in {"clearQueue", "defer"}
  BY <1>0 DEF WorkerTypeOK, Thread, Adding
<1> QED
  BY <1>0, <1>1, <1>2 DEF Counted, One

LEMMA NotAdding ==
    ASSUME TypeInv, NEW t \in Thread, at[t] \notin Adding \cup {"check", "clearQueue", "defer"},
           NEW l, l \notin Adding \cup {"check", "clearQueue", "defer"},
           at' = [at EXCEPT ![t] = l], UNCHANGED <<sent, unloads, index>>,
           unload' => unload
    PROVE  Counted'
<1>0. /\ WorkerTypeOK /\ Counted
      /\ sent \in Nat /\ unloads \in Nat /\ index \in Nat /\ MaxChats \in Nat
  BY WorkerAssumption DEF TypeInv, WorkerTypeOK, Index
<1>1. Cardinality(Busy') = Cardinality(Busy) /\ Cardinality(Checking') = Cardinality(Checking)
  BY <1>0, MoveCounts DEF Adding
<1>2. at'[Unloader] \in {"clearQueue", "defer"} <=> at[Unloader] \in {"clearQueue", "defer"}
  BY <1>0 DEF WorkerTypeOK, Thread
<1>3. One(unload') <= One(unload)
  BY DEF One
<1>4. One(at'[Unloader] \in {"clearQueue", "defer"}) = One(at[Unloader] \in {"clearQueue", "defer"})
  BY <1>2 DEF One
<1>5. One(unload') \in Nat /\ One(unload) \in Nat /\ One(at[Unloader] \in {"clearQueue", "defer"}) \in Nat
  BY DEF One
<1> QED
  BY <1>0, <1>1, <1>3, <1>4, <1>5, Counts DEF Counted

LEMMA CountedStep == TypeInv /\ [Next]_workerVars => Counted'
<1> SUFFICES ASSUME TypeInv, [Next]_workerVars PROVE Counted'
  OBVIOUS
<1>0. /\ WorkerTypeOK /\ Shape /\ Counted
      /\ sent \in Nat /\ unloads \in Nat /\ index \in Nat /\ MaxChats \in Nat
  BY WorkerAssumption DEF TypeInv, WorkerTypeOK, Index
<1>a. /\ Worker \in Thread /\ Unloader \in Thread /\ Sender \subseteq Thread
      /\ Unloader \notin Sender /\ Worker \notin Sender /\ Worker # Unloader
  BY WorkerAssumption DEF Thread
<1>b. /\ Cardinality(Busy) \in Nat /\ Cardinality(Checking) \in Nat
      /\ One(TRUE) = 1 /\ One(FALSE) = 0
      /\ One(unload) \in {0, 1} /\ One(at[Unloader] \in {"clearQueue", "defer"}) \in {0, 1}
  BY Counts DEF One
<1>c. /\ {"store", "tag", "put", "bump"} \subseteq Adding
      /\ \A l \in {"check", "unload", "idle", "free"} : l \notin Adding
  BY DEF Adding
<1>1. ASSUME NEW t \in Thread, Store(t) \/ Tag(t) \/ Put(t) PROVE Counted'
  BY <1>1, StillAdding DEF Store, Tag, Put, GoTo, Adding, flagVars, countVars
<1>2. ASSUME NEW t \in Thread, Bump(t) PROVE Counted'
  <2>1. After(t) \in {"idle", "free"} /\ at[t] = "bump" /\ at' = [at EXCEPT ![t] = After(t)]
    BY <1>2 DEF Bump, After, GoTo
  <2>2. /\ Cardinality(Busy') = Cardinality(Busy) - 1
        /\ Cardinality(Checking') = Cardinality(Checking)
    BY <1>0, <1>b, <2>1, MoveCounts DEF Adding
  <2>3. at'[Unloader] \in {"clearQueue", "defer"} <=> at[Unloader] \in {"clearQueue", "defer"}
    BY <1>0, <1>a, <2>1 DEF WorkerTypeOK
  <2>4. One(at'[Unloader] \in {"clearQueue", "defer"}) = One(at[Unloader] \in {"clearQueue", "defer"})
    BY <2>3 DEF One
  <2> QED
    BY <1>0, <1>2, <1>b, <2>2, <2>4 DEF Bump, Counted, flagVars, countVars
<1>3. ASSUME NEW t \in Thread, QueueUnload(t) PROVE Counted'
  <2>1. CASE unload
    <3>1. at[t] = "unload" /\ at' = [at EXCEPT ![t] = "store"]
      BY <1>3, <2>1 DEF QueueUnload, GoTo
    <3>2. /\ Cardinality(Busy') = Cardinality(Busy) + 1
          /\ Cardinality(Checking') = Cardinality(Checking)
      BY <1>0, <1>c, <3>1, MoveCounts
    <3>3. at'[Unloader] \in {"clearQueue", "defer"} <=> at[Unloader] \in {"clearQueue", "defer"}
      BY <1>0, <1>a, <3>1 DEF WorkerTypeOK
    <3>4. /\ One(at'[Unloader] \in {"clearQueue", "defer"}) = One(at[Unloader] \in {"clearQueue", "defer"})
          /\ One(unload) = 1
      BY <2>1, <3>3 DEF One
    <3>5. One(unload') = 0
      BY <1>3 DEF QueueUnload, One
    <3> QED
      BY <1>0, <1>3, <1>b, <3>2, <3>4, <3>5 DEF QueueUnload, Counted, queueVars, countVars
  <2>2. CASE ~unload
    <3>1. After(t) \in {"idle", "free"} /\ at[t] = "unload" /\ at' = [at EXCEPT ![t] = After(t)]
      BY <1>3, <2>2 DEF QueueUnload, GoTo, After
    <3> QED
      BY <1>3, <3>1, NotAdding DEF QueueUnload, Adding, queueVars, countVars
  <2> QED
    BY <2>1, <2>2
<1>4. ASSUME NEW s \in Sender, NEW c \in Conv, Request(s, c) PROVE Counted'
  <2>1. at[s] = "idle" /\ at' = [at EXCEPT ![s] = "check"] /\ sent + Cardinality(Checking) < MaxChats
    BY <1>4 DEF Request, GoTo, Checking
  <2>2. /\ Cardinality(Busy') = Cardinality(Busy)
        /\ Cardinality(Checking') = Cardinality(Checking) + 1
    BY <1>0, <1>a, <1>c, <2>1, MoveCounts
  <2>3. at'[Unloader] = at[Unloader]
    BY <1>0, <1>a, <2>1 DEF WorkerTypeOK
  <2> QED
    BY <1>0, <1>4, <1>b, <2>1, <2>2, <2>3 DEF Request, Counted, queueVars, countVars
<1>5. ASSUME NEW s \in Sender, Accept(s) PROVE Counted'
  <2>1. at[s] = "check" /\ at' = [at EXCEPT ![s] = "store"] /\ sent' = sent + 1
    BY <1>5 DEF Accept, GoTo
  <2>2. /\ Cardinality(Busy') = Cardinality(Busy) + 1
        /\ Cardinality(Checking') = Cardinality(Checking) - 1
    BY <1>0, <1>a, <1>c, <2>1, MoveCounts
  <2>3. at'[Unloader] = at[Unloader]
    BY <1>0, <1>a, <2>1 DEF WorkerTypeOK
  <2> QED
    BY <1>0, <1>5, <1>b, <2>1, <2>2, <2>3 DEF Accept, Counted, queueVars, flagVars
<1>6. ASSUME NEW s \in Sender, StillWorking(s) PROVE Counted'
  <2>1. at[s] = "check" /\ at' = [at EXCEPT ![s] = "idle"]
    BY <1>6 DEF StillWorking, GoTo
  <2>2. /\ Cardinality(Busy') = Cardinality(Busy)
        /\ Cardinality(Checking') = Cardinality(Checking) - 1
    <3>1. s \in Thread /\ "idle" \notin Adding /\ at[s] \notin Adding
      BY <1>a, <1>c, <2>1
    <3>2. Cardinality(Busy') = Cardinality(Busy)
      BY <1>0, <2>1, <3>1, MoveCounts
    <3>3. Cardinality(Checking') = Cardinality(Checking) - 1
      <4>1. \A l : at' = [at EXCEPT ![s] = l] /\ l # "check" /\ at[s] = "check"
                     => Cardinality(Checking') = Cardinality(Checking) - 1
        BY <1>0, <3>1, MoveCounts
      <4> QED
        BY <2>1, <4>1
    <3> QED
      BY <3>2, <3>3
  <2>3. at'[Unloader] = at[Unloader]
    BY <1>0, <1>a, <2>1 DEF WorkerTypeOK
  <2> QED
    BY <1>0, <1>6, <1>b, <2>2, <2>3 DEF StillWorking, Counted, queueVars, flagVars, countVars
<1>7. ASSUME NEW l \in {"clearQueue", "defer", "look"}, at' = [at EXCEPT ![Unloader] = l],
             at[Unloader] \in {"idle", "clearQueue", "defer"}, UNCHANGED <<index, sent>>,
             unloads' = unloads + (IF at[Unloader] = "idle" THEN 1 ELSE 0),
             at[Unloader] = "idle" <=> l = "clearQueue",
             at[Unloader] = "defer" <=> l = "look",
             at[Unloader] # "defer" => unload' = unload
      PROVE  Counted'
  <2>1. /\ Cardinality(Busy') = Cardinality(Busy)
        /\ Cardinality(Checking') = Cardinality(Checking)
    BY <1>0, <1>a, <1>b, <1>7, MoveCounts DEF Adding
  <2>2. at'[Unloader] = l
    BY <1>0, <1>a, <1>7 DEF WorkerTypeOK
  <2>3. CASE at[Unloader] = "idle"
    BY <1>0, <1>7, <1>b, <2>1, <2>2, <2>3 DEF Counted, One
  <2>4. CASE at[Unloader] = "clearQueue"
    BY <1>0, <1>7, <1>b, <2>1, <2>2, <2>4 DEF Counted, One
  <2>5. CASE at[Unloader] = "defer"
    <3>1. /\ One(at[Unloader] \in {"clearQueue", "defer"}) = 1
          /\ One(at'[Unloader] \in {"clearQueue", "defer"}) = 0
          /\ One(unload') \in {0, 1}
      BY <1>7, <2>2, <2>5 DEF One
    <3> QED
      BY <1>0, <1>7, <1>b, <2>1, <2>5, <3>1 DEF Counted
  <2> QED
    BY <1>7, <2>3, <2>4, <2>5
<1>8. ASSUME Interrupt \/ ClearQueue \/ Defer PROVE Counted'
  <2>1. CASE Interrupt
    BY <1>0, <1>7, <2>1 DEF Interrupt, GoTo, queueVars
  <2>2. CASE ClearQueue
    BY <1>0, <1>7, <2>2 DEF ClearQueue, GoTo, flagVars
  <2>3. CASE Defer
    BY <1>0, <1>7, <2>3 DEF Defer, GoTo, queueVars
  <2> QED
    BY <1>8, <2>1, <2>2, <2>3
<1>9. ASSUME Look PROVE Counted'
  BY <1>a, <1>9, NotAdding DEF Look, GoTo, Adding, queueVars, flagVars, countVars
<1>10. ASSUME NEW l \in {"idle", "item", "handle", "start", "run", "free", "unload"}, GoTo(Worker, l),
              at[Worker] \in {"idle", "item", "handle", "start", "run", "free"},
              UNCHANGED <<index, sent, unloads, unload>>
      PROVE  Counted'
  BY <1>a, <1>10, NotAdding DEF GoTo, Adding
<1>11. ASSUME Take \/ TakeItem PROVE Counted'
  BY <1>10, <1>11 DEF Take, TakeItem, flagVars, countVars
<1>12. ASSUME HandleUnload \/ Skip \/ Proceed \/ Start \/ Finish \/ Fail PROVE Counted'
  BY <1>10, <1>12 DEF HandleUnload, Skip, Proceed, Start, Finish, Fail, queueVars, flagVars, countVars
<1>13. ASSUME Free \/ EmptyResult \/ Escape PROVE Counted'
  BY <1>10, <1>13 DEF Free, EmptyResult, Escape, queueVars, flagVars, countVars
<1>14. ASSUME UNCHANGED workerVars PROVE Counted'
  BY <1>0, <1>14 DEF workerVars, queueVars, flagVars, countVars, Counted, Busy, Checking
<1> QED
  BY <1>a, <1>1, <1>2, <1>3, <1>4, <1>5, <1>6, <1>8, <1>9, <1>11, <1>12, <1>13, <1>14
  DEF Next, SenderStep, UnloaderStep, WorkerStep, Add

LEMMA TypeStep == TypeInv /\ [Next]_workerVars => TypeInv'
BY TypesStep, ShapeStep, CountedStep DEF TypeInv

-----------------------------------------------------------------------------
(* A message is about to be stored, in an item, or taken. *)
Waiting(t) == at[t] = "store" /\ adds[t] \in Chat

(* A conversation that has a message somewhere is in flight, and it has one
   message in one place. *)
Places ==
    /\ \A t \in Thread : Waiting(t) => adds[t][1] \in inFlight
    /\ \A i \in Index : items[i] \in Chat => items[i][1] \in inFlight
    /\ taken.msg \in Chat => taken.msg[1] \in inFlight
    /\ \A t, u \in Thread :
          Waiting(t) /\ Waiting(u) /\ adds[t][1] = adds[u][1] => t = u
    /\ \A t \in Thread, i \in Index :
          Waiting(t) /\ items[i] \in Chat => adds[t][1] # items[i][1]
    /\ \A t \in Thread : Waiting(t) /\ taken.msg \in Chat => adds[t][1] # taken.msg[1]
    /\ \A i, j \in Index :
          items[i] \in Chat /\ items[j] \in Chat /\ items[i][1] = items[j][1] => i = j
    /\ \A i \in Index :
          items[i] \in Chat /\ taken.msg \in Chat => items[i][1] # taken.msg[1]

(* No message comes anywhere, and inFlight loses at most the conversation of the
   message that is done. *)
LEMMA NoneComes ==
    ASSUME Places,
           \A t \in Thread : Waiting(t)' => Waiting(t) /\ adds'[t] = adds[t],
           \A i \in Index : items'[i] \in Chat => items'[i] = items[i],
           taken'.msg \in Chat => taken'.msg = taken.msg,
           \/ inFlight' = inFlight
           \/ taken.msg \in Chat /\ inFlight' = inFlight \ {taken.msg[1]} /\ taken'.msg \notin Chat
    PROVE  Places'
<1>1. CASE inFlight' = inFlight
  BY <1>1 DEF Places
<1>2. CASE taken.msg \in Chat /\ inFlight' = inFlight \ {taken.msg[1]} /\ taken'.msg \notin Chat
  BY <1>2 DEF Places
<1> QED
  BY <1>1, <1>2

(* A message moves from the thread that stores it to its item. *)
LEMMA StorePlaces ==
    ASSUME TypeInv, Places, NEW t \in Thread, Store(t)
    PROVE  Places'
<1>0. WorkerTypeOK
  BY DEF TypeInv
<1>1. /\ at[t] = "store" /\ ~Waiting(t)'
      /\ \A u \in Thread : u # t => (Waiting(u)' <=> Waiting(u))
      /\ adds' = adds /\ inFlight' = inFlight /\ taken' = taken
  BY <1>0 DEF Store, GoTo, Waiting, WorkerTypeOK
<1>2. /\ items'[index] = adds[t] /\ index \in Index
      /\ \A i \in Index : i # index => items'[i] = items[i]
      /\ adds[t] \in Chat => Waiting(t)
  BY <1>0, <1>1 DEF Store, Waiting, WorkerTypeOK
<1> QED
  BY <1>1, <1>2 DEF Places

(* A message moves from its item to the worker. *)
LEMMA TakePlaces ==
    ASSUME TypeInv, Places, TakeItem
    PROVE  Places'
<1>0. WorkerTypeOK /\ taken.index \in Index /\ Worker \in Thread
  BY DEF TypeInv, WorkerTypeOK, Thread
<1>1. /\ \A t \in Thread : Waiting(t)' <=> Waiting(t)
      /\ adds' = adds /\ inFlight' = inFlight
  BY <1>0 DEF TakeItem, GoTo, Waiting, WorkerTypeOK
<1>2. /\ items'[taken.index] = NoMsg /\ NoMsg \notin Chat
      /\ \A i \in Index : i # taken.index => items'[i] = items[i]
  BY <1>0, Kinds DEF TakeItem, WorkerTypeOK
<1>3. taken'.msg \in Chat => taken'.msg = items[taken.index]
  <2>1. CASE items[taken.index] = NoMsg
    <3>1. taken'.msg = NoMsg
      BY <2>1 DEF TakeItem, Nothing
    <3> QED
      BY <3>1, Kinds
  <2>2. CASE items[taken.index] # NoMsg
    BY <1>0, <2>2 DEF TakeItem, WorkerTypeOK
  <2> QED
    BY <2>1, <2>2
<1> QED
  BY <1>0, <1>1, <1>2, <1>3 DEF Places

(* A message comes for a conversation that is not in flight. *)
LEMMA AcceptPlaces ==
    ASSUME TypeInv, Places, NEW s \in Sender, Accept(s)
    PROVE  Places'
<1>0. WorkerTypeOK /\ Shape /\ s \in Thread
  BY DEF TypeInv, Thread
<1> DEFINE c == adds[s][1]
<1>1. /\ adds'[s][1] = c /\ c \notin inFlight /\ inFlight' = inFlight \cup {c}
      /\ items' = items /\ taken' = taken /\ ~Waiting(s)
      /\ \A t \in Thread : t # s => adds'[t] = adds[t] /\ (Waiting(t)' <=> Waiting(t))
  BY <1>0 DEF Accept, GoTo, queueVars, Waiting, WorkerTypeOK
<1> HIDE DEF c
<1> QED
  BY <1>0, <1>1 DEF Places

LEMMA PlacesStep == TypeInv /\ Places /\ [Next]_workerVars => Places'
<1> SUFFICES ASSUME TypeInv, Places, [Next]_workerVars PROVE Places'
  OBVIOUS
<1>0. WorkerTypeOK /\ Shape
  BY DEF TypeInv
<1>a. /\ Worker \in Thread /\ Unloader \in Thread /\ Sender \subseteq Thread
      /\ NoMsg \notin Chat /\ Unload \notin Chat
  BY Kinds DEF Thread
<1>b. ASSUME NEW t \in Thread, NEW l, l # "store" \/ adds'[t] \notin Chat,
             at' = [at EXCEPT ![t] = l], \A u \in Thread : u # t => adds'[u] = adds[u],
             items' = items, inFlight' = inFlight, taken'.msg \in {taken.msg, NoMsg}
      PROVE  Places'
  <2>1. \A u \in Thread : Waiting(u)' => Waiting(u) /\ adds'[u] = adds[u]
    BY <1>0, <1>b DEF Waiting, WorkerTypeOK
  <2> QED
    BY <1>a, <1>b, <2>1, NoneComes
<1>c. ASSUME NEW l, l # "store", at' = [at EXCEPT ![Worker] = l], UNCHANGED <<adds, items>>,
             taken.msg \in Chat, Frees, taken' = Nothing
      PROVE  Places'
  <2>1. \A u \in Thread : Waiting(u)' => Waiting(u) /\ adds'[u] = adds[u]
    BY <1>0, <1>c DEF Waiting, WorkerTypeOK
  <2> QED
    BY <1>a, <1>c, <2>1, NoneComes DEF Frees, Nothing
<1>1. ASSUME NEW t \in Thread, Tag(t) \/ Put(t) \/ Bump(t) PROVE Places'
  <2>1. CASE Tag(t)
    BY <1>b, <2>1 DEF Tag, GoTo
  <2>2. CASE Put(t)
    BY <1>b, <2>2 DEF Put, GoTo
  <2>3. CASE Bump(t)
    <3>1. \A u \in Thread : u # t => adds'[u] = adds[u]
      BY <1>0, <2>3 DEF Bump, WorkerTypeOK
    <3> QED
      BY <1>b, <2>3, <3>1 DEF Bump, GoTo, After
  <2> QED
    BY <1>1, <2>1, <2>2, <2>3
<1>2. ASSUME NEW t \in Thread, QueueUnload(t) PROVE Places'
  <2>1. /\ \A u \in Thread : u # t => adds'[u] = adds[u]
        /\ \E l : at' = [at EXCEPT ![t] = l] /\ (l # "store" \/ adds'[t] \notin Chat)
    <3>1. CASE unload
      <4>1. adds' = [adds EXCEPT ![t] = Unload] /\ at' = [at EXCEPT ![t] = "store"]
        BY <1>2, <3>1 DEF QueueUnload, GoTo
      <4> QED
        BY <1>0, <1>a, <4>1 DEF WorkerTypeOK
    <3>2. CASE ~unload
      <4>1. After(t) # "store" /\ at' = [at EXCEPT ![t] = After(t)] /\ adds' = adds
        BY <1>2, <3>2 DEF QueueUnload, GoTo, After
      <4> QED
        BY <4>1
    <3> QED
      BY <3>1, <3>2
  <2> QED
    BY <1>b, <1>2, <2>1 DEF QueueUnload, queueVars
<1>3. ASSUME NEW s \in Sender, NEW c \in Conv, Request(s, c) PROVE Places'
  <2>1. \A u \in Thread : u # s => adds'[u] = adds[u]
    BY <1>0, <1>3 DEF Request, WorkerTypeOK
  <2> QED
    BY <1>a, <1>b, <1>3, <2>1 DEF Request, GoTo, queueVars
<1>4. ASSUME NEW s \in Sender, StillWorking(s) PROVE Places'
  <2>1. \A u \in Thread : u # s => adds'[u] = adds[u]
    BY <1>0, <1>4 DEF StillWorking, WorkerTypeOK
  <2> QED
    BY <1>a, <1>b, <1>4, <2>1 DEF StillWorking, GoTo, queueVars
<1>5. ASSUME Interrupt \/ ClearQueue \/ Defer \/ Look PROVE Places'
  <2>1. CASE Interrupt
    BY <1>a, <1>b, <2>1 DEF Interrupt, GoTo, queueVars
  <2>2. CASE ClearQueue
    BY <1>a, <1>b, <2>2 DEF ClearQueue, GoTo
  <2>3. CASE Defer
    BY <1>a, <1>b, <2>3 DEF Defer, GoTo, queueVars
  <2>4. CASE Look
    BY <1>a, <1>b, <2>4 DEF Look, GoTo, queueVars
  <2> QED
    BY <1>5, <2>1, <2>2, <2>3, <2>4
<1>6. ASSUME Take PROVE Places'
  BY <1>a, <1>b, <1>6 DEF Take, GoTo, Nothing
<1>7. ASSUME Skip \/ Finish \/ Free \/ EmptyResult PROVE Places'
  <2>1. taken.msg \in Chat
    BY <1>0, <1>7 DEF Skip, Finish, Free, EmptyResult, Shape
  <2> QED
    BY <1>c, <1>7, <2>1 DEF Skip, Finish, Free, EmptyResult, GoTo, queueVars
<1>8. ASSUME HandleUnload \/ Proceed \/ Start \/ Fail \/ Escape PROVE Places'
  <2>1. CASE HandleUnload \/ Escape
    BY <1>a, <1>b, <2>1 DEF HandleUnload, Escape, GoTo, Nothing, queueVars
  <2>2. CASE Proceed \/ Start \/ Fail
    BY <1>a, <1>b, <2>2 DEF Proceed, Start, Fail, GoTo, queueVars
  <2> QED
    BY <1>8, <2>1, <2>2
<1>9. ASSUME UNCHANGED workerVars PROVE Places'
  BY <1>9 DEF workerVars, queueVars, Places, Waiting
<1> QED
  BY <1>a, <1>1, <1>2, <1>3, <1>4, <1>5, <1>6, <1>7, <1>8, <1>9,
     StorePlaces, TakePlaces, AcceptPlaces
  DEF Next, SenderStep, UnloaderStep, WorkerStep, Add

(* Wherever a message is looked for, it is in one of the places. *)
LEMMA OnePlace == TypeInv /\ Places => OnePerConversation
<1> SUFFICES ASSUME TypeInv, Places, NEW m \in Chat, NEW n \in Chat,
                    Alive(m), Alive(n), m[1] = n[1]
             PROVE  m = n
  BY DEF OnePerConversation
<1>1. ASSUME NEW k \in Chat, Alive(k)
      PROVE  \/ \E t \in Thread : Waiting(t) /\ adds[t] = k
             \/ \E i \in Index : items[i] = k
             \/ taken.msg = k
  <2>1. index \in Index /\ taken.index \in Index /\ \A j \in 1..Len(fifo) : fifo[j] \in Index
    BY DEF TypeInv, WorkerTypeOK
  <2> QED
    BY <1>1, <2>1 DEF Alive, Waiting
<1> QED
  BY <1>1 DEF Places

(* No conversation ever has a second generation, queued or running, and every
   index in use is one of the queue (add_to_queue, _try_mark_in_flight). *)
THEOREM WorkerSoundSafe == Spec => []WorkerSound
<1>1. Init => TypeInv /\ Places
  <2> SUFFICES ASSUME Init PROVE TypeInv /\ Places
    OBVIOUS
  <2>1. \A t \in Thread : ~Waiting(t)
    BY DEF Init, Waiting
  <2>2. taken.msg \notin Chat /\ \A i \in Index : items[i] \notin Chat
    BY Kinds DEF Init, Nothing
  <2> QED
    BY <2>1, <2>2, TypeInit DEF Places
<1>2. TypeInv /\ Places => WorkerSound
  BY OnePlace DEF WorkerSound, TypeInv
<1> QED
  BY <1>1, <1>2, TypeStep, PlacesStep, PTL DEF Spec

-----------------------------------------------------------------------------
(* While no two threads have added at once.  The index is that of the thread
   that adds: what it has put is at or below it, and only the step that puts it
   stands between an item and its owner. *)
Entered == {"tag", "put", "bump"}
Bumping == \E t \in Thread : at[t] = "bump"

Orderly ==
    /\ \A t, u \in Thread : at[t] \in Entered /\ at[u] \in Entered => t = u
    /\ \A t \in Thread : at[t] = "tag" => items[index] \in {adds[t], NoMsg}
    /\ \A i \in Index :
          items[i] # NoMsg => \/ owners[i] = items[i]
                              \/ i = index /\ \E t \in Thread : at[t] = "tag"
    /\ \A j \in 1..Len(fifo) : fifo[j] <= index /\ (fifo[j] = index => Bumping)
    /\ at[Worker] = "item" => taken.index <= index /\ (taken.index = index => Bumping)
    /\ taken.msg # NoMsg => taken.owner = taken.msg

OrderInv == "overlap" \notin seen => Orderly

(* A step of a thread that neither begins nor makes any step of an add, with
   the queue as it is. *)
LEMMA NoAdd ==
    ASSUME WorkerTypeOK, Orderly, NEW t \in Thread, NEW l,
           at[t] \notin Entered, l \notin Entered \cup {"item"},
           at' = [at EXCEPT ![t] = l], UNCHANGED <<items, owners, index>>,
           fifo' = fifo \/ fifo' = <<>>,
           \A u \in Thread : at[u] = "tag" => adds'[u] = adds[u],
           \/ taken' = taken
           \/ t = Worker /\ taken'.msg = NoMsg
    PROVE  Orderly'
<1>0. at'[t] = l /\ (\A u \in Thread : u # t => at'[u] = at[u])
  BY DEF WorkerTypeOK
<1>1. \A u \in Thread : /\ (at'[u] \in Entered <=> at[u] \in Entered)
                        /\ (at'[u] = "tag" <=> at[u] = "tag")
                        /\ (at'[u] = "bump" <=> at[u] = "bump")
  BY <1>0 DEF Entered
<1>2. Bumping' <=> Bumping
  BY <1>1 DEF Bumping
<1>3. at'[Worker] = "item" => at[Worker] = "item" /\ taken' = taken
  BY <1>0 DEF Thread
<1>4. \A j \in 1..Len(fifo') : fifo'[j] <= index' /\ (fifo'[j] = index' => Bumping')
  <2>1. CASE fifo' = fifo
    BY <1>2, <2>1 DEF Orderly
  <2>2. CASE fifo' = <<>>
    BY <2>2
  <2> QED
    BY <2>1, <2>2
<1>5. \A u \in Thread : at'[u] = "tag" => items'[index'] \in {adds'[u], NoMsg}
  BY <1>1 DEF Orderly
<1>6. \A i \in Index : items'[i] # NoMsg => \/ owners'[i] = items'[i]
                                            \/ i = index' /\ \E u \in Thread : at'[u] = "tag"
  BY <1>1 DEF Orderly
<1>7. \A u, v \in Thread : at'[u] \in Entered /\ at'[v] \in Entered => u = v
  BY <1>1 DEF Orderly
<1> QED
  BY <1>2, <1>3, <1>4, <1>5, <1>6, <1>7 DEF Orderly

LEMMA StoreOrder ==
    ASSUME TypeInv, Orderly, NEW t \in Thread, Store(t), "overlap" \notin seen'
    PROVE  Orderly'
<1>0. WorkerTypeOK /\ index \in Index
  BY DEF TypeInv, WorkerTypeOK
<1>1. \A u \in Thread : at[u] \notin Entered
  BY DEF Store, Trouble, Entered
<1>2. /\ at'[t] = "tag" /\ (\A u \in Thread : u # t => at'[u] = at[u])
      /\ items'[index] = adds[t] /\ (\A i \in Index : i # index => items'[i] = items[i])
      /\ UNCHANGED <<fifo, owners, index, adds, taken>>
  BY <1>0 DEF Store, GoTo, WorkerTypeOK
<1>3. ~Bumping
  BY <1>1 DEF Bumping, Entered
<1>4. at'[Worker] = "item" => at[Worker] = "item"
  BY <1>2 DEF Thread
<1>5. \A u \in Thread : at'[u] \in Entered => u = t
  BY <1>1, <1>2
<1> QED
  BY <1>0, <1>2, <1>3, <1>4, <1>5 DEF Orderly, Entered

LEMMA TagOrder ==
    ASSUME TypeInv, Orderly, NEW t \in Thread, Tag(t)
    PROVE  Orderly'
<1>0. WorkerTypeOK /\ index \in Index
  BY DEF TypeInv, WorkerTypeOK
<1>1. /\ at[t] = "tag" /\ at'[t] = "put" /\ (\A u \in Thread : u # t => at'[u] = at[u])
      /\ owners'[index] = adds[t] /\ (\A i \in Index : i # index => owners'[i] = owners[i])
      /\ UNCHANGED <<fifo, items, index, adds, taken>>
  BY <1>0 DEF Tag, GoTo, WorkerTypeOK
<1>2. \A u \in Thread : u # t => at[u] \notin Entered
  BY <1>1 DEF Orderly, Entered
<1>3. ~Bumping /\ \A u \in Thread : at'[u] # "tag"
  BY <1>1, <1>2 DEF Bumping, Entered
<1>4. at'[Worker] = "item" => at[Worker] = "item"
  BY <1>1 DEF Thread
<1>5. \A u \in Thread : at'[u] \in Entered => u = t
  BY <1>1, <1>2
<1>6. \A i \in Index : items'[i] # NoMsg => owners'[i] = items'[i]
  <2> SUFFICES ASSUME NEW i \in Index, items[i] # NoMsg PROVE owners'[i] = items[i]
    BY <1>1
  <2>1. CASE i = index
    BY <1>1, <2>1 DEF Orderly
  <2>2. CASE i # index
    BY <1>1, <2>2 DEF Orderly
  <2> QED
    BY <2>1, <2>2
<1>7. \A j \in 1..Len(fifo) : fifo[j] <= index /\ fifo[j] # index
  BY <1>3 DEF Orderly
<1>8. at'[Worker] = "item" => taken.index <= index /\ taken.index # index
  BY <1>3, <1>4 DEF Orderly
<1>9. taken.msg # NoMsg => taken.owner = taken.msg
  BY DEF Orderly
<1> QED
  BY <1>1, <1>3, <1>5, <1>6, <1>7, <1>8, <1>9 DEF Orderly

LEMMA PutOrder ==
    ASSUME TypeInv, Orderly, NEW t \in Thread, Put(t)
    PROVE  Orderly'
<1>0. WorkerTypeOK /\ index \in Index /\ fifo \in Seq(Index) /\ index \in Int
  BY WorkerAssumption DEF TypeInv, WorkerTypeOK, Index
<1>1. /\ at[t] = "put" /\ at'[t] = "bump" /\ (\A u \in Thread : u # t => at'[u] = at[u])
      /\ fifo' = Append(fifo, index)
      /\ UNCHANGED <<items, owners, index, adds, taken>>
  BY <1>0 DEF Put, GoTo, WorkerTypeOK
<1>2. \A u \in Thread : u # t => at[u] \notin Entered
  BY <1>1 DEF Orderly, Entered
<1>3. Bumping' /\ \A u \in Thread : at'[u] # "tag" /\ at[u] # "tag"
  BY <1>1, <1>2 DEF Bumping, Entered
<1>4. \A j \in 1..Len(fifo') : fifo'[j] <= index
  BY <1>0, <1>1 DEF Orderly
<1>5. at'[Worker] = "item" => at[Worker] = "item"
  BY <1>1 DEF Thread
<1>6. \A u \in Thread : at'[u] \in Entered => u = t
  BY <1>1, <1>2
<1> QED
  BY <1>0, <1>1, <1>3, <1>4, <1>5, <1>6 DEF Orderly

LEMMA BumpOrder ==
    ASSUME TypeInv, Orderly, NEW t \in Thread, Bump(t)
    PROVE  Orderly'
<1>0. /\ WorkerTypeOK /\ fifo \in Seq(Index) /\ index \in Int /\ taken.index \in Int
      /\ \A i \in Index : i \in Int
  BY WorkerAssumption DEF TypeInv, WorkerTypeOK, Index
<1>1. /\ at[t] = "bump" /\ at'[t] \in {"idle", "free"}
      /\ (\A u \in Thread : u # t => at'[u] = at[u])
      /\ index' = index + 1 /\ UNCHANGED <<fifo, items, owners, taken>>
  BY <1>0 DEF Bump, GoTo, After, WorkerTypeOK
<1>2. \A u \in Thread : u # t => at[u] \notin Entered
  BY <1>1 DEF Orderly, Entered
<1>3. \A u \in Thread : at'[u] \notin Entered /\ at[u] # "tag"
  BY <1>1, <1>2 DEF Entered
<1>4. \A j \in 1..Len(fifo) : fifo[j] < index'
  BY <1>0, <1>1 DEF Orderly
<1>5. at'[Worker] = "item" => at[Worker] = "item" /\ taken.index < index'
  <2>1. at'[Worker] = "item" => at[Worker] = "item"
    BY <1>1 DEF Thread
  <2> QED
    BY <1>0, <1>1, <2>1 DEF Orderly
<1>6. \A j \in 1..Len(fifo') : fifo'[j] < index'
  BY <1>1, <1>4
<1>7. \A j \in 1..Len(fifo) : fifo[j] \in Int
  BY <1>0
<1> QED
  BY <1>0, <1>1, <1>3, <1>4, <1>5, <1>7 DEF Orderly, Entered

LEMMA TakeOrder ==
    ASSUME TypeInv, Orderly, Take
    PROVE  Orderly'
<1>0. /\ WorkerTypeOK /\ fifo \in Seq(Index) /\ Worker \in Thread
      /\ at[Worker] = "idle" /\ taken.msg = NoMsg
  BY DEF TypeInv, WorkerTypeOK, Thread, Shape, Take
<1>1. /\ at'[Worker] = "item" /\ (\A u \in Thread : u # Worker => at'[u] = at[u])
      /\ fifo # <<>> /\ fifo' = Tail(fifo)
      /\ taken'.index = Head(fifo) /\ taken'.msg = NoMsg
      /\ UNCHANGED <<items, owners, index, adds>>
  BY <1>0 DEF Take, GoTo, Nothing, WorkerTypeOK
<1>2. \A u \in Thread : /\ (at'[u] \in Entered <=> at[u] \in Entered)
                        /\ (at'[u] = "tag" <=> at[u] = "tag")
                        /\ (at'[u] = "bump" <=> at[u] = "bump")
  BY <1>0, <1>1 DEF Entered
<1>3. Bumping' <=> Bumping
  BY <1>2 DEF Bumping
<1>4. /\ Len(fifo) \in Nat /\ Len(fifo) >= 1 /\ Head(fifo) = fifo[1]
      /\ \A j \in 1..Len(fifo') : fifo'[j] = fifo[j + 1] /\ j + 1 \in 1..Len(fifo)
  BY <1>0, <1>1
<1>5. /\ \A j \in 1..Len(fifo') : fifo'[j] <= index /\ (fifo'[j] = index => Bumping)
      /\ Head(fifo) <= index /\ (Head(fifo) = index => Bumping)
  BY <1>4 DEF Orderly
<1> QED
  BY <1>1, <1>2, <1>3, <1>5 DEF Orderly

LEMMA TakeItemOrder ==
    ASSUME TypeInv, Orderly, TakeItem
    PROVE  Orderly'
<1>0. /\ WorkerTypeOK /\ taken.index \in Index /\ Worker \in Thread
      /\ at[Worker] = "item"
  BY DEF TypeInv, WorkerTypeOK, Thread, TakeItem
<1> DEFINE i == taken.index
<1>1. /\ at'[Worker] \in {"idle", "handle"} /\ (\A u \in Thread : u # Worker => at'[u] = at[u])
      /\ items'[i] = NoMsg /\ (\A j \in Index : j # i => items'[j] = items[j] /\ owners'[j] = owners[j])
      /\ UNCHANGED <<fifo, index, adds>>
  BY <1>0 DEF TakeItem, GoTo, WorkerTypeOK
<1>2. \A u \in Thread : /\ (at'[u] \in Entered <=> at[u] \in Entered)
                        /\ (at'[u] = "tag" <=> at[u] = "tag")
                        /\ (at'[u] = "bump" <=> at[u] = "bump")
  BY <1>0, <1>1 DEF Entered
<1>3. Bumping' <=> Bumping
  BY <1>2 DEF Bumping
<1>4. ASSUME NEW t \in Thread, at[t] = "tag" PROVE i # index
  BY <1>0, <1>4 DEF Orderly, Bumping, Entered
<1>5. taken'.msg # NoMsg => taken'.owner = taken'.msg
  <2>1. CASE items[i] = NoMsg
    BY <2>1 DEF TakeItem, Nothing
  <2>2. CASE items[i] # NoMsg
    <3>1. owners[i] = items[i]
      BY <1>0, <1>4, <2>2 DEF Orderly
    <3> QED
      BY <1>0, <2>2, <3>1 DEF TakeItem, WorkerTypeOK
  <2> QED
    BY <2>1, <2>2
<1>6. index \in Index
  BY <1>0 DEF WorkerTypeOK
<1> QED
  BY <1>1, <1>2, <1>3, <1>5, <1>6 DEF Orderly

LEMMA OrderStep == TypeInv /\ OrderInv /\ [Next]_workerVars => OrderInv'
<1> SUFFICES ASSUME TypeInv, OrderInv, [Next]_workerVars, "overlap" \notin seen'
             PROVE  Orderly'
  BY DEF OrderInv
<1>0. WorkerTypeOK /\ Shape
  BY DEF TypeInv
<1>a. Worker \in Thread /\ Unloader \in Thread /\ Sender \subseteq Thread
  BY DEF Thread
<1>b. seen \subseteq seen'
  BY DEF Next, SenderStep, UnloaderStep, WorkerStep, Add, Store, Tag, Put, Bump, QueueUnload,
     Request, Accept, StillWorking, Interrupt, ClearQueue, Defer, Look, Take, TakeItem,
     HandleUnload, Skip, Proceed, Start, Finish, Fail, Free, EmptyResult, Escape, Trouble, Happens,
     countVars, workerVars
<1>c. Orderly
  BY <1>b DEF OrderInv
<1>d. ASSUME NEW t \in Thread, NEW l, at[t] \notin Entered, l \notin Entered \cup {"item"},
             at' = [at EXCEPT ![t] = l], UNCHANGED <<items, owners, index>>,
             fifo' = fifo \/ fifo' = <<>>,
             \A u \in Thread : u # t => adds'[u] = adds[u],
             taken' = taken \/ (t = Worker /\ taken' = Nothing)
      PROVE  Orderly'
  <2>1. \A u \in Thread : at[u] = "tag" => adds'[u] = adds[u]
    BY <1>d DEF Entered
  <2>2. taken' = taken \/ (t = Worker /\ taken'.msg = NoMsg)
    BY <1>d DEF Nothing
  <2> QED
    BY <1>0, <1>c, <1>d, <2>1, <2>2, NoAdd
<1>1. ASSUME NEW t \in Thread, QueueUnload(t) PROVE Orderly'
  <2>1. /\ \A u \in Thread : u # t => adds'[u] = adds[u]
        /\ \E l \in {"store", "idle", "free"} : at' = [at EXCEPT ![t] = l]
    <3>1. CASE unload
      BY <1>0, <1>1, <3>1 DEF QueueUnload, GoTo, WorkerTypeOK
    <3>2. CASE ~unload
      BY <1>1, <3>2 DEF QueueUnload, GoTo, After
    <3> QED
      BY <3>1, <3>2
  <2> QED
    BY <1>d, <1>1, <2>1 DEF QueueUnload, queueVars, Entered
<1>2. ASSUME NEW s \in Sender, (\E c \in Conv : Request(s, c)) \/ Accept(s) \/ StillWorking(s)
      PROVE  Orderly'
  <2>1. \A u \in Thread : u # s => adds'[u] = adds[u]
    BY <1>0, <1>2 DEF Request, Accept, StillWorking, WorkerTypeOK
  <2>2. /\ at[s] \in {"idle", "check"} /\ UNCHANGED <<queueVars, taken>>
        /\ \E l \in {"idle", "check", "store"} : at' = [at EXCEPT ![s] = l]
    BY <1>2 DEF Request, Accept, StillWorking, GoTo
  <2> QED
    BY <1>a, <1>d, <2>1, <2>2 DEF queueVars, Entered
<1>3. ASSUME Interrupt \/ ClearQueue \/ Defer \/ Look PROVE Orderly'
  <2>1. /\ at[Unloader] \notin Entered /\ UNCHANGED <<items, owners, index, adds, taken>>
        /\ \E l \in {"idle", "clearQueue", "defer", "look", "unload"} : at' = [at EXCEPT ![Unloader] = l]
        /\ fifo' = fifo \/ fifo' = <<>>
    BY <1>3 DEF Interrupt, ClearQueue, Defer, Look, GoTo, queueVars, Entered
  <2> QED
    BY <1>a, <1>d, <2>1 DEF Entered
<1>4. ASSUME HandleUnload \/ Skip \/ Proceed \/ Start \/ Finish \/ Fail \/ Free \/ EmptyResult \/ Escape
      PROVE  Orderly'
  <2>1. /\ at[Worker] \notin Entered /\ UNCHANGED <<queueVars, adds>>
        /\ \E l \in {"idle", "start", "run", "unload"} : at' = [at EXCEPT ![Worker] = l]
        /\ taken' = taken \/ taken' = Nothing
    BY <1>4 DEF HandleUnload, Skip, Proceed, Start, Finish, Fail, Free, EmptyResult, Escape, GoTo, Entered
  <2> QED
    BY <1>a, <1>d, <2>1 DEF queueVars, Entered
<1>5. ASSUME UNCHANGED workerVars PROVE Orderly'
  BY <1>c, <1>5 DEF workerVars, queueVars, Orderly, Bumping
<1> QED
  BY <1>a, <1>c, <1>1, <1>2, <1>3, <1>4, <1>5, StoreOrder, TagOrder, PutOrder, BumpOrder,
     TakeOrder, TakeItemOrder
  DEF Next, SenderStep, UnloaderStep, WorkerStep, Add

(* The tenant and the account applied while a message is handled are those it
   was sent with, however many threads send, unless two have added at once. *)
THEOREM HandledAsSenderSafe == Spec => []HandledAsSender
<1>1. Init => OrderInv
  BY WorkerAssumption DEF Init, OrderInv, Orderly, Nothing, Entered, Thread
<1>2. OrderInv => HandledAsSender
  BY DEF OrderInv, Orderly, HandledAsSender
<1> QED
  BY <1>1, <1>2, TypeInit, TypeStep, OrderStep, PTL DEF Spec
=============================================================================
