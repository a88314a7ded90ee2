--------------------------- MODULE EmailSyncProofs ---------------------------
(***************************************************************************)
(* The chain of tasks of an email sync, of EmailSync, for all accounts,    *)
(* mailboxes, numbers of syncs, polls and faults.                          *)
(***************************************************************************)
EXTENDS EmailSync, FiniteSetTheorems, TLAPS

(* Part 1.  The types, and the shape of the tasks: a child has one of the account's
   mailboxes, a watchdog all of them; mailboxes of others have no checkpoint that is
   completed. *)
Steps == {"queued", "enqueue", "list", "fetch", "complete", "process", "recheck",
          "finish", "plan", "embed", "persist"}
Kinds == {"signal", "parent", "child", "watchdog", "callback", "index", "retry",
          "login", "disconnect"}

TaskShape(t) ==
    /\ t.kind = "child" => \E m \in boxes[t.acct] : t.of = {m}
    /\ t.kind = "watchdog" => t.of = boxes[t.acct]
    /\ Indexes(t) => t.of \subseteq Mailbox
    /\ t.kind = "disconnect" => "disconnect" \in happened

TaskTypes == \A t \in tasks : t \in Tasks /\ t.copy <= faults /\ TaskShape(t)

AccountTypes ==
    /\ boxes \in [Account -> SUBSET Mailbox]
    /\ linked \in [Account -> BOOLEAN]
    /\ cancel \in [Account -> BOOLEAN]
    /\ bar \in [Account -> {"idle", "active", "ok", "failed"}]
    /\ key \in BOOLEAN
    /\ sparse \subseteq Account
    /\ overtaken \in [Account -> SUBSET Mailbox]

MailTypes ==
    /\ cp \in [Account -> [Mailbox -> {"none", "in_progress", "completed"}]]
    /\ \A a \in Account : Completed(a) \subseteq boxes[a]
    /\ mail \in [Account -> SUBSET Mailbox]
    /\ chunks \in [Account -> SUBSET Mailbox]
    /\ indexing \in [Account -> {"none", "pending", "complete"}]

CounterTypes ==
    /\ syncs \in 0..MaxSyncs
    /\ runs \in [Account -> 0..MaxSyncs]
    /\ \A a \in Account : runs[a] <= syncs
    /\ settled \in [Account -> BOOLEAN]
    /\ faults \in 0..MaxFaults
    /\ happened \subseteq Faults \cup {"stall", "cleared", "waived"}

TypeInv == TaskTypes /\ AccountTypes /\ MailTypes /\ CounterTypes

LEMMA TypeInvTypes ==
    ASSUME TypeInv
    PROVE  EmailTypeOK
BY DEF TypeInv, TaskTypes, AccountTypes, MailTypes, CounterTypes, EmailTypeOK

(* What a new task is, and one that goes on. *)
LEMMA NewTaskIs ==
    ASSUME NEW kind \in Kinds, NEW a \in Account, NEW serial \in 0..MaxSyncs,
           NEW copy \in 0..MaxFaults, NEW of \in SUBSET (Mailbox \cup Account)
    PROVE  /\ NewTask(kind, a, serial, copy, of) \in Tasks
           /\ NewTask(kind, a, serial, copy, of).kind = kind
           /\ NewTask(kind, a, serial, copy, of).acct = a
           /\ NewTask(kind, a, serial, copy, of).copy = copy
           /\ NewTask(kind, a, serial, copy, of).of = of
           /\ NewTask(kind, a, serial, copy, of).writes = {}
           /\ NewTask(kind, a, serial, copy, of).at = "queued"
<1> DEFINE new == [kind |-> kind, acct |-> a, serial |-> serial, copy |-> copy, of |-> of,
                   writes |-> {}, polls |-> 0, at |-> "queued"]
<1>1. NewTask(kind, a, serial, copy, of) = new
  BY DEF NewTask
<1>2. 0 \in 0..MaxPolls
  BY EmailAssumption
<1>3. new \in Tasks
  BY <1>2 DEF Tasks, Kinds
<1>4. /\ new.kind = kind /\ new.acct = a /\ new.copy = copy /\ new.of = of
      /\ new.writes = {} /\ new.at = "queued"
  OBVIOUS
<1> HIDE DEF new
<1> QED BY <1>1, <1>3, <1>4

LEMMA TaskFields ==
    ASSUME NEW t \in Tasks
    PROVE  /\ t.kind \in Kinds /\ t.acct \in Account /\ t.serial \in 0..MaxSyncs
           /\ t.copy \in 0..MaxFaults /\ t.copy \in Nat /\ t.of \in SUBSET (Mailbox \cup Account)
           /\ t.writes \in SUBSET Mailbox /\ t.polls \in 0..MaxPolls /\ t.at \in Steps
<1>1. t.copy \in 0..MaxFaults
  BY DEF Tasks
<1>2. t.copy \in Nat
  BY <1>1, EmailAssumption
<1> QED BY <1>1, <1>2 DEF Tasks, Kinds, Steps

Like(u, t) == u.kind = t.kind /\ u.acct = t.acct /\ u.copy = t.copy

(* A task that goes on is the same task. *)
LEMMA MovedTask ==
    ASSUME NEW t \in Tasks, NEW step \in Steps, NEW u, u = [t EXCEPT !.at = step]
    PROVE  u \in Tasks /\ Like(u, t) /\ u.of = t.of /\ u.writes = t.writes /\ u.at = step
BY DEF Tasks, Steps, Like

LEMMA PolledTask ==
    ASSUME NEW t \in Tasks, NEW polls \in 0..MaxPolls, NEW u, u = [t EXCEPT !.polls = polls]
    PROVE  u \in Tasks /\ Like(u, t) /\ u.of = t.of /\ u.writes = t.writes /\ u.at = t.at
BY DEF Tasks, Like

Moves(t, u) == u \in Tasks /\ Like(u, t) /\ tasks' = (tasks \ {t}) \cup {u}

LEMMA GoesMoves ==
    ASSUME TaskTypes, NEW t \in tasks, NEW step \in Steps, Goes(t, step)
    PROVE  \E u : Moves(t, u) /\ u.of = t.of /\ u.writes = t.writes /\ u.at = step
<1> PICK u : u = [t EXCEPT !.at = step]
  OBVIOUS
<1>1. u \in Tasks /\ Like(u, t) /\ u.of = t.of /\ u.writes = t.writes /\ u.at = step
  BY MovedTask DEF TaskTypes
<1>2. tasks' = (tasks \ {t}) \cup {u}
  BY DEF Goes, Becomes
<1> QED BY <1>1, <1>2 DEF Moves

LEMMA WatchdogMoves ==
    ASSUME TaskTypes, NEW t \in tasks, WatchdogPolls(t)
    PROVE  \E u : Moves(t, u) /\ u.of = t.of /\ u.writes = t.writes /\ u.at = t.at
<1>1. t.polls + 1 \in 0..MaxPolls
  <2>1. t.polls \in 0..MaxPolls /\ t.polls < MaxPolls /\ MaxPolls \in Nat
    BY TaskFields, EmailAssumption DEF TaskTypes, WatchdogPolls
  <2> QED BY <2>1
<1> PICK u : u = [t EXCEPT !.polls = t.polls + 1]
  OBVIOUS
<1>2. u \in Tasks /\ Like(u, t) /\ u.of = t.of /\ u.writes = t.writes /\ u.at = t.at
  BY <1>1, PolledTask DEF TaskTypes
<1>3. tasks' = (tasks \ {t}) \cup {u}
  BY DEF WatchdogPolls, Becomes
<1> QED BY <1>2, <1>3 DEF Moves

(* An indexing job narrows down what it still has to persist. *)
LEMMA PlanMoves ==
    ASSUME TypeInv, NEW t \in tasks, IndexPlans(t)
    PROVE  \E u : /\ Moves(t, u) /\ u.writes = t.writes /\ u.at = "embed"
                  /\ u.of = mail[t.acct] \ chunks[t.acct]
<1>1. t \in Tasks /\ mail[t.acct] \subseteq Mailbox
  BY TaskFields DEF TypeInv, TaskTypes, MailTypes
<1> PICK of : of = mail[t.acct] \ chunks[t.acct]
  OBVIOUS
<1> PICK u : u = [t EXCEPT !.at = "embed", !.of = of]
  OBVIOUS
<1>2. of \in SUBSET (Mailbox \cup Account)
  BY <1>1
<1>3. u \in Tasks /\ Like(u, t) /\ u.of = of /\ u.writes = t.writes /\ u.at = "embed"
  BY <1>1, <1>2 DEF Tasks, Like
<1>4. tasks' = (tasks \ {t}) \cup {u}
  BY DEF IndexPlans, Becomes
<1> QED BY <1>3, <1>4 DEF Moves

LEMMA FetchMoves ==
    ASSUME TypeInv, NEW t \in tasks, IndexFetches(t)
    PROVE  \E u : /\ Moves(t, u) /\ u.writes = t.writes /\ u.at = "persist"
                  /\ u.of = IF cancel[t.acct] THEN {} ELSE t.of \cap mail[t.acct]
<1>1. t \in Tasks /\ t.of \in SUBSET (Mailbox \cup Account)
  BY TaskFields DEF TypeInv, TaskTypes
<1> PICK of : of = IF cancel[t.acct] THEN {} ELSE t.of \cap mail[t.acct]
  OBVIOUS
<1> PICK u : u = [t EXCEPT !.at = "persist", !.of = of]
  OBVIOUS
<1>2. of \in SUBSET (Mailbox \cup Account)
  BY <1>1
<1>3. u \in Tasks /\ Like(u, t) /\ u.of = of /\ u.writes = t.writes /\ u.at = "persist"
  BY <1>1, <1>2 DEF Tasks, Like
<1>4. tasks' = (tasks \ {t}) \cup {u}
  BY DEF IndexFetches, Becomes
<1> QED BY <1>3, <1>4 DEF Moves

LEMMA WritesMoves ==
    ASSUME TypeInv, NEW t \in tasks, NEW m \in t.of, IndexWrites(t, m)
    PROVE  \E u : /\ Moves(t, u) /\ u.of = t.of \ {m} /\ u.at = t.at
                  /\ u.writes = IF cancel[t.acct] THEN t.writes ELSE t.writes \cup {m}
<1>1. t \in Tasks /\ t.of \in SUBSET (Mailbox \cup Account) /\ t.writes \in SUBSET Mailbox
  BY TaskFields DEF TypeInv, TaskTypes
<1>2. m \in Mailbox
  BY DEF IndexWrites, TypeInv, TaskTypes, TaskShape
<1> PICK of : of = t.of \ {m}
  OBVIOUS
<1> PICK writes : writes = t.writes \cup {m}
  OBVIOUS
<1>3. of \in SUBSET (Mailbox \cup Account) /\ writes \in SUBSET Mailbox
  BY <1>1, <1>2
<1>4. CASE cancel[t.acct]
  <2> PICK u : u = [t EXCEPT !.of = of]
    OBVIOUS
  <2>1. u \in Tasks /\ Like(u, t) /\ u.of = of /\ u.writes = t.writes /\ u.at = t.at
    BY <1>1, <1>3 DEF Tasks, Like
  <2>2. tasks' = (tasks \ {t}) \cup {u}
    BY <1>4 DEF IndexWrites, Becomes
  <2> QED BY <1>4, <2>1, <2>2 DEF Moves
<1>5. CASE ~cancel[t.acct]
  <2> PICK u : u = [t EXCEPT !.of = of, !.writes = writes]
    OBVIOUS
  <2>1. u \in Tasks /\ Like(u, t) /\ u.of = of /\ u.writes = writes /\ u.at = t.at
    BY <1>1, <1>3 DEF Tasks, Like
  <2>2. tasks' = (tasks \ {t}) \cup {u}
    BY <1>5 DEF IndexWrites, Becomes
  <2> QED BY <1>5, <2>1, <2>2 DEF Moves
<1> QED BY <1>4, <1>5

LEMMA CommitMoves ==
    ASSUME TypeInv, NEW t \in tasks, NEW m, IndexCommits(t, m)
    PROVE  \E u : /\ Moves(t, u) /\ u.of = t.of /\ u.at = t.at
                  /\ u.writes = t.writes \ {m}
<1>1. t \in Tasks /\ t.writes \in SUBSET Mailbox
  BY TaskFields DEF TypeInv, TaskTypes
<1> PICK writes : writes = t.writes \ {m}
  OBVIOUS
<1> PICK u : u = [t EXCEPT !.writes = writes]
  OBVIOUS
<1>2. writes \in SUBSET Mailbox
  BY <1>1
<1>3. u \in Tasks /\ Like(u, t) /\ u.of = t.of /\ u.writes = writes /\ u.at = t.at
  BY <1>1, <1>2 DEF Tasks, Like
<1>4. tasks' = (tasks \ {t}) \cup {u}
  BY DEF IndexCommits, Becomes
<1> QED BY <1>3, <1>4 DEF Moves

LEMMA SwallowMoves ==
    ASSUME TypeInv, NEW t \in tasks, NEW m, IndexSwallows(t, m)
    PROVE  \E u : /\ Moves(t, u) /\ u.of = t.of \ {m} /\ u.at = t.at
                  /\ u.writes = t.writes \ {m}
<1>1. t \in Tasks /\ t.of \in SUBSET (Mailbox \cup Account) /\ t.writes \in SUBSET Mailbox
  BY TaskFields DEF TypeInv, TaskTypes
<1> PICK of : of = t.of \ {m}
  OBVIOUS
<1> PICK writes : writes = t.writes \ {m}
  OBVIOUS
<1> PICK u : u = [t EXCEPT !.of = of, !.writes = writes]
  OBVIOUS
<1>2. of \in SUBSET (Mailbox \cup Account) /\ writes \in SUBSET Mailbox
  BY <1>1
<1>3. u \in Tasks /\ Like(u, t) /\ u.of = of /\ u.writes = writes /\ u.at = t.at
  BY <1>1, <1>2 DEF Tasks, Like
<1>4. tasks' = (tasks \ {t}) \cup {u}
  BY DEF IndexSwallows, Becomes
<1> QED BY <1>3, <1>4 DEF Moves

(* What a task leaves behind when it ends. *)
LEMMA RetriesAre ==
    ASSUME TypeInv, NEW t \in tasks, NEW u \in Retries(t)
    PROVE  /\ u \in Tasks /\ u.kind = "retry" /\ u.copy = t.copy /\ u.at = "queued"
           /\ u.of = {} /\ u.writes = {} /\ u.acct \in Account
           /\ indexing[u.acct] = "pending" /\ linked[u.acct]
<1>1. PICK a \in Account : /\ indexing[a] = "pending" /\ linked[a]
                           /\ u = NewTask("retry", a, t.serial, t.copy, {})
  BY DEF Retries
<1>2. t.serial \in 0..MaxSyncs /\ t.copy \in 0..MaxFaults
  BY TaskFields DEF TypeInv, TaskTypes
<1> QED BY <1>1, <1>2, NewTaskIs DEF Kinds

LEMMA SignalTasks ==
    ASSUME TypeInv, NEW t \in tasks, SignalEnqueues(t)
    PROVE  \E u \in Tasks : /\ u.kind = "parent" /\ u.acct = t.acct /\ u.copy = 0
                            /\ u.of = {} /\ u.writes = {} /\ u.at = "queued"
                            /\ tasks' = (tasks \ {t}) \cup {u} \cup Retries(t)
<1>1. t.serial \in 0..MaxSyncs /\ t.acct \in Account /\ 0 \in 0..MaxFaults
  BY TaskFields, EmailAssumption DEF TypeInv, TaskTypes
<1> PICK u : u = NewTask("parent", t.acct, t.serial, 0, {})
  OBVIOUS
<1>2. /\ u \in Tasks /\ u.kind = "parent" /\ u.acct = t.acct /\ u.copy = 0
      /\ u.of = {} /\ u.writes = {} /\ u.at = "queued"
  BY <1>1, NewTaskIs DEF Kinds
<1>3. tasks' = (tasks \ {t}) \cup {u} \cup Retries(t)
  BY DEF SignalEnqueues, Becomes
<1> QED BY <1>2, <1>3

(* The children of a parent. *)
AreChildren(t, C) ==
    /\ C \subseteq Tasks
    /\ \A u \in C : /\ u.kind = "child" /\ u.acct = t.acct /\ u.copy = t.copy
                     /\ u.writes = {} /\ u.at = "queued"
                     /\ \E m \in boxes[t.acct] : u.of = {m}

LEMMA ChildrenAre ==
    ASSUME TypeInv, NEW t \in tasks, NEW some \in SUBSET boxes[t.acct]
    PROVE  AreChildren(t, Children(t, some))
<1>1. /\ t.serial \in 0..MaxSyncs /\ t.acct \in Account /\ t.copy \in 0..MaxFaults
      /\ boxes[t.acct] \subseteq Mailbox
  BY TaskFields DEF TypeInv, TaskTypes, AccountTypes
<1>2. ASSUME NEW m \in boxes[t.acct], NEW u, u = NewTask("child", t.acct, t.serial, t.copy, {m})
      PROVE  /\ u \in Tasks /\ u.kind = "child" /\ u.acct = t.acct /\ u.copy = t.copy
             /\ u.writes = {} /\ u.at = "queued" /\ u.of = {m}
  BY <1>1, <1>2, NewTaskIs DEF Kinds
<1>3. ASSUME NEW u \in Children(t, some)
      PROVE  /\ u \in Tasks /\ u.kind = "child" /\ u.acct = t.acct /\ u.copy = t.copy
             /\ u.writes = {} /\ u.at = "queued"
             /\ \E m \in boxes[t.acct] : u.of = {m}
  <2> PICK m \in some : u = NewTask("child", t.acct, t.serial, t.copy, {m})
    BY DEF Children
  <2> QED BY <1>2
<1> QED BY <1>3 DEF AreChildren

LEMMA ParentTasks ==
    ASSUME TypeInv, NEW t \in tasks, ParentDispatches(t)
    PROVE  \E w \in Tasks, C \in SUBSET Tasks :
              /\ w.kind = "watchdog" /\ w.acct = t.acct /\ w.copy = t.copy
              /\ w.of = boxes[t.acct] /\ w.writes = {} /\ w.at = "queued"
              /\ AreChildren(t, C)
              /\ tasks' = (tasks \ {t}) \cup C \cup {w}
<1>1. /\ t.serial \in 0..MaxSyncs /\ t.acct \in Account /\ t.copy \in 0..MaxFaults
      /\ boxes[t.acct] \subseteq Mailbox
  BY TaskFields DEF TypeInv, TaskTypes, AccountTypes
<1> PICK w : w = NewTask("watchdog", t.acct, t.serial, t.copy, boxes[t.acct])
  OBVIOUS
<1>2. /\ w \in Tasks /\ w.kind = "watchdog" /\ w.acct = t.acct /\ w.copy = t.copy
      /\ w.of = boxes[t.acct] /\ w.writes = {} /\ w.at = "queued"
  BY <1>1, NewTaskIs DEF Kinds
<1> PICK C : C = Children(t, boxes[t.acct])
  OBVIOUS
<1>3. AreChildren(t, C)
  BY ChildrenAre
<1>4. tasks' = (tasks \ {t}) \cup C \cup {w}
  BY DEF ParentDispatches, Becomes
<1> QED BY <1>2, <1>3, <1>4 DEF AreChildren

LEMMA WatchdogTasks ==
    ASSUME TypeInv, NEW t \in tasks, WatchdogDispatches(t)
    PROVE  \E u \in Tasks : /\ u.kind = "callback" /\ u.acct = t.acct /\ u.copy = t.copy
                            /\ u.writes = {} /\ u.at = "queued"
                            /\ tasks' = (tasks \ {t}) \cup {u}
<1>1. /\ t.serial \in 0..MaxSyncs /\ t.acct \in Account /\ t.copy \in 0..MaxFaults
      /\ t.of \in SUBSET (Mailbox \cup Account)
  BY TaskFields DEF TypeInv, TaskTypes
<1> PICK u : u = NewTask("callback", t.acct, t.serial, t.copy, t.of)
  OBVIOUS
<1>2. /\ u \in Tasks /\ u.kind = "callback" /\ u.acct = t.acct /\ u.copy = t.copy
      /\ u.writes = {} /\ u.at = "queued"
  BY <1>1, NewTaskIs DEF Kinds
<1>3. tasks' = (tasks \ {t}) \cup {u}
  BY DEF WatchdogDispatches, Becomes
<1> QED BY <1>2, <1>3

LEMMA CallbackTasks ==
    ASSUME TypeInv, NEW t \in tasks, CallbackEnqueues(t)
    PROVE  \E u \in Tasks, v \in Tasks :
              /\ Like(u, t) /\ u.of = t.of /\ u.writes = t.writes /\ u.at = "finish"
              /\ v.kind = "index" /\ v.acct = t.acct /\ v.copy = t.copy
              /\ v.of = {} /\ v.writes = {} /\ v.at = "queued"
              /\ tasks' = (tasks \ {t}) \cup {u, v}
<1>1. t.serial \in 0..MaxSyncs /\ t.acct \in Account /\ t.copy \in 0..MaxFaults /\ t \in Tasks
  BY TaskFields DEF TypeInv, TaskTypes
<1> PICK u : u = [t EXCEPT !.at = "finish"]
  OBVIOUS
<1> PICK v : v = NewTask("index", t.acct, t.serial, t.copy, {})
  OBVIOUS
<1>2. u \in Tasks /\ Like(u, t) /\ u.of = t.of /\ u.writes = t.writes /\ u.at = "finish"
  BY <1>1, MovedTask DEF Steps
<1>3. /\ v \in Tasks /\ v.kind = "index" /\ v.acct = t.acct /\ v.copy = t.copy
      /\ v.of = {} /\ v.writes = {} /\ v.at = "queued"
  BY <1>1, NewTaskIs DEF Kinds
<1>4. tasks' = (tasks \ {t}) \cup {u, v}
  BY DEF CallbackEnqueues, Becomes
<1> QED BY <1>2, <1>3, <1>4

(* A task that is stopped leaves what takes its place, and a parent some children. *)
LEMMA LeavesTasks ==
    ASSUME TypeInv, NEW t \in tasks, NEW new, Leaves(t, new)
    PROVE  \E C \in SUBSET Tasks :
              /\ AreChildren(t, C) /\ (C # {} => Is(t, "parent", "list"))
              /\ tasks' = (tasks \ {t}) \cup new \cup C
<1>1. CASE Becomes(t, new)
  <2>1. AreChildren(t, {})
    BY DEF AreChildren
  <2>2. tasks' = (tasks \ {t}) \cup new \cup {}
    BY <1>1 DEF Becomes
  <2> QED BY <2>1, <2>2
<1>2. ASSUME NEW some \in SUBSET boxes[t.acct], Becomes(t, new \cup Children(t, some)),
             Is(t, "parent", "list")
      PROVE  \E C \in SUBSET Tasks :
                /\ AreChildren(t, C) /\ (C # {} => Is(t, "parent", "list"))
                /\ tasks' = (tasks \ {t}) \cup new \cup C
  <2> PICK C : C = Children(t, some)
    OBVIOUS
  <2>1. AreChildren(t, C)
    BY ChildrenAre
  <2>2. C \in SUBSET Tasks
    BY <2>1 DEF AreChildren
  <2>3. tasks' = (tasks \ {t}) \cup new \cup C
    BY <1>2 DEF Becomes
  <2> QED BY <1>2, <2>1, <2>2, <2>3
<1> QED BY <1>1, <1>2 DEF Leaves

Again(t, u) ==
    /\ u \in Tasks /\ u.kind = t.kind /\ u.acct = t.acct /\ u.copy = t.copy + 1
    /\ u.of = (IF Indexes(t) THEN {} ELSE t.of) /\ u.writes = {} /\ u.at = "queued"

LEMMA CrashTasks ==
    ASSUME TypeInv, NEW t \in tasks, Dies(t)
    PROVE  \E N, C \in SUBSET Tasks :
              /\ IF InServer(t) THEN N = {} ELSE t.at # "queued" /\ \E u : N = {u} /\ Again(t, u)
              /\ AreChildren(t, C) /\ (C # {} => Is(t, "parent", "list"))
              /\ tasks' = (tasks \ {t}) \cup N \cup C
<1>1. CASE InServer(t)
  <2>1. Leaves(t, {})
    BY <1>1 DEF Dies
  <2>2. {} \in SUBSET Tasks
    OBVIOUS
  <2> QED BY <1>1, <2>1, <2>2, LeavesTasks
<1>2. CASE ~InServer(t)
  <2> PICK of : of = IF Indexes(t) THEN {} ELSE t.of
    OBVIOUS
  <2> PICK copy : copy = t.copy + 1
    OBVIOUS
  <2>1. t \in Tasks /\ t.copy \in Nat /\ t.copy <= faults /\ of \in SUBSET (Mailbox \cup Account)
    BY TaskFields DEF TypeInv, TaskTypes
  <2>2. copy \in 0..MaxFaults
    BY <2>1, EmailAssumption DEF Dies, Happens, TypeInv, CounterTypes
  <2> PICK u : u = [t EXCEPT !.at = "queued", !.copy = copy, !.writes = {}, !.of = of]
    OBVIOUS
  <2>3. /\ u \in Tasks /\ u.kind = t.kind /\ u.acct = t.acct /\ u.copy = copy
        /\ u.of = of /\ u.writes = {} /\ u.at = "queued"
    BY <2>1, <2>2 DEF Tasks
  <2>4. Leaves(t, {u}) /\ t.at # "queued"
    BY <1>2 DEF Dies
  <2>5. Again(t, u) /\ {u} \in SUBSET Tasks
    BY <2>3 DEF Again
  <2>6. PICK C \in SUBSET Tasks :
              /\ AreChildren(t, C) /\ (C # {} => Is(t, "parent", "list"))
              /\ tasks' = (tasks \ {t}) \cup {u} \cup C
    BY <2>4, LeavesTasks
  <2> QED BY <1>2, <2>4, <2>5, <2>6
<1> QED BY <1>1, <1>2

LEMMA StoppedTasks ==
    ASSUME TypeInv, NEW t \in tasks, IsKilled(t) \/ Raises(t)
    PROVE  \E C \in SUBSET Tasks :
              /\ AreChildren(t, C) /\ (C # {} => Is(t, "parent", "list"))
              /\ tasks' = (tasks \ {t}) \cup C
<1>1. Leaves(t, {})
  BY DEF IsKilled, Raises
<1>2. PICK C \in SUBSET Tasks :
              /\ AreChildren(t, C) /\ (C # {} => Is(t, "parent", "list"))
              /\ tasks' = (tasks \ {t}) \cup {} \cup C
  BY <1>1, LeavesTasks
<1> QED BY <1>2

(* A sync, a login or a disconnect begins. *)
LEMMA BeginTasks ==
    ASSUME TypeInv, NEW kind \in Kinds, NEW concerned, NEW a \in Account,
           Begins(kind, concerned, a, {})
    PROVE  /\ \E u \in Tasks : /\ u.kind = kind /\ u.acct = a /\ u.copy = 0 /\ u.of = {}
                               /\ u.writes = {} /\ u.at = "queued" /\ tasks' = tasks \cup {u}
           /\ syncs' = syncs + 1 /\ syncs' \in 0..MaxSyncs
           /\ runs' \in [Account -> 0..MaxSyncs] /\ \A b \in Account : runs'[b] <= syncs'
           /\ \A b \in Account : runs'[b] = IF b \in concerned THEN runs[b] + 1 ELSE runs[b]
<1>1. syncs \in 0..MaxSyncs /\ syncs < MaxSyncs /\ MaxSyncs \in Nat /\ syncs' = syncs + 1
  BY EmailAssumption DEF TypeInv, CounterTypes, Begins
<1>2. 0 \in 0..MaxFaults
  BY EmailAssumption
<1> PICK u : u = NewTask(kind, a, syncs, 0, {})
  OBVIOUS
<1>3. /\ u \in Tasks /\ u.kind = kind /\ u.acct = a /\ u.copy = 0 /\ u.of = {}
      /\ u.writes = {} /\ u.at = "queued"
  BY <1>1, <1>2, NewTaskIs
<1>4. tasks' = tasks \cup {u}
  BY DEF Begins
<1>5. \A b \in Account : runs[b] \in 0..MaxSyncs /\ runs[b] <= syncs
  BY DEF TypeInv, CounterTypes
<1>6. runs' = [b \in Account |-> IF b \in concerned THEN runs[b] + 1 ELSE runs[b]]
  BY DEF Begins
<1>7. \A b \in Account : /\ runs'[b] = IF b \in concerned THEN runs[b] + 1 ELSE runs[b]
                         /\ runs'[b] \in 0..MaxSyncs /\ runs'[b] <= syncs'
  BY <1>1, <1>5, <1>6
<1>8. runs' \in [Account -> 0..MaxSyncs]
  BY <1>6, <1>7
<1> QED BY <1>1, <1>3, <1>4, <1>7, <1>8

LEMMA DisconnectTasks ==
    ASSUME TypeInv, NEW a \in Account, Disconnect(a)
    PROVE  \E u \in Tasks : /\ u.kind = "disconnect" /\ u.acct = a /\ u.copy = 0
                            /\ u.of = {b \in Account : linked[b]}
                            /\ u.writes = {} /\ u.at = "queued" /\ tasks' = tasks \cup {u}
<1>1. syncs \in 0..MaxSyncs /\ 0 \in 0..MaxFaults
  BY EmailAssumption DEF TypeInv, CounterTypes
<1> PICK u : u = NewTask("disconnect", a, syncs, 0, {b \in Account : linked[b]})
  OBVIOUS
<1>2. /\ u \in Tasks /\ u.kind = "disconnect" /\ u.acct = a /\ u.copy = 0
      /\ u.of = {b \in Account : linked[b]} /\ u.writes = {} /\ u.at = "queued"
  BY <1>1, NewTaskIs DEF Kinds
<1> QED BY <1>2 DEF Disconnect

(* The steps of TaskStep, by the task that takes them. *)
StartStep(t) == SignalEnqueues(t) \/ LoginEnqueues(t)
ParentStep(t) ==
    \/ ParentSkips(t) \/ ParentFindsDeleted(t) \/ ParentBegins(t)
    \/ ParentFindsNoMailboxes(t) \/ ParentDispatches(t)
ChildStep(t) ==
    \/ ChildAlreadyDone(t) \/ ChildFindsNoKey(t) \/ ChildBegins(t)
    \/ ChildFetches(t) \/ ChildCompletes(t)
WatchdogStep(t) ==
    WatchdogStops(t) \/ WatchdogDispatches(t) \/ WatchdogPolls(t) \/ WatchdogGivesUp(t)
CallbackStep(t) ==
    \/ CallbackFindsNoKey(t) \/ CallbackBegins(t) \/ CallbackProcesses(t)
    \/ CallbackFindsGone(t) \/ CallbackCommits(t) \/ CallbackEnqueues(t)
    \/ CallbackFinishes(t)
IndexStep(t) ==
    \/ IndexFindsNoKey(t) \/ IndexTakesKey(t) \/ IndexFindsNothing(t)
    \/ IndexPlans(t) \/ IndexFetches(t) \/ IndexEnds(t)
    \/ (\E m \in t.of : IndexWrites(t, m)) \/ (\E m \in t.writes : IndexCommits(t, m))

LEMMA TaskSteps ==
    ASSUME NEW t, TaskStep(t)
    PROVE  \/ StartStep(t) \/ ParentStep(t) \/ ChildStep(t) \/ WatchdogStep(t)
           \/ CallbackStep(t) \/ IndexStep(t) \/ DisconnectCommits(t)
BY DEF TaskStep, StartStep, ParentStep, ChildStep, WatchdogStep, CallbackStep, IndexStep

LEMMA TasksTyped ==
    ASSUME TypeInv, UNCHANGED boxes, faults \in Nat, faults' \in Nat, faults <= faults',
           happened \subseteq happened',
           \A u \in tasks' : u \in tasks \/ (u \in Tasks /\ u.copy <= faults' /\ TaskShape(u))
    PROVE  TaskTypes'
<1> SUFFICES ASSUME NEW u \in tasks'
             PROVE  u \in Tasks /\ u.copy <= faults' /\ TaskShape(u)'
  BY DEF TaskTypes
<1>1. u \in Tasks /\ u.copy <= faults' /\ TaskShape(u)
  <2>1. CASE u \in tasks
    <3>1. u \in Tasks /\ u.copy <= faults /\ TaskShape(u)
      BY <2>1 DEF TypeInv, TaskTypes
    <3>2. u.copy \in Nat
      BY <3>1, TaskFields
    <3> QED BY <3>1, <3>2
  <2>2. CASE u \notin tasks
    BY <2>2
  <2> QED BY <2>1, <2>2
<1>2. TaskShape(u)'
  BY <1>1 DEF TaskShape, Indexes
<1> QED BY <1>1, <1>2

(* The shape of a task does not depend on the step it is at. *)
LEMMA SameShape ==
    ASSUME NEW t, NEW u, TaskShape(t), u.kind = t.kind, u.acct = t.acct, u.of = t.of
    PROVE  TaskShape(u)
BY DEF TaskShape, Indexes

(* What a task adds to the queue besides itself: tasks of its own mailboxes. *)
LEMMA TaskStepTasks ==
    ASSUME TypeInv, NEW t \in tasks, TaskStep(t), NEW u \in tasks', u \notin tasks
    PROVE  u \in Tasks /\ u.copy <= faults /\ TaskShape(u)
<1>1. t \in Tasks /\ t.copy <= faults /\ TaskShape(t) /\ 0 <= faults /\ t.of \in SUBSET (Mailbox \cup Account)
  BY EmailAssumption, TaskFields DEF TypeInv, TaskTypes, CounterTypes
<1>2. ASSUME NEW v, Moves(t, v), TaskShape(v)
      PROVE  u \in Tasks /\ u.copy <= faults /\ TaskShape(u)
  BY <1>1, <1>2 DEF Moves, Like
<1>3. ASSUME NEW step \in Steps, Goes(t, step)
      PROVE  u \in Tasks /\ u.copy <= faults /\ TaskShape(u)
  <2>1. PICK v : Moves(t, v) /\ v.of = t.of
    BY <1>3, GoesMoves DEF TypeInv
  <2>2. TaskShape(v)
    BY <1>1, <2>1, SameShape DEF Moves, Like
  <2> QED BY <1>2, <2>1, <2>2
<1>4. ASSUME u \in Retries(t)
      PROVE  u \in Tasks /\ u.copy <= faults /\ TaskShape(u)
  BY <1>1, <1>4, RetriesAre DEF TaskShape
<1>5. CASE StartStep(t)
  <2>1. CASE SignalEnqueues(t)
    BY <1>1, <1>4, <2>1, SignalTasks DEF TaskShape, Indexes
  <2>2. CASE LoginEnqueues(t)
    BY <1>4, <2>2 DEF LoginEnqueues, Becomes
  <2> QED BY <1>5, <2>1, <2>2 DEF StartStep
<1>6. CASE ParentStep(t)
  <2>1. CASE ParentBegins(t)
    BY <1>3, <2>1 DEF ParentBegins, Steps
  <2>2. CASE ParentDispatches(t)
    <3>1. PICK w \in Tasks, C \in SUBSET Tasks :
              /\ w.kind = "watchdog" /\ w.acct = t.acct /\ w.copy = t.copy
              /\ w.of = boxes[t.acct] /\ AreChildren(t, C)
              /\ tasks' = (tasks \ {t}) \cup C \cup {w}
      BY <2>2, ParentTasks
    <3> QED BY <1>1, <3>1 DEF TaskShape, Indexes, AreChildren
  <2> QED BY <1>6, <2>1, <2>2 DEF ParentStep, ParentSkips, ParentFindsDeleted,
            ParentFindsNoMailboxes, Ends, Becomes
<1>7. CASE ChildStep(t)
  <2>1. CASE ChildBegins(t) \/ ChildFetches(t)
    BY <1>3, <2>1 DEF ChildBegins, ChildFetches, Steps
  <2> QED BY <1>7, <2>1 DEF ChildStep, ChildAlreadyDone, ChildFindsNoKey,
            ChildCompletes, Ends, Becomes
<1>8. CASE WatchdogStep(t)
  <2>1. CASE WatchdogDispatches(t)
    BY <1>1, <2>1, WatchdogTasks DEF TaskShape, Indexes
  <2>2. CASE WatchdogPolls(t)
    <3>1. PICK v : Moves(t, v) /\ v.of = t.of
      BY <2>2, WatchdogMoves DEF TypeInv
    <3>2. TaskShape(v)
      BY <1>1, <3>1, SameShape DEF Moves, Like
    <3> QED BY <1>2, <3>1, <3>2
  <2> QED BY <1>8, <2>1, <2>2 DEF WatchdogStep, WatchdogStops, WatchdogGivesUp, Ends, Becomes
<1>9. CASE CallbackStep(t)
  <2>1. CASE CallbackBegins(t) \/ CallbackProcesses(t) \/ CallbackCommits(t)
    BY <1>3, <2>1 DEF CallbackBegins, CallbackProcesses, CallbackCommits, Steps
  <2>2. CASE CallbackEnqueues(t)
    <3>1. PICK v \in Tasks, w \in Tasks :
              /\ Like(v, t) /\ v.of = t.of
              /\ w.kind = "index" /\ w.acct = t.acct /\ w.copy = t.copy /\ w.of = {}
              /\ tasks' = (tasks \ {t}) \cup {v, w}
      BY <2>2, CallbackTasks
    <3>2. TaskShape(v) /\ TaskShape(w)
      BY <1>1, <3>1, SameShape DEF Like, TaskShape
    <3> QED BY <1>1, <3>1, <3>2 DEF Like
  <2> QED BY <1>9, <2>1, <2>2 DEF CallbackStep, CallbackFindsNoKey, CallbackFindsGone,
            CallbackFinishes, Ends, Becomes
<1>10. CASE IndexStep(t)
  <2>1. CASE IndexTakesKey(t)
    BY <1>3, <2>1 DEF IndexTakesKey, Ends, Becomes, Steps
  <2>2. CASE \/ IndexPlans(t) \/ IndexFetches(t) \/ \E m \in t.of : IndexWrites(t, m)
             \/ \E m \in t.writes : IndexCommits(t, m)
    <3>1. Indexes(t) /\ t.of \subseteq Mailbox /\ t.acct \in Account
      BY <1>1, <2>2, TaskFields DEF IndexPlans, IndexFetches, IndexWrites, IndexCommits, TaskShape
    <3>2. PICK v : Moves(t, v) /\ v.of \subseteq Mailbox
      <4>1. CASE IndexPlans(t)
        <5>1. PICK v : Moves(t, v) /\ v.of = mail[t.acct] \ chunks[t.acct]
          BY <4>1, PlanMoves
        <5> QED BY <3>1, <5>1 DEF TypeInv, MailTypes
      <4>2. CASE IndexFetches(t)
        <5>1. PICK v : Moves(t, v) /\ v.of = IF cancel[t.acct] THEN {} ELSE t.of \cap mail[t.acct]
          BY <4>2, FetchMoves
        <5> QED BY <3>1, <5>1
      <4>3. ASSUME NEW m \in t.of, IndexWrites(t, m)
            PROVE  \E v : Moves(t, v) /\ v.of \subseteq Mailbox
        <5>1. PICK v : Moves(t, v) /\ v.of = t.of \ {m}
          BY <4>3, WritesMoves
        <5> QED BY <3>1, <5>1
      <4>4. ASSUME NEW m \in t.writes, IndexCommits(t, m)
            PROVE  \E v : Moves(t, v) /\ v.of \subseteq Mailbox
        <5>1. PICK v : Moves(t, v) /\ v.of = t.of
          BY <4>4, CommitMoves
        <5> QED BY <3>1, <5>1
      <4> QED BY <2>2, <4>1, <4>2, <4>3, <4>4
    <3>3. TaskShape(v)
      BY <3>1, <3>2 DEF Moves, Like, TaskShape, Indexes
    <3> QED BY <1>2, <3>2, <3>3
  <2> QED BY <1>10, <2>1, <2>2 DEF IndexStep, IndexFindsNoKey, IndexFindsNothing,
            IndexEnds, Ends, Becomes
<1>11. CASE DisconnectCommits(t)
  BY <1>11 DEF DisconnectCommits, Ends, Becomes
<1> QED BY <1>5, <1>6, <1>7, <1>8, <1>9, <1>10, <1>11, TaskSteps

(* A task never changes the mailboxes or the counters, and forgets nothing that
   happened. *)
LEMMA TaskStepKeeps ==
    ASSUME NEW t, TaskStep(t)
    PROVE  /\ UNCHANGED <<boxes, syncs, runs, faults>>
           /\ happened \subseteq happened' /\ happened' \subseteq happened \cup {"stall", "cleared", "waived"}
<1>1. CASE StartStep(t) \/ ParentStep(t)
  BY <1>1 DEF StartStep, SignalEnqueues, LoginEnqueues, ParentStep, ParentSkips, ParentFindsDeleted,
     ParentBegins, ParentFindsNoMailboxes, ParentDispatches, FinishSync, accountVars,
     startVars, faultVars
<1>2. CASE ChildStep(t) \/ WatchdogStep(t)
  BY <1>2 DEF ChildStep, ChildAlreadyDone, ChildFindsNoKey, ChildBegins, ChildFetches,
     ChildCompletes, WatchdogStep, WatchdogStops, WatchdogDispatches, WatchdogPolls,
     WatchdogGivesUp, FinishSync, accountVars, startVars, faultVars
<1>3. CASE CallbackStep(t)
  BY <1>3 DEF CallbackStep, CallbackFindsNoKey, CallbackBegins, CallbackProcesses,
     CallbackFindsGone, CallbackCommits, CallbackEnqueues, CallbackFinishes, FinishSync,
     accountVars, startVars, faultVars
<1>4. CASE IndexStep(t) \/ DisconnectCommits(t)
  BY <1>4 DEF IndexStep, IndexFindsNoKey, IndexTakesKey, IndexFindsNothing, IndexPlans,
     IndexFetches, IndexWrites, IndexCommits, IndexEnds, DisconnectCommits, accountVars, startVars,
     faultVars
<1> QED BY <1>1, <1>2, <1>3, <1>4, TaskSteps

(* The tasks and the counters stay what they are, whatever the environment does. *)
LEMMA EnvironmentKeeps ==
    ASSUME TypeInv, EmailEnvironment
    PROVE  /\ UNCHANGED boxes /\ faults \in Nat /\ faults' \in 0..MaxFaults /\ faults <= faults'
           /\ happened \subseteq happened'
           /\ happened' \subseteq Faults \cup {"stall", "cleared", "waived"}
<1>1. faults \in 0..MaxFaults /\ MaxFaults \in Nat /\ happened \subseteq Faults \cup {"stall", "cleared", "waived"}
  BY EmailAssumption DEF TypeInv, CounterTypes
<1>2. ASSUME NEW a \in Account, Connect(a) \/ BeatTick(a) \/ Disconnect(a)
      PROVE  /\ UNCHANGED boxes /\ faults' \in 0..MaxFaults /\ faults <= faults'
             /\ happened \subseteq happened' /\ happened' \subseteq Faults \cup {"stall", "cleared", "waived"}
  BY <1>1, <1>2 DEF Connect, BeatTick, Disconnect, Happens, FinishSync, accountVars, faultVars
<1>3. CASE LoginRecovers \/ KeyLapses
  BY <1>1, <1>3 DEF LoginRecovers, KeyLapses, Happens, accountVars, faultVars
<1>4. ASSUME NEW t \in tasks, Dies(t) \/ IsKilled(t) \/ Raises(t) \/ PipelineFails(t) \/ \E m \in Mailbox : IndexSwallows(t, m)
      PROVE  /\ UNCHANGED boxes /\ faults' \in 0..MaxFaults /\ faults <= faults'
             /\ happened \subseteq happened' /\ happened' \subseteq Faults \cup {"stall", "cleared", "waived"}
  <2>1. \A kind : Happens(kind) => /\ faults' \in 0..MaxFaults /\ faults <= faults'
                                   /\ happened \subseteq happened'
                                   /\ happened' \subseteq Faults \cup {"stall", "cleared", "waived"}
    BY <1>1 DEF Happens
  <2> QED BY <1>4, <2>1 DEF Dies, IsKilled, Raises, PipelineFails, IndexSwallows, accountVars
<1> QED BY <1>1, <1>2, <1>3, <1>4 DEF EmailEnvironment

LEMMA EnvironmentTasks ==
    ASSUME TypeInv, EmailEnvironment, NEW u \in tasks', u \notin tasks
    PROVE  u \in Tasks /\ u.copy <= faults' /\ (TaskShape(u) \/ (u.kind = "disconnect" /\ "disconnect" \in happened'))
<1>1. faults \in Nat /\ 0 <= faults' /\ faults <= faults' /\ faults' \in Nat
  BY EnvironmentKeeps, EmailAssumption
<1>2. ASSUME NEW kind \in {"signal", "parent", "login"}, NEW concerned \in SUBSET Account, NEW a \in Account,
             Begins(kind, concerned, a, {})
      PROVE  u \in Tasks /\ u.copy <= faults' /\ TaskShape(u)
  <2>1. PICK v \in Tasks : v.kind = kind /\ v.copy = 0 /\ v.of = {} /\ tasks' = tasks \cup {v}
    <3>1. kind \in Kinds
      BY DEF Kinds
    <3> QED BY <1>2, <3>1, BeginTasks
  <2> QED BY <1>1, <2>1 DEF TaskShape, Indexes
<1>3. ASSUME NEW a \in Account, Connect(a) \/ BeatTick(a)
      PROVE  u \in Tasks /\ u.copy <= faults' /\ TaskShape(u)
  BY <1>2, <1>3 DEF Connect, BeatTick
<1>4. ASSUME LoginRecovers
      PROVE  u \in Tasks /\ u.copy <= faults' /\ TaskShape(u)
  <2>1. (CHOOSE a \in Account : TRUE) \in Account
    BY EmailAssumption
  <2> QED BY <1>2, <1>4, <2>1 DEF LoginRecovers
<1>5. ASSUME NEW a \in Account, Disconnect(a)
      PROVE  u \in Tasks /\ u.copy <= faults' /\ u.kind = "disconnect" /\ "disconnect" \in happened'
  BY <1>1, <1>5, DisconnectTasks DEF Disconnect, Happens
<1>6. ASSUME KeyLapses
      PROVE  FALSE
  BY <1>6 DEF KeyLapses
<1>7. ASSUME NEW t \in tasks, Dies(t)
      PROVE  u \in Tasks /\ u.copy <= faults' /\ TaskShape(u)
  <2>1. PICK C \in SUBSET Tasks : AreChildren(t, C) /\ (u \in C \/ Again(t, u))
    BY <1>7, CrashTasks
  <2>2. t \in Tasks /\ t.copy <= faults /\ TaskShape(t) /\ t.copy \in Nat
    BY TaskFields DEF TypeInv, TaskTypes
  <2>3. faults' = faults + 1
    BY <1>7 DEF Dies, Happens
  <2>4. CASE Again(t, u)
    BY <1>1, <2>2, <2>3, <2>4 DEF Again, TaskShape, Indexes
  <2>5. CASE u \in C
    BY <1>1, <2>1, <2>2, <2>5 DEF AreChildren, TaskShape, Indexes
  <2> QED BY <2>1, <2>4, <2>5
<1>8. ASSUME NEW t \in tasks, IsKilled(t) \/ Raises(t) \/ PipelineFails(t)
      PROVE  u \in Tasks /\ u.copy <= faults' /\ TaskShape(u)
  <2>1. ~PipelineFails(t)
    BY DEF PipelineFails, Ends, Becomes
  <2>2. PICK C \in SUBSET Tasks : AreChildren(t, C) /\ u \in C
    BY <1>8, <2>1, StoppedTasks
  <2>3. t.copy <= faults /\ t.copy \in Nat
    BY TaskFields DEF TypeInv, TaskTypes
  <2> QED BY <1>1, <2>2, <2>3 DEF AreChildren, TaskShape, Indexes
<1>9. ASSUME NEW t \in tasks, NEW m \in Mailbox, IndexSwallows(t, m)
      PROVE  u \in Tasks /\ u.copy <= faults' /\ TaskShape(u)
  <2>1. t \in Tasks /\ t.copy <= faults /\ TaskShape(t) /\ Indexes(t) /\ t.copy \in Nat
    BY <1>9, TaskFields DEF TypeInv, TaskTypes, IndexSwallows
  <2>2. PICK v : Moves(t, v) /\ v.of = t.of \ {m}
    BY <1>9, SwallowMoves
  <2>3. TaskShape(v)
    BY <2>1, <2>2 DEF Moves, Like, TaskShape, Indexes
  <2> QED BY <1>1, <2>1, <2>2, <2>3 DEF Moves, Like
<1> QED BY <1>3, <1>4, <1>5, <1>6, <1>7, <1>8, <1>9 DEF EmailEnvironment

LEMMA AccountTyped ==
    ASSUME TypeInv, EmailNext
    PROVE  AccountTypes'
<1> USE DEF AccountTypes
<1>1. AccountTypes
  BY DEF TypeInv
<1>2. ASSUME NEW t \in tasks, TaskStep(t)
      PROVE  AccountTypes'
  <2>1. t.acct \in Account
    BY TaskFields DEF TypeInv, TaskTypes
  <2>2. \A state \in {"idle", "active", "ok", "failed"} :
           Says(t.acct, state) => bar' \in [Account -> {"idle", "active", "ok", "failed"}]
    BY <1>1, <2>1 DEF Says
  <2>3. ClearsFlag(t.acct) => cancel' \in [Account -> BOOLEAN]
    BY <1>1, <2>1 DEF ClearsFlag
  <2>4. FinishSync(t.acct) => cancel' \in [Account -> BOOLEAN]
    BY <2>3 DEF FinishSync
  <2>5. CASE StartStep(t) \/ ParentStep(t)
    BY <1>1, <2>2, <2>4, <2>5 DEF StartStep, SignalEnqueues, LoginEnqueues, ParentStep, ParentSkips,
       ParentFindsDeleted, ParentBegins, ParentFindsNoMailboxes, ParentDispatches, accountVars
  <2>6. CASE ChildStep(t) \/ WatchdogStep(t)
    BY <1>1, <2>2, <2>3, <2>4, <2>6 DEF ChildStep, ChildAlreadyDone, ChildFindsNoKey, ChildBegins,
       ChildFetches, ChildCompletes, WatchdogStep, WatchdogStops, WatchdogDispatches,
       WatchdogPolls, WatchdogGivesUp, accountVars
  <2>7. CASE CallbackStep(t)
    <3>1. CASE CallbackProcesses(t)
      BY <1>1, <2>1, <3>1 DEF CallbackProcesses, accountVars
    <3> QED BY <1>1, <2>2, <2>4, <2>7, <3>1 DEF CallbackStep, CallbackFindsNoKey, CallbackBegins,
       CallbackFindsGone, CallbackCommits, CallbackEnqueues, CallbackFinishes, accountVars
  <2>8. CASE IndexStep(t)
    BY <1>1, <2>2, <2>8 DEF IndexStep, IndexFindsNoKey, IndexTakesKey, IndexFindsNothing, IndexPlans,
       IndexFetches, IndexWrites, IndexCommits, IndexEnds, accountVars
  <2>9. CASE DisconnectCommits(t)
    BY <1>1, <2>9 DEF DisconnectCommits
  <2> QED BY <1>2, <2>5, <2>6, <2>7, <2>8, <2>9, TaskSteps
<1>3. ASSUME NEW a \in Account, Connect(a) \/ BeatTick(a) \/ Disconnect(a)
      PROVE  AccountTypes'
  <2>1. CASE Disconnect(a)
    <3>1. \A b \in Account : Writing(b) \subseteq Mailbox
      BY TaskFields DEF Writing, TypeInv, TaskTypes
    <3>2. overtaken' \in [Account -> SUBSET Mailbox]
      BY <1>1, <2>1, <3>1 DEF Disconnect
    <3>3. UNCHANGED <<boxes, linked, sparse, bar, key>> /\ cancel' \in [Account -> BOOLEAN]
      BY <1>1, <2>1 DEF Disconnect
    <3> QED BY <1>1, <3>2, <3>3
  <2> QED BY <1>1, <1>3, <2>1 DEF Connect, BeatTick, FinishSync, ClearsFlag, Says, accountVars
<1>4. CASE LoginRecovers \/ KeyLapses
  BY <1>1, <1>4 DEF LoginRecovers, KeyLapses, accountVars
<1>5. ASSUME NEW t \in tasks, Dies(t) \/ IsKilled(t) \/ Raises(t) \/ PipelineFails(t) \/ \E m \in Mailbox : IndexSwallows(t, m)
      PROVE  AccountTypes'
  <2>1. t.acct \in Account
    BY TaskFields DEF TypeInv, TaskTypes
  <2>2. CASE PipelineFails(t)
    BY <1>1, <2>1, <2>2 DEF PipelineFails, Says, ClearsFlag, accountVars
  <2>3. ASSUME NEW new, Leaves(t, new)
        PROVE  bar' \in [Account -> {"idle", "active", "ok", "failed"}]
    BY <1>1, <2>1, <2>3 DEF Leaves, Says
  <2>4. CASE Dies(t) \/ IsKilled(t) \/ Raises(t)
    <3>1. bar' \in [Account -> {"idle", "active", "ok", "failed"}]
      BY <2>3, <2>4 DEF Dies, IsKilled, Raises
    <3> QED BY <1>1, <2>4, <3>1 DEF Dies, IsKilled, Raises, accountVars
  <2> QED BY <1>1, <1>5, <2>2, <2>4 DEF IndexSwallows, accountVars
<1> QED BY <1>2, <1>3, <1>4, <1>5 DEF EmailNext, EmailEnvironment

(* Only a child, a disconnect and an indexing job write what is in the mailboxes. *)
LEMMA MailTyped ==
    ASSUME TypeInv, EmailNext
    PROVE  MailTypes'
<1>1. MailTypes
  BY DEF TypeInv
<1>2. CASE UNCHANGED <<boxes, cp, mail, chunks>> /\ indexing' \in [Account -> {"none", "pending", "complete"}]
  BY <1>1, <1>2 DEF MailTypes, Completed
<1>3. ASSUME NEW t \in tasks, TaskStep(t)
      PROVE  MailTypes'
  <2>1. t.acct \in Account /\ TaskShape(t) /\ indexing \in [Account -> {"none", "pending", "complete"}]
    BY <1>1, TaskFields DEF TypeInv, TaskTypes, MailTypes
  <2>2. CASE ChildStep(t)
    <3>1. PICK m \in boxes[t.acct] : t.of = {m}
      BY <2>1, <2>2 DEF TaskShape, ChildStep, ChildAlreadyDone, ChildFindsNoKey, ChildBegins,
         ChildFetches, ChildCompletes, Is
    <3>2. MailboxOf(t) = m /\ m \in Mailbox /\ boxes[t.acct] \subseteq Mailbox
      BY <2>1, <3>1 DEF MailboxOf, TypeInv, AccountTypes
    <3>3. ASSUME NEW status \in {"none", "in_progress", "completed"},
                 cp' = [cp EXCEPT ![t.acct][m] = status]
          PROVE  /\ cp' \in [Account -> [Mailbox -> {"none", "in_progress", "completed"}]]
                 /\ \A a \in Account : Completed(a)' \subseteq boxes[a]
      <4>1. cp \in [Account -> [Mailbox -> {"none", "in_progress", "completed"}]]
        BY <1>1 DEF MailTypes
      <4>2. cp' \in [Account -> [Mailbox -> {"none", "in_progress", "completed"}]]
        BY <2>1, <3>2, <3>3, <4>1
      <4>3. \A a \in Account, n \in Mailbox : cp'[a][n] = "completed" =>
               cp[a][n] = "completed" \/ (a = t.acct /\ n = m)
        BY <2>1, <3>2, <3>3, <4>1
      <4>4. \A a \in Account : Completed(a) \subseteq boxes[a]
        BY <1>1 DEF MailTypes
      <4> QED BY <3>1, <4>2, <4>3, <4>4 DEF Completed
    <3>4. CASE ChildFindsNoKey(t) \/ ChildBegins(t)
      BY <1>1, <3>2, <3>3, <3>4 DEF ChildFindsNoKey, ChildBegins, MailTypes, accountVars, indexVars
    <3>5. CASE ChildCompletes(t)
      <4>1. cp[t.acct][m] \in {"none", "in_progress", "completed"}
        BY <1>1, <2>1, <3>2 DEF MailTypes
      <4>2. PICK status \in {"none", "in_progress", "completed"} :
               status = IF cp[t.acct][m] = "none" THEN cp[t.acct][m] ELSE "completed"
        BY <4>1
      <4>3. cp' = [cp EXCEPT ![t.acct][m] = status]
        BY <3>2, <3>5, <4>2 DEF ChildCompletes
      <4> QED BY <1>1, <3>3, <3>5, <4>3 DEF ChildCompletes, MailTypes, accountVars, indexVars
    <3>6. CASE ChildFetches(t)
      BY <1>1, <2>1, <3>1, <3>2, <3>6 DEF ChildFetches, MailTypes, Completed, accountVars, indexVars
    <3>7. CASE ChildAlreadyDone(t)
      BY <1>2, <2>1, <3>7 DEF ChildAlreadyDone, accountVars, mailVars, indexVars
    <3> QED BY <2>2, <3>4, <3>5, <3>6, <3>7 DEF ChildStep
  <2>3. CASE StartStep(t) \/ ParentStep(t) \/ WatchdogStep(t)
    BY <1>2, <2>1, <2>3 DEF StartStep, SignalEnqueues, LoginEnqueues, ParentStep, ParentSkips,
       ParentFindsDeleted, ParentBegins, ParentFindsNoMailboxes, ParentDispatches,
       WatchdogStep, WatchdogStops, WatchdogDispatches, WatchdogPolls, WatchdogGivesUp,
       accountVars, mailVars, indexVars
  <2>4. CASE CallbackStep(t)
    BY <1>2, <2>1, <2>4 DEF CallbackStep, CallbackFindsNoKey, CallbackBegins, CallbackProcesses,
       CallbackFindsGone, CallbackCommits, CallbackEnqueues, CallbackFinishes, MarksPending,
       accountVars, mailVars, indexVars
  <2>5. CASE IndexStep(t)
    <3>1. ASSUME NEW m \in t.writes, IndexCommits(t, m)
          PROVE  MailTypes'
      <4>1. m \in Mailbox
        BY <3>1, TaskFields DEF TypeInv, TaskTypes
      <4> QED BY <1>1, <2>1, <3>1, <4>1 DEF IndexCommits, MailTypes, Completed, accountVars, mailVars
    <3>2. ASSUME NEW m \in t.of, IndexWrites(t, m)
          PROVE  MailTypes'
      BY <1>2, <2>1, <3>2 DEF IndexWrites, accountVars, mailVars, indexVars
    <3> QED BY <1>2, <2>1, <2>5, <3>1, <3>2 DEF IndexStep, IndexFindsNoKey, IndexTakesKey,
         IndexFindsNothing, IndexPlans, IndexFetches, IndexEnds, MarksPending, accountVars,
         mailVars, indexVars
  <2>6. CASE DisconnectCommits(t)
    <3>1. \A a \in Account, m \in Mailbox : cp'[a][m] = "completed" => cp[a][m] = "completed"
      BY <2>6 DEF DisconnectCommits
    <3>2. cp' \in [Account -> [Mailbox -> {"none", "in_progress", "completed"}]]
      BY <1>1, <2>6 DEF DisconnectCommits, MailTypes
    <3>3. \A a \in Account : Completed(a)' \subseteq boxes'[a]
      BY <1>1, <2>6, <3>1 DEF DisconnectCommits, MailTypes, Completed
    <3> QED BY <1>1, <2>6, <3>2, <3>3 DEF DisconnectCommits, MailTypes
  <2> QED BY <1>3, <2>2, <2>3, <2>4, <2>5, <2>6, TaskSteps
<1>4. ASSUME NEW a \in Account, Connect(a) \/ BeatTick(a) \/ Disconnect(a)
      PROVE  MailTypes'
  BY <1>1, <1>2, <1>4 DEF Connect, BeatTick, Disconnect, MailTypes, accountVars, mailVars, indexVars
<1>5. CASE KeyLapses
  BY <1>1, <1>2, <1>5 DEF KeyLapses, MailTypes, accountVars, mailVars, indexVars
<1>6. CASE LoginRecovers
  <2>1. indexing' \in [Account -> {"none", "pending", "complete"}]
    BY <1>6 DEF LoginRecovers
  <2> QED BY <1>2, <1>6, <2>1 DEF LoginRecovers, accountVars, mailVars
<1>7. ASSUME NEW t \in tasks, Dies(t) \/ IsKilled(t) \/ Raises(t) \/ PipelineFails(t) \/ \E m \in Mailbox : IndexSwallows(t, m)
      PROVE  MailTypes'
  BY <1>1, <1>2, <1>7 DEF Dies, IsKilled, Raises, PipelineFails, IndexSwallows, MailTypes, accountVars, mailVars, indexVars
<1> QED BY <1>3, <1>4, <1>5, <1>6, <1>7 DEF EmailNext, EmailEnvironment

LEMMA CounterTyped ==
    ASSUME TypeInv, EmailNext
    PROVE  CounterTypes' /\ faults \in Nat /\ faults' \in Nat /\ faults <= faults'
           /\ happened \subseteq happened'
<1>1. CounterTypes /\ faults \in 0..MaxFaults /\ MaxFaults \in Nat
  BY EmailAssumption DEF TypeInv, CounterTypes
<1>2. ASSUME NEW t \in tasks, TaskStep(t)
      PROVE  CounterTypes' /\ faults \in Nat /\ faults' \in Nat /\ faults <= faults' /\ happened \subseteq happened'
  <2>1. /\ UNCHANGED <<boxes, syncs, runs, faults>>
        /\ happened \subseteq happened' /\ happened' \subseteq happened \cup {"stall", "cleared", "waived"}
    BY <1>2, TaskStepKeeps
  <2>2. settled' \in [Account -> BOOLEAN]
    <3>1. settled \in [Account -> BOOLEAN]
      BY <1>1 DEF CounterTypes
    <3>2. CASE CallbackCommits(t)
      BY <3>1, <3>2 DEF CallbackCommits
    <3>3. CASE StartStep(t) \/ ParentStep(t) \/ ChildStep(t) \/ WatchdogStep(t)
      BY <3>1, <3>3 DEF StartStep, SignalEnqueues, LoginEnqueues, ParentStep, ParentSkips, ParentFindsDeleted,
         ParentBegins, ParentFindsNoMailboxes, ParentDispatches, ChildStep, ChildAlreadyDone,
         ChildFindsNoKey, ChildBegins, ChildFetches, ChildCompletes, WatchdogStep,
         WatchdogStops, WatchdogDispatches, WatchdogPolls, WatchdogGivesUp
    <3>4. CASE (CallbackStep(t) /\ ~CallbackCommits(t)) \/ IndexStep(t) \/ DisconnectCommits(t)
      BY <3>1, <3>4 DEF CallbackStep, CallbackFindsNoKey, CallbackBegins, CallbackProcesses,
         CallbackFindsGone, CallbackEnqueues, CallbackFinishes, IndexStep, IndexFindsNoKey,
         IndexTakesKey, IndexFindsNothing, IndexPlans, IndexFetches, IndexWrites, IndexCommits, IndexEnds,
         DisconnectCommits
    <3> QED BY <1>2, <3>2, <3>3, <3>4, TaskSteps
  <2> QED BY <1>1, <2>1, <2>2 DEF CounterTypes
<1>3. ASSUME EmailEnvironment
      PROVE  CounterTypes' /\ faults \in Nat /\ faults' \in Nat /\ faults <= faults' /\ happened \subseteq happened'
  <2>1. /\ faults \in Nat /\ faults' \in 0..MaxFaults /\ faults <= faults' /\ faults' \in Nat
        /\ happened \subseteq happened' /\ happened' \subseteq Faults \cup {"stall", "cleared", "waived"}
    BY <1>1, <1>3, EnvironmentKeeps
  <2>2. ASSUME NEW kind \in Kinds, NEW concerned \in SUBSET Account, NEW a \in Account,
               Begins(kind, concerned, a, {}), settled' \in [Account -> BOOLEAN]
        PROVE  CounterTypes'
    BY <2>1, <2>2, BeginTasks DEF CounterTypes
  <2>3. ASSUME NEW a \in Account, Connect(a) \/ BeatTick(a)
        PROVE  CounterTypes'
    <3>1. settled' \in [Account -> BOOLEAN]
      BY <1>1, <2>3 DEF Connect, BeatTick, CounterTypes
    <3>2. "signal" \in Kinds /\ "parent" \in Kinds /\ {a} \in SUBSET Account
      BY DEF Kinds
    <3> QED BY <2>2, <2>3, <3>1, <3>2 DEF Connect, BeatTick
  <2>4. ASSUME LoginRecovers
        PROVE  CounterTypes'
    <3>1. settled' \in [Account -> BOOLEAN]
      BY <1>1, <2>4 DEF LoginRecovers, CounterTypes
    <3>2. PICK b \in Account : b = CHOOSE a \in Account : TRUE
      BY EmailAssumption
    <3>3. "login" \in Kinds /\ Account \in SUBSET Account
      BY DEF Kinds
    <3>4. Begins("login", Account, b, {})
      BY <2>4, <3>2 DEF LoginRecovers
    <3> QED BY <2>2, <3>1, <3>3, <3>4
  <2>5. CASE UNCHANGED <<syncs, runs, settled>>
    BY <1>1, <2>1, <2>5 DEF CounterTypes
  <2>6. ASSUME NEW a \in Account, Disconnect(a)
        PROVE  CounterTypes'
    BY <2>5, <2>6 DEF Disconnect, startVars
  <2>7. CASE KeyLapses
    BY <2>5, <2>7 DEF KeyLapses, startVars
  <2>8. ASSUME NEW t \in tasks, Dies(t) \/ IsKilled(t) \/ Raises(t) \/ PipelineFails(t) \/ \E m \in Mailbox : IndexSwallows(t, m)
        PROVE  CounterTypes'
    BY <2>5, <2>8 DEF Dies, IsKilled, Raises, PipelineFails, IndexSwallows, startVars
  <2>9. CounterTypes'
    BY <1>3, <2>3, <2>4, <2>6, <2>7, <2>8 DEF EmailEnvironment
  <2> QED BY <2>1, <2>9
<1> QED BY <1>2, <1>3 DEF EmailNext

LEMMA TypeInit == EmailInit => TypeInv
<1> SUFFICES ASSUME EmailInit PROVE TypeInv
  OBVIOUS
<1>1. MaxSyncs \in Nat /\ MaxFaults \in Nat /\ Legacy \subseteq Account
  BY EmailAssumption
<1>2. TaskTypes
  BY DEF EmailInit, TaskTypes
<1>6. linked \in [Account -> BOOLEAN]
  <2>1. linked = [a \in Account |-> a \in Legacy] /\ \A a \in Account : (a \in Legacy) \in BOOLEAN
    BY DEF EmailInit
  <2> QED BY <2>1, Zenon
<1>8. PICK w \in Worlds : boxes = w.boxes /\ chunks = w.chunks /\ sparse = w.sparse
  BY DEF EmailInit
<1>9. /\ boxes \in [Account -> SUBSET Mailbox] /\ chunks \in [Account -> SUBSET Mailbox]
      /\ sparse \subseteq Account
  BY <1>1, <1>8, EmailAssumption
<1>7. AccountTypes
  BY <1>6, <1>9 DEF EmailInit, AccountTypes
<1>3. CounterTypes
  BY <1>1 DEF EmailInit, CounterTypes
<1>4. \A a \in Account : Completed(a) \subseteq boxes[a]
  BY <1>1 DEF EmailInit, Completed
<1>5. MailTypes
  BY <1>1, <1>4, <1>9 DEF EmailInit, MailTypes
<1> QED BY <1>2, <1>3, <1>5, <1>7 DEF TypeInv

LEMMA TypeStep ==
    ASSUME TypeInv, [EmailNext]_emailVars
    PROVE  TypeInv'
<1>1. CASE EmailNext
  <2>1. AccountTypes' /\ MailTypes' /\ CounterTypes'
    BY <1>1, AccountTyped, MailTyped, CounterTyped
  <2>2. /\ faults \in Nat /\ faults' \in Nat /\ faults <= faults' /\ happened \subseteq happened'
    BY <1>1, CounterTyped
  <2>3. CASE \E t \in tasks : TaskStep(t)
    <3>1. PICK t \in tasks : TaskStep(t)
      BY <2>3
    <3>2. UNCHANGED <<boxes, faults>>
      BY <3>1, TaskStepKeeps
    <3>3. \A u \in tasks' : u \in tasks \/ (u \in Tasks /\ u.copy <= faults' /\ TaskShape(u))
      BY <3>1, <3>2, TaskStepTasks
    <3>4. TaskTypes'
      BY <2>2, <3>2, <3>3, TasksTyped
    <3> QED BY <2>1, <3>4 DEF TypeInv
  <2>4. CASE EmailEnvironment
    <3>1. UNCHANGED boxes
      BY <2>4, EnvironmentKeeps
    <3>2. \A u \in tasks' : u \in tasks \/
             (u \in Tasks /\ u.copy <= faults' /\ (TaskShape(u) \/ (u.kind = "disconnect" /\ "disconnect" \in happened')))
      BY <2>4, EnvironmentTasks
    <3>3. TaskTypes'
      <4> SUFFICES ASSUME NEW u \in tasks'
                   PROVE  u \in Tasks /\ u.copy <= faults' /\ TaskShape(u)'
        BY DEF TaskTypes
      <4>1. CASE u \in tasks
        <5>1. u \in Tasks /\ u.copy <= faults /\ TaskShape(u)
          BY <4>1 DEF TypeInv, TaskTypes
        <5>2. u.copy \in Nat
          BY <5>1, TaskFields
        <5> QED BY <2>2, <3>1, <5>1, <5>2 DEF TaskShape, Indexes
      <4>2. CASE u \notin tasks
        BY <2>2, <3>1, <3>2, <4>2 DEF TaskShape, Indexes
      <4> QED BY <4>1, <4>2
    <3> QED BY <2>1, <3>3 DEF TypeInv
  <2> QED BY <1>1, <2>3, <2>4 DEF EmailNext
<1>2. CASE UNCHANGED emailVars
  BY <1>2 DEF emailVars, TypeInv, TaskTypes, TaskShape, Indexes, AccountTypes, MailTypes, Completed,
     CounterTypes
<1> QED BY <1>1, <1>2

(* Where a task that is new in the queue comes from: it is an old one that goes on,
   or the next link of the chain. *)
Adds(t, u) ==
    /\ Indexes(t) /\ t.at = "persist" /\ ~cancel[t.acct]
    /\ u.kind = t.kind /\ u.acct = t.acct /\ u.at = "persist"

LEMMA Origin ==
    ASSUME TypeInv, NEW t \in tasks, TaskStep(t), NEW u \in tasks', u \notin tasks
    PROVE  \/ /\ u.kind = t.kind /\ u.acct = t.acct /\ (u.of = t.of \/ Indexes(t))
              /\ (u.writes \subseteq t.writes \/ Adds(t, u))
           \/ SignalEnqueues(t) /\ u.kind = "parent" /\ u.acct = t.acct /\ u.at = "queued" /\ u.writes = {}
           \/ /\ t.kind \in {"signal", "login"} /\ u.kind = "retry" /\ u.at = "queued"
              /\ u.acct \in Account /\ linked[u.acct] /\ indexing[u.acct] = "pending" /\ u.writes = {}
           \/ /\ ParentDispatches(t) /\ u.kind \in {"child", "watchdog"} /\ u.acct = t.acct
              /\ u.at = "queued" /\ u.writes = {}
           \/ WatchdogDispatches(t) /\ u.kind = "callback" /\ u.acct = t.acct /\ u.at = "queued" /\ u.writes = {}
           \/ CallbackEnqueues(t) /\ u.kind = "index" /\ u.acct = t.acct /\ u.at = "queued" /\ u.writes = {}
<1> DEFINE Same == /\ u.kind = t.kind /\ u.acct = t.acct /\ (u.of = t.of \/ Indexes(t))
                   /\ (u.writes \subseteq t.writes \/ Adds(t, u))
<1>1. ASSUME NEW v, Moves(t, v), v.of = t.of \/ Indexes(t), v.writes \subseteq t.writes
      PROVE  Same
  BY <1>1 DEF Moves, Like
<1>2. ASSUME NEW step \in Steps, Goes(t, step)
      PROVE  Same
  <2>1. PICK v : Moves(t, v) /\ v.of = t.of /\ v.writes = t.writes
    BY <1>2, GoesMoves DEF TypeInv
  <2> QED BY <1>1, <2>1
<1>3. ASSUME u \in Retries(t)
      PROVE  /\ u.kind = "retry" /\ u.at = "queued" /\ u.writes = {}
             /\ u.acct \in Account /\ linked[u.acct] /\ indexing[u.acct] = "pending"
  BY <1>3, RetriesAre
<1>4. CASE StartStep(t)
  <2>1. CASE SignalEnqueues(t)
    BY <1>3, <2>1, SignalTasks DEF SignalEnqueues, Is
  <2>2. CASE LoginEnqueues(t)
    BY <1>3, <2>2 DEF LoginEnqueues, Becomes, Is
  <2> QED BY <1>4, <2>1, <2>2 DEF StartStep
<1>5. CASE ParentStep(t)
  <2>1. CASE ParentBegins(t)
    BY <1>2, <2>1 DEF ParentBegins, Steps
  <2>2. CASE ParentDispatches(t)
    <3>1. PICK w \in Tasks, C \in SUBSET Tasks :
              /\ w.kind = "watchdog" /\ w.acct = t.acct /\ w.writes = {} /\ w.at = "queued"
              /\ AreChildren(t, C)
              /\ tasks' = (tasks \ {t}) \cup C \cup {w}
      BY <2>2, ParentTasks
    <3> QED BY <2>2, <3>1 DEF AreChildren
  <2> QED BY <1>5, <2>1, <2>2 DEF ParentStep, ParentSkips, ParentFindsDeleted,
            ParentFindsNoMailboxes, Ends, Becomes
<1>6. CASE ChildStep(t)
  <2>1. CASE ChildBegins(t) \/ ChildFetches(t)
    BY <1>2, <2>1 DEF ChildBegins, ChildFetches, Steps
  <2> QED BY <1>6, <2>1 DEF ChildStep, ChildAlreadyDone, ChildFindsNoKey,
            ChildCompletes, Ends, Becomes
<1>7. CASE WatchdogStep(t)
  <2>1. CASE WatchdogDispatches(t)
    BY <2>1, WatchdogTasks
  <2>2. CASE WatchdogPolls(t)
    <3>1. PICK v : Moves(t, v) /\ v.of = t.of /\ v.writes = t.writes
      BY <2>2, WatchdogMoves DEF TypeInv
    <3> QED BY <1>1, <3>1
  <2> QED BY <1>7, <2>1, <2>2 DEF WatchdogStep, WatchdogStops, WatchdogGivesUp, Ends, Becomes
<1>8. CASE CallbackStep(t)
  <2>1. CASE CallbackBegins(t) \/ CallbackProcesses(t) \/ CallbackCommits(t)
    BY <1>2, <2>1 DEF CallbackBegins, CallbackProcesses, CallbackCommits, Steps
  <2>2. CASE CallbackEnqueues(t)
    <3>1. PICK v \in Tasks, w \in Tasks :
              /\ Like(v, t) /\ v.of = t.of /\ v.writes = t.writes
              /\ w.kind = "index" /\ w.acct = t.acct /\ w.writes = {} /\ w.at = "queued"
              /\ tasks' = (tasks \ {t}) \cup {v, w}
      BY <2>2, CallbackTasks
    <3> QED BY <2>2, <3>1 DEF Like
  <2> QED BY <1>8, <2>1, <2>2 DEF CallbackStep, CallbackFindsNoKey, CallbackFindsGone,
            CallbackFinishes, Ends, Becomes
<1>9. CASE IndexStep(t)
  <2>1. CASE IndexTakesKey(t)
    BY <1>2, <2>1 DEF IndexTakesKey, Ends, Becomes, Steps
  <2>2. CASE IndexPlans(t)
    <3>1. Indexes(t) /\ \E v : Moves(t, v) /\ v.writes = t.writes
      BY <2>2, PlanMoves DEF IndexPlans
    <3> QED BY <1>1, <3>1
  <2>3. CASE IndexFetches(t)
    <3>1. Indexes(t) /\ \E v : Moves(t, v) /\ v.writes = t.writes
      BY <2>3, FetchMoves DEF IndexFetches
    <3> QED BY <1>1, <3>1
  <2>4. ASSUME NEW m \in t.of, IndexWrites(t, m)
        PROVE  Same
    <3>1. Indexes(t) /\ t.at = "persist"
      BY <2>4 DEF IndexWrites
    <3>2. PICK v : /\ Moves(t, v) /\ v.at = t.at
                   /\ v.writes = IF cancel[t.acct] THEN t.writes ELSE t.writes \cup {m}
      BY <2>4, WritesMoves
    <3> QED BY <1>1, <3>1, <3>2 DEF Moves, Like, Adds
  <2>5. ASSUME NEW m \in t.writes, IndexCommits(t, m)
        PROVE  Same
    <3>1. Indexes(t)
      BY <2>5 DEF IndexCommits
    <3>2. PICK v : Moves(t, v) /\ v.writes = t.writes \ {m}
      BY <2>5, CommitMoves
    <3> QED BY <1>1, <3>1, <3>2
  <2> QED BY <1>9, <2>1, <2>2, <2>3, <2>4, <2>5 DEF IndexStep, IndexFindsNoKey, IndexFindsNothing,
            IndexEnds, Ends, Becomes
<1>10. CASE DisconnectCommits(t)
  BY <1>10 DEF DisconnectCommits, Ends, Becomes
<1> QED BY <1>4, <1>5, <1>6, <1>7, <1>8, <1>9, <1>10, TaskSteps

(* A task that the environment puts there: a new one, one that is handed out again, a
   child that a stopped parent left, or an indexing job whose batch has failed. *)
Left(u) ==
    \E t \in tasks : /\ Is(t, "parent", "list") /\ t.acct = u.acct
                     /\ u.kind = "child" /\ u.at = "queued" /\ u.writes = {}

LEMMA EnvironmentOrigin ==
    ASSUME TypeInv, EmailEnvironment, NEW u \in tasks', u \notin tasks
    PROVE  \/ Connect(u.acct) /\ u.kind = "signal" /\ u.at = "queued" /\ u.writes = {}
           \/ BeatTick(u.acct) /\ u.kind = "parent" /\ u.at = "queued" /\ u.writes = {}
           \/ LoginRecovers /\ u.kind = "login" /\ u.at = "queued" /\ u.writes = {}
           \/ /\ \E a \in Account : Disconnect(a)
              /\ u.kind = "disconnect" /\ u.of = {b \in Account : linked[b]} /\ u.writes = {}
           \/ \E t \in tasks : Dies(t) /\ ~InServer(t) /\ t.at # "queued" /\ Again(t, u)
           \/ Left(u)
           \/ \E t \in tasks, m \in Mailbox :
                 /\ IndexSwallows(t, m) /\ u.kind = t.kind /\ u.acct = t.acct
                 /\ u.of = t.of \ {m} /\ u.writes \subseteq t.writes /\ u.at = t.at
<1>1. ASSUME NEW kind \in Kinds, NEW concerned \in SUBSET Account, NEW a \in Account,
             Begins(kind, concerned, a, {})
      PROVE  u.kind = kind /\ u.acct = a /\ u.at = "queued" /\ u.writes = {}
  <2>1. PICK v \in Tasks : /\ v.kind = kind /\ v.acct = a /\ v.at = "queued" /\ v.writes = {}
                           /\ tasks' = tasks \cup {v}
    BY <1>1, BeginTasks
  <2> QED BY <2>1
<1>2. {"signal", "parent", "login"} \subseteq Kinds
  BY DEF Kinds
<1>3. ASSUME NEW a \in Account, Connect(a)
      PROVE  Connect(u.acct) /\ u.kind = "signal" /\ u.at = "queued" /\ u.writes = {}
  <2>1. Begins("signal", {a}, a, {})
    BY <1>3 DEF Connect
  <2> QED BY <1>1, <1>2, <1>3, <2>1
<1>4. ASSUME NEW a \in Account, BeatTick(a)
      PROVE  BeatTick(u.acct) /\ u.kind = "parent" /\ u.at = "queued" /\ u.writes = {}
  <2>1. Begins("parent", {a}, a, {})
    BY <1>4 DEF BeatTick
  <2> QED BY <1>1, <1>2, <1>4, <2>1
<1>5. ASSUME LoginRecovers
      PROVE  u.kind = "login" /\ u.at = "queued" /\ u.writes = {}
  <2>1. PICK b \in Account : b = CHOOSE a \in Account : TRUE
    BY EmailAssumption
  <2>2. Begins("login", Account, b, {})
    BY <1>5, <2>1 DEF LoginRecovers
  <2> QED BY <1>1, <1>2, <2>2
<1>6. ASSUME NEW a \in Account, Disconnect(a)
      PROVE  u.kind = "disconnect" /\ u.of = {b \in Account : linked[b]} /\ u.writes = {}
  BY <1>6, DisconnectTasks
<1>7. ~KeyLapses
  BY DEF KeyLapses
<1>8. ASSUME NEW t \in tasks, Dies(t)
      PROVE  (~InServer(t) /\ t.at # "queued" /\ Again(t, u)) \/ Left(u)
  <2>1. PICK N \in SUBSET Tasks, C \in SUBSET Tasks :
              /\ IF InServer(t) THEN N = {} ELSE t.at # "queued" /\ \E v : N = {v} /\ Again(t, v)
              /\ AreChildren(t, C) /\ (C # {} => Is(t, "parent", "list"))
              /\ tasks' = (tasks \ {t}) \cup N \cup C
    BY <1>8, CrashTasks
  <2>2. CASE u \in N
    BY <2>1, <2>2
  <2>3. CASE u \in C
    BY <2>1, <2>3 DEF AreChildren, Left
  <2> QED BY <2>1, <2>2, <2>3
<1>9. ASSUME NEW t \in tasks, IsKilled(t) \/ Raises(t)
      PROVE  Left(u)
  <2>1. PICK C \in SUBSET Tasks : /\ AreChildren(t, C) /\ (C # {} => Is(t, "parent", "list"))
                                  /\ tasks' = (tasks \ {t}) \cup C
    BY <1>9, StoppedTasks
  <2> QED BY <2>1 DEF AreChildren, Left
<1>11. \A t \in tasks : ~PipelineFails(t)
  BY DEF PipelineFails, Ends, Becomes
<1>10. ASSUME NEW t \in tasks, NEW m \in Mailbox, IndexSwallows(t, m)
       PROVE  /\ u.kind = t.kind /\ u.acct = t.acct /\ u.of = t.of \ {m} /\ u.at = t.at
              /\ u.writes \subseteq t.writes
  <2>1. PICK v : Moves(t, v) /\ v.of = t.of \ {m} /\ v.writes = t.writes \ {m} /\ v.at = t.at
    BY <1>10, SwallowMoves
  <2> QED BY <2>1 DEF Moves, Like
<1> QED BY <1>3, <1>4, <1>5, <1>6, <1>7, <1>8, <1>9, <1>10, <1>11 DEF EmailEnvironment

(* Part 2.  What only a disconnect undoes. *)
Disconnecting == "disconnect" \in happened

LEMMA NoDisconnectTask ==
    ASSUME TypeInv, ~Disconnecting, NEW t \in tasks
    PROVE  t.kind # "disconnect"
BY DEF TypeInv, TaskTypes, TaskShape, Disconnecting

Purged(a) == \E t \in tasks : DisconnectCommits(t) /\ a \in t.of

(* Only a disconnect takes away what is completed, downloaded or indexed. *)
LEMMA Keeps ==
    ASSUME TypeInv, EmailNext, NEW a \in Account, ~Purged(a)
    PROVE  /\ linked[a] => linked'[a]
           /\ \A m \in Mailbox : cp[a][m] = "completed" => cp'[a][m] = "completed"
           /\ mail[a] \subseteq mail'[a]
           /\ chunks[a] \subseteq chunks'[a]
<1> DEFINE Goal == /\ linked[a] => linked'[a]
                   /\ \A m \in Mailbox : cp[a][m] = "completed" => cp'[a][m] = "completed"
                   /\ mail[a] \subseteq mail'[a]
                   /\ chunks[a] \subseteq chunks'[a]
<1>1. /\ linked \in [Account -> BOOLEAN]
      /\ cp \in [Account -> [Mailbox -> {"none", "in_progress", "completed"}]]
      /\ mail \in [Account -> SUBSET Mailbox] /\ chunks \in [Account -> SUBSET Mailbox]
  BY DEF TypeInv, AccountTypes, MailTypes
<1>2. ASSUME NEW t \in tasks, TaskStep(t)
      PROVE  Goal
  <2>1. t.acct \in Account /\ TaskShape(t)
    BY TaskFields DEF TypeInv, TaskTypes
  <2>2. CASE StartStep(t) \/ ParentStep(t) \/ WatchdogStep(t)
    BY <2>2 DEF StartStep, SignalEnqueues, LoginEnqueues, ParentStep, ParentSkips,
       ParentFindsDeleted, ParentBegins, ParentFindsNoMailboxes, ParentDispatches,
       WatchdogStep, WatchdogStops, WatchdogDispatches, WatchdogPolls, WatchdogGivesUp,
       accountVars, mailVars, indexVars
  <2>3. CASE ChildStep(t)
    <3>1. PICK m \in Mailbox : m = MailboxOf(t) /\ t.of = {m}
      BY <2>1, <2>3 DEF MailboxOf, TaskShape, ChildStep, ChildAlreadyDone, ChildFindsNoKey,
         ChildBegins, ChildFetches, ChildCompletes, Is, TypeInv, AccountTypes
    <3>2. CASE ChildAlreadyDone(t) \/ ChildFetches(t)
      BY <1>1, <2>1, <3>2 DEF ChildAlreadyDone, ChildFetches, accountVars, mailVars, indexVars
    <3>3. CASE ChildFindsNoKey(t) \/ ChildBegins(t)
      BY <1>1, <2>1, <3>1, <3>3 DEF ChildFindsNoKey, ChildBegins, accountVars, indexVars
    <3>4. CASE ChildCompletes(t)
      BY <1>1, <2>1, <3>1, <3>4 DEF ChildCompletes, accountVars, indexVars
    <3> QED BY <2>3, <3>2, <3>3, <3>4 DEF ChildStep
  <2>4. CASE CallbackStep(t)
    BY <2>4 DEF CallbackStep, CallbackFindsNoKey, CallbackBegins, CallbackProcesses,
       CallbackFindsGone, CallbackCommits, CallbackEnqueues, CallbackFinishes, accountVars,
       mailVars, indexVars
  <2>5. CASE IndexStep(t)
    BY <1>1, <2>1, <2>5 DEF IndexStep, IndexFindsNoKey, IndexTakesKey, IndexFindsNothing, IndexPlans,
       IndexFetches, IndexWrites, IndexCommits, IndexEnds, accountVars, mailVars, indexVars
  <2>6. CASE DisconnectCommits(t)
    <3>1. a \notin t.of
      BY <2>6 DEF Purged
    <3> QED BY <1>1, <2>6, <3>1 DEF DisconnectCommits
  <2> QED BY <1>2, <2>2, <2>3, <2>4, <2>5, <2>6, TaskSteps
<1>3. ASSUME EmailEnvironment
      PROVE  Goal
  <2>1. ASSUME NEW b \in Account, Connect(b) \/ BeatTick(b) \/ Disconnect(b)
        PROVE  Goal
    BY <1>1, <2>1 DEF Connect, BeatTick, Disconnect, accountVars, mailVars, indexVars
  <2>2. CASE LoginRecovers \/ KeyLapses
    BY <2>2 DEF LoginRecovers, KeyLapses, accountVars, mailVars, indexVars
  <2>3. ASSUME NEW t \in tasks, Dies(t) \/ IsKilled(t) \/ Raises(t) \/ PipelineFails(t) \/ \E m \in Mailbox : IndexSwallows(t, m)
        PROVE  Goal
    BY <2>3 DEF Dies, IsKilled, Raises, PipelineFails, IndexSwallows, accountVars, mailVars, indexVars
  <2> QED BY <1>3, <2>1, <2>2, <2>3 DEF EmailEnvironment
<1> QED BY <1>2, <1>3 DEF EmailNext

(* While nobody disconnects, flags are only cleared. *)
LEMMA Calm ==
    ASSUME TypeInv, EmailNext, ~Disconnecting', NEW a \in Account
    PROVE  ~Purged(a) /\ (cancel'[a] => cancel[a])
<1>1. cancel \in [Account -> BOOLEAN]
  BY DEF TypeInv, AccountTypes
<1>2. ~Disconnecting
  BY CounterTyped DEF Disconnecting
<1>3. ~Purged(a)
  BY <1>2, NoDisconnectTask DEF Purged, DisconnectCommits, Is
<1>4. ASSUME NEW b, ClearsFlag(b)
      PROVE  cancel'[a] => cancel[a]
  BY <1>1, <1>4 DEF ClearsFlag
<1>5. ASSUME NEW b, FinishSync(b)
      PROVE  cancel'[a] => cancel[a]
  BY <1>4, <1>5 DEF FinishSync
<1>6. ASSUME NEW t \in tasks, TaskStep(t)
      PROVE  cancel'[a] => cancel[a]
  <2>1. CASE StartStep(t) \/ ParentStep(t) \/ ChildStep(t)
    BY <1>5, <2>1 DEF StartStep, SignalEnqueues, LoginEnqueues, ParentStep, ParentSkips,
       ParentFindsDeleted, ParentBegins, ParentFindsNoMailboxes, ParentDispatches, ChildStep,
       ChildAlreadyDone, ChildFindsNoKey, ChildBegins, ChildFetches, ChildCompletes
  <2>2. CASE WatchdogStep(t)
    BY <1>4, <1>5, <2>2 DEF WatchdogStep, WatchdogStops, WatchdogDispatches, WatchdogPolls, WatchdogGivesUp
  <2>3. CASE CallbackStep(t)
    BY <1>5, <2>3 DEF CallbackStep, CallbackFindsNoKey, CallbackBegins, CallbackProcesses,
       CallbackFindsGone, CallbackCommits, CallbackEnqueues, CallbackFinishes
  <2>4. CASE IndexStep(t) \/ DisconnectCommits(t)
    BY <2>4 DEF IndexStep, IndexFindsNoKey, IndexTakesKey, IndexFindsNothing, IndexPlans,
       IndexFetches, IndexWrites, IndexCommits, IndexEnds, DisconnectCommits
  <2> QED BY <1>6, <2>1, <2>2, <2>3, <2>4, TaskSteps
<1>7. ASSUME EmailEnvironment
      PROVE  cancel'[a] => cancel[a]
  <2>1. ~\E b \in Account : Disconnect(b)
    BY DEF Disconnecting, Disconnect, Happens
  <2>2. \A b : Connect(b) => (cancel'[a] => cancel[a])
    BY <1>5 DEF Connect
  <2>3. \A t : PipelineFails(t) => (cancel'[a] => cancel[a])
    BY <1>4 DEF PipelineFails
  <2> QED BY <1>7, <2>1, <2>2, <2>3 DEF EmailEnvironment, BeatTick, LoginRecovers, KeyLapses, Dies, IsKilled, Raises,
            IndexSwallows
<1> QED BY <1>3, <1>6, <1>7 DEF EmailNext

(* Part 3.  Success is earned: the watchdog hands over only when as many mailboxes are
   completed as the parent found, and those completed are among those of the account;
   nothing but a disconnect undoes a completed mailbox. *)
Earned ==
    ~Disconnecting =>
        /\ \A a \in Account : ~cancel[a]
        /\ \A t \in tasks : t.kind # "login" => linked[t.acct]
        /\ \A t \in tasks : t.kind = "callback" => boxes[t.acct] \subseteq Completed(t.acct)
        /\ \A a \in Account : bar[a] = "ok" => boxes[a] \subseteq Completed(a)

LEMMA AllCompleted ==
    ASSUME TypeInv, NEW t \in tasks, WatchdogDispatches(t)
    PROVE  boxes[t.acct] \subseteq Completed(t.acct)
<1>1. t.acct \in Account /\ t.of = boxes[t.acct] /\ boxes[t.acct] \subseteq Mailbox
  BY TaskFields DEF TypeInv, TaskTypes, TaskShape, AccountTypes, WatchdogDispatches, Is
<1>2. Completed(t.acct) \subseteq boxes[t.acct]
  BY <1>1 DEF TypeInv, MailTypes
<1>3. IsFiniteSet(boxes[t.acct])
  BY <1>1, FS_Subset, EmailAssumption
<1>4. /\ Cardinality(Completed(t.acct)) <= Cardinality(boxes[t.acct])
      /\ Cardinality(Completed(t.acct)) = Cardinality(boxes[t.acct]) => Completed(t.acct) = boxes[t.acct]
  BY <1>2, <1>3, FS_Subset
<1>5. IsFiniteSet(Completed(t.acct))
  BY <1>2, <1>3, FS_Subset
<1>6. Cardinality(Completed(t.acct)) \in Nat /\ Cardinality(boxes[t.acct]) \in Nat
  BY <1>3, <1>5, FS_CardinalityType
<1>7. Cardinality(Completed(t.acct)) >= Cardinality(boxes[t.acct])
  BY <1>1 DEF WatchdogDispatches
<1> QED BY <1>4, <1>6, <1>7

LEMMA CompletedStays ==
    ASSUME TypeInv, EmailNext, ~Disconnecting', NEW a \in Account,
           boxes[a] \subseteq Completed(a)
    PROVE  boxes'[a] \subseteq Completed(a)'
<1>1. UNCHANGED boxes
  BY EnvironmentKeeps, TaskStepKeeps DEF EmailNext
<1>2. \A m \in Mailbox : cp[a][m] = "completed" => cp'[a][m] = "completed"
  BY Calm, Keeps
<1> QED BY <1>1, <1>2 DEF Completed

(* "ok" is said when there is nothing to sync and at the end of the callback. *)
LEMMA OkIsSaid ==
    ASSUME TypeInv, EmailNext, NEW a \in Account, bar'[a] = "ok"
    PROVE  \/ bar[a] = "ok"
           \/ boxes[a] = {}
           \/ \E t \in tasks : t.kind = "callback" /\ t.acct = a
<1>1. bar \in [Account -> {"idle", "active", "ok", "failed"}]
  BY DEF TypeInv, AccountTypes
<1>2. ASSUME NEW b, Says(b, "active") \/ Says(b, "failed")
      PROVE  bar[a] = "ok"
  BY <1>1, <1>2 DEF Says
<1>3. ASSUME NEW b, Says(b, "ok"), b # a
      PROVE  bar[a] = "ok"
  BY <1>1, <1>3 DEF Says
<1>4. ASSUME NEW t \in tasks, TaskStep(t)
      PROVE  \/ bar[a] = "ok" \/ boxes[a] = {}
             \/ \E u \in tasks : u.kind = "callback" /\ u.acct = a
  <2>1. CASE StartStep(t) \/ ParentStep(t)
    BY <1>2, <1>3, <2>1 DEF StartStep, SignalEnqueues, LoginEnqueues, ParentStep, ParentSkips,
       ParentFindsDeleted, ParentBegins, ParentFindsNoMailboxes, ParentDispatches
  <2>2. CASE ChildStep(t) \/ WatchdogStep(t)
    BY <1>2, <2>2 DEF ChildStep, ChildAlreadyDone, ChildFindsNoKey, ChildBegins,
       ChildFetches, ChildCompletes, WatchdogStep, WatchdogStops, WatchdogDispatches,
       WatchdogPolls, WatchdogGivesUp
  <2>3. CASE CallbackStep(t)
    <3>1. t.kind = "callback"
      BY <2>3 DEF CallbackStep, CallbackFindsNoKey, CallbackBegins, CallbackProcesses, CallbackFindsGone,
         CallbackCommits, CallbackEnqueues, CallbackFinishes, Is
    <3>2. CASE CallbackProcesses(t)
      BY <1>1, <3>2 DEF CallbackProcesses
    <3> QED BY <1>3, <2>3, <3>1, <3>2 DEF CallbackStep, CallbackFindsNoKey, CallbackBegins,
         CallbackFindsGone, CallbackCommits, CallbackEnqueues, CallbackFinishes
  <2>4. CASE IndexStep(t) \/ DisconnectCommits(t)
    BY <1>2, <2>4 DEF IndexStep, IndexFindsNoKey, IndexTakesKey, IndexFindsNothing, IndexPlans,
       IndexFetches, IndexWrites, IndexCommits, IndexEnds, DisconnectCommits
  <2> QED BY <1>4, <2>1, <2>2, <2>3, <2>4, TaskSteps
<1>5. ASSUME EmailEnvironment
      PROVE  bar[a] = "ok"
  <2>1. ASSUME NEW t, Dies(t) \/ IsKilled(t) \/ Raises(t)
        PROVE  bar[a] = "ok"
    BY <1>2, <2>1 DEF Dies, IsKilled, Raises, Leaves
  <2> QED BY <1>2, <1>5, <2>1 DEF EmailEnvironment, Connect, BeatTick, Disconnect, LoginRecovers,
            KeyLapses, PipelineFails, IndexSwallows
<1> QED BY <1>4, <1>5 DEF EmailNext

LEMMA EarnedInit == EmailInit => Earned
<1> SUFFICES ASSUME EmailInit PROVE Earned
  OBVIOUS
<1> QED BY DEF EmailInit, Earned

LEMMA EarnedStep ==
    ASSUME TypeInv, Earned, [EmailNext]_emailVars
    PROVE  Earned'
<1>1. CASE EmailNext
  <2> SUFFICES ASSUME ~Disconnecting'
               PROVE  /\ \A a \in Account : ~cancel'[a]
                      /\ \A u \in tasks' : u.kind # "login" => linked'[u.acct]
                      /\ \A u \in tasks' : u.kind = "callback" => boxes'[u.acct] \subseteq Completed(u.acct)'
                      /\ \A a \in Account : bar'[a] = "ok" => boxes'[a] \subseteq Completed(a)'
    BY DEF Earned
  <2>1. ~Disconnecting
    BY <1>1, CounterTyped DEF Disconnecting
  <2>2. /\ \A a \in Account : ~cancel[a]
        /\ \A t \in tasks : t.kind # "login" => linked[t.acct]
        /\ \A t \in tasks : t.kind = "callback" => boxes[t.acct] \subseteq Completed(t.acct)
        /\ \A a \in Account : bar[a] = "ok" => boxes[a] \subseteq Completed(a)
    BY <2>1 DEF Earned
  <2>3. \A t \in tasks : t \in Tasks /\ t.acct \in Account
    BY TaskFields DEF TypeInv, TaskTypes
  <2>4. \A a \in Account : ~cancel'[a] /\ (linked[a] => linked'[a])
    BY <1>1, <2>2, Calm, Keeps
  <2>5. \A a \in Account : boxes[a] \subseteq Completed(a) => boxes'[a] \subseteq Completed(a)'
    BY <1>1, CompletedStays
  <2>6. ASSUME NEW u \in tasks', u \notin tasks
        PROVE  /\ u.kind # "login" => linked'[u.acct]
               /\ u.kind = "callback" => u.acct \in Account /\ boxes[u.acct] \subseteq Completed(u.acct)
    <3>1. ASSUME NEW t \in tasks, TaskStep(t)
          PROVE  /\ u.kind # "login" => linked'[u.acct]
                 /\ u.kind = "callback" => u.acct \in Account /\ boxes[u.acct] \subseteq Completed(u.acct)
      <4>1. CASE u.kind = t.kind /\ u.acct = t.acct
        BY <2>2, <2>3, <2>4, <4>1
      <4>2. CASE /\ u.kind = "retry" /\ u.acct \in Account /\ linked[u.acct]
        BY <2>4, <4>2
      <4>3. CASE u.acct = t.acct /\ (SignalEnqueues(t) \/ ParentDispatches(t) \/ CallbackEnqueues(t))
                 /\ u.kind # "callback"
        BY <2>2, <2>3, <2>4, <4>3 DEF SignalEnqueues, ParentDispatches, CallbackEnqueues, Is
      <4>4. CASE u.acct = t.acct /\ WatchdogDispatches(t)
        BY <2>2, <2>3, <2>4, <4>4, AllCompleted DEF WatchdogDispatches, Is
      <4> QED BY <2>6, <3>1, <4>1, <4>2, <4>3, <4>4, Origin
    <3>2. ASSUME EmailEnvironment
          PROVE  /\ u.kind # "login" => linked'[u.acct]
                 /\ u.kind = "callback" => u.acct \in Account /\ boxes[u.acct] \subseteq Completed(u.acct)
      <4>1. u.acct \in Account /\ linked \in [Account -> BOOLEAN]
        BY <2>6, <3>2, EnvironmentTasks, TaskFields DEF TypeInv, AccountTypes
      <4>2. ~\E a \in Account : Disconnect(a)
        BY DEF Disconnecting, Disconnect, Happens
      <4>3. CASE Connect(u.acct) /\ u.kind = "signal"
        BY <4>1, <4>3 DEF Connect
      <4>4. CASE BeatTick(u.acct) /\ u.kind = "parent"
        BY <2>4, <4>1, <4>4 DEF BeatTick
      <4>5. CASE \E t \in tasks : t.kind = u.kind /\ t.acct = u.acct
        BY <2>2, <2>3, <2>4, <4>5
      <4>6. CASE Left(u)
        <5>1. PICK t \in tasks : t.kind = "parent" /\ t.acct = u.acct /\ u.kind = "child"
          BY <4>6 DEF Left, Is
        <5> QED BY <2>2, <2>3, <2>4, <5>1
      <4> QED BY <2>6, <3>2, <4>2, <4>3, <4>4, <4>5, <4>6, EnvironmentOrigin DEF Again
    <3> QED BY <1>1, <3>1, <3>2 DEF EmailNext
  <2>7. ASSUME NEW u \in tasks'
        PROVE  /\ u.kind # "login" => linked'[u.acct]
               /\ u.kind = "callback" => boxes'[u.acct] \subseteq Completed(u.acct)'
    BY <2>2, <2>3, <2>4, <2>5, <2>6
  <2>8. ASSUME NEW a \in Account, bar'[a] = "ok"
        PROVE  boxes'[a] \subseteq Completed(a)'
    BY <1>1, <2>2, <2>5, <2>8, OkIsSaid
  <2> QED BY <2>4, <2>7, <2>8
<1>2. CASE UNCHANGED emailVars
  BY <1>2 DEF emailVars, Earned, Disconnecting, Completed
<1> QED BY <1>1, <1>2

(* The reports are true, whatever crashed, stalled, lapsed or ran at the same time: the
   sync says "ok" only of an account whose mailboxes are all completed. *)
THEOREM EmailSoundSafe == EmailSpec => []EmailSound
<1>1. EmailInit => TypeInv /\ Earned
  BY TypeInit, EarnedInit
<1>2. TypeInv /\ Earned /\ [EmailNext]_emailVars => TypeInv' /\ Earned'
  BY TypeStep, EarnedStep
<1>3. TypeInv /\ Earned => EmailSound
  <2> SUFFICES ASSUME TypeInv, Earned PROVE EmailSound
    OBVIOUS
  <2>1. Safe({"disconnect"}) => ~Disconnecting
    BY DEF Safe, Disconnecting
  <2> QED BY <2>1, TypeInvTypes DEF EmailSound, SuccessIsEarned, Earned
<1> QED BY <1>1, <1>2, <1>3, PTL DEF EmailSpec

(* Part 4.  A disconnect stops indexing: while no task that ended has cleared a flag,
   the flag of a disconnect under way stays up, and the jobs that have begun have either
   an account or a flag to see. *)
KindOf(t) ==
    /\ StartStep(t) => t.kind \in {"signal", "login"} /\ t.at = "queued"
    /\ ParentStep(t) => t.kind = "parent"
    /\ ChildStep(t) => t.kind = "child"
    /\ WatchdogStep(t) => t.kind = "watchdog" /\ t.at = "queued"
    /\ CallbackStep(t) => t.kind = "callback"
    /\ IndexStep(t) => Indexes(t)
    /\ DisconnectCommits(t) => t.kind = "disconnect"

(* Which task takes a step tells its kind. *)
LEMMA OwnSteps == ASSUME NEW t PROVE KindOf(t)
<1>1. /\ StartStep(t) => t.kind \in {"signal", "login"} /\ t.at = "queued"
      /\ ParentStep(t) => t.kind = "parent"
  BY DEF StartStep, SignalEnqueues, LoginEnqueues, ParentStep, ParentSkips, ParentFindsDeleted,
     ParentBegins, ParentFindsNoMailboxes, ParentDispatches, Is
<1>2. /\ ChildStep(t) => t.kind = "child"
      /\ WatchdogStep(t) => t.kind = "watchdog" /\ t.at = "queued"
  BY DEF ChildStep, ChildAlreadyDone, ChildFindsNoKey, ChildBegins, ChildFetches, ChildCompletes,
     WatchdogStep, WatchdogStops, WatchdogDispatches, WatchdogPolls, WatchdogGivesUp, Is
<1>3. /\ CallbackStep(t) => t.kind = "callback"
      /\ IndexStep(t) => Indexes(t)
      /\ DisconnectCommits(t) => t.kind = "disconnect"
  BY DEF CallbackStep, CallbackFindsNoKey, CallbackBegins, CallbackProcesses, CallbackFindsGone,
     CallbackCommits, CallbackEnqueues, CallbackFinishes, IndexStep, IndexFindsNoKey,
     IndexTakesKey, IndexFindsNothing, IndexPlans, IndexFetches, IndexWrites, IndexCommits, IndexEnds,
     DisconnectCommits, Is
<1> QED BY <1>1, <1>2, <1>3 DEF KindOf

LEMMA FlagStays ==
    ASSUME TypeInv, EmailNext, Safe({"cleared", "fail"})', NEW a \in Account, cancel[a]
    PROVE  cancel'[a]
<1>1. cancel \in [Account -> BOOLEAN] /\ "cleared" \notin happened' /\ "fail" \notin happened'
  BY DEF TypeInv, AccountTypes, Safe
<1>2. ASSUME NEW b \in Account, FinishSync(b)
      PROVE  cancel'[a]
  <2>1. a # b
    BY <1>1, <1>2 DEF FinishSync
  <2> QED BY <1>1, <1>2, <2>1 DEF FinishSync, ClearsFlag
<1>3. ASSUME NEW t \in tasks, TaskStep(t)
      PROVE  cancel'[a]
  <2>1. t.acct \in Account
    BY TaskFields DEF TypeInv, TaskTypes
  <2>2. CASE StartStep(t) \/ ParentStep(t)
    BY <1>2, <2>1, <2>2 DEF StartStep, SignalEnqueues, LoginEnqueues, ParentStep, ParentSkips,
       ParentFindsDeleted, ParentBegins, ParentFindsNoMailboxes, ParentDispatches
  <2>3. CASE ChildStep(t)
    BY <2>3 DEF ChildStep, ChildAlreadyDone, ChildFindsNoKey, ChildBegins, ChildFetches, ChildCompletes
  <2>4. CASE WatchdogStep(t)
    <3>1. CASE WatchdogGivesUp(t)
      BY <1>1, <2>1, <3>1 DEF WatchdogGivesUp, ClearsFlag
    <3> QED BY <1>2, <2>1, <2>4, <3>1 DEF WatchdogStep, WatchdogStops, WatchdogDispatches, WatchdogPolls
  <2>5. CASE CallbackStep(t)
    BY <1>2, <2>1, <2>5 DEF CallbackStep, CallbackFindsNoKey, CallbackBegins, CallbackProcesses,
       CallbackFindsGone, CallbackCommits, CallbackEnqueues, CallbackFinishes
  <2>6. CASE IndexStep(t) \/ DisconnectCommits(t)
    BY <2>6 DEF IndexStep, IndexFindsNoKey, IndexTakesKey, IndexFindsNothing, IndexPlans,
       IndexFetches, IndexWrites, IndexCommits, IndexEnds, DisconnectCommits
  <2> QED BY <1>3, <2>2, <2>3, <2>4, <2>5, <2>6, TaskSteps
<1>4. ASSUME EmailEnvironment
      PROVE  cancel'[a]
  <2>1. \A t \in tasks : ~PipelineFails(t)
    BY <1>1 DEF PipelineFails, Happens
  <2>2. \A b \in Account : Connect(b) => cancel'[a]
    BY <1>2 DEF Connect
  <2>3. \A b \in Account : Disconnect(b) => cancel'[a]
    BY DEF Disconnect
  <2> QED BY <1>4, <2>1, <2>2, <2>3 DEF EmailEnvironment, BeatTick, LoginRecovers, KeyLapses, Dies, IsKilled, Raises,
            IndexSwallows
<1> QED BY <1>3, <1>4 DEF EmailNext

(* Only a disconnect purges an account, and all of its chunks with it; only an indexing
   job that sees no flag adds some. *)
LEMMA Purges ==
    ASSUME TypeInv, EmailNext, NEW a \in Account
    PROVE  \/ (linked[a] => linked'[a]) /\ chunks'[a] = chunks[a]
           \/ \E t \in tasks : t.kind = "disconnect" /\ a \in t.of /\ ~linked'[a] /\ chunks'[a] = {}
           \/ /\ linked'[a] = linked[a]
              /\ \E t \in tasks : t.acct = a /\ chunks'[a] \subseteq chunks[a] \cup t.writes
<1> DEFINE Kept == (linked[a] => linked'[a]) /\ chunks'[a] = chunks[a]
           Gone == \E t \in tasks : t.kind = "disconnect" /\ a \in t.of /\ ~linked'[a] /\ chunks'[a] = {}
           Added == /\ linked'[a] = linked[a]
                    /\ \E t \in tasks : t.acct = a /\ chunks'[a] \subseteq chunks[a] \cup t.writes
<1>1. linked \in [Account -> BOOLEAN] /\ chunks \in [Account -> SUBSET Mailbox]
  BY DEF TypeInv, AccountTypes, MailTypes
<1>2. UNCHANGED <<linked, chunks>> => Kept
  OBVIOUS
<1>3. ASSUME NEW t \in tasks, TaskStep(t)
      PROVE  Kept \/ Gone \/ Added
  <2>1. CASE StartStep(t) \/ ParentStep(t) \/ ChildStep(t) \/ WatchdogStep(t)
    BY <1>2, <2>1 DEF StartStep, SignalEnqueues, LoginEnqueues, ParentStep, ParentSkips, ParentFindsDeleted,
       ParentBegins, ParentFindsNoMailboxes, ParentDispatches, ChildStep, ChildAlreadyDone,
       ChildFindsNoKey, ChildBegins, ChildFetches, ChildCompletes, WatchdogStep, WatchdogStops,
       WatchdogDispatches, WatchdogPolls, WatchdogGivesUp, accountVars, indexVars
  <2>2. CASE CallbackStep(t)
    BY <1>2, <2>2 DEF CallbackStep, CallbackFindsNoKey, CallbackBegins, CallbackProcesses,
       CallbackFindsGone, CallbackCommits, CallbackEnqueues, CallbackFinishes, accountVars, indexVars
  <2>3. CASE IndexStep(t)
    <3>1. ASSUME NEW m \in t.writes, IndexCommits(t, m)
          PROVE  Kept \/ Added
      <4>1. CASE t.acct = a
        BY <1>1, <3>1, <4>1 DEF IndexCommits, accountVars
      <4>2. CASE t.acct # a
        BY <1>1, <3>1, <4>2 DEF IndexCommits, accountVars
      <4> QED BY <4>1, <4>2
    <3>2. ASSUME NEW m \in t.of, IndexWrites(t, m)
          PROVE  Kept
      BY <1>2, <3>2 DEF IndexWrites, accountVars, indexVars
    <3> HIDE DEF Kept, Added
    <3> QED BY <1>2, <2>3, <3>1, <3>2 DEF IndexStep, IndexFindsNoKey, IndexTakesKey, IndexFindsNothing,
         IndexPlans, IndexFetches, IndexEnds, accountVars, indexVars
  <2>4. CASE DisconnectCommits(t)
    <3>1. CASE a \in t.of
      BY <2>4, <3>1 DEF DisconnectCommits, Is
    <3>2. CASE a \notin t.of
      BY <1>1, <2>4, <3>2 DEF DisconnectCommits
    <3> QED BY <3>1, <3>2
  <2> HIDE DEF Kept, Gone, Added
  <2> QED BY <1>3, <2>1, <2>2, <2>3, <2>4, TaskSteps
<1>4. ASSUME EmailEnvironment
      PROVE  Kept
  <2>1. \A b \in Account : Connect(b) => Kept
    BY <1>1 DEF Connect, indexVars
  <2>2. LoginRecovers => Kept
    BY DEF LoginRecovers, accountVars
  <2> QED BY <1>2, <1>4, <2>1, <2>2 DEF EmailEnvironment, BeatTick, Disconnect, KeyLapses, Dies, IsKilled,
            Raises, PipelineFails, IndexSwallows, accountVars, indexVars
<1> HIDE DEF Kept, Gone, Added
<1>5. Kept \/ Gone \/ Added
  BY <1>3, <1>4 DEF EmailNext
<1> QED BY <1>5 DEF Kept, Gone, Added

(* A job that has begun found its account. *)
LEMMA IndexBegins ==
    ASSUME TypeInv, EmailNext, "fail" \notin happened',
           NEW u \in tasks', u \notin tasks, Indexes(u), u.at # "queued"
    PROVE  \E t \in tasks : Indexes(t) /\ t.acct = u.acct /\ (t.at # "queued" \/ linked[t.acct])
<1>1. ASSUME NEW t \in tasks, TaskStep(t)
      PROVE  Indexes(t) /\ t.acct = u.acct /\ (t.at # "queued" \/ linked[t.acct])
  <2>1. Indexes(t) /\ t.acct = u.acct
    BY <1>1, Origin DEF Indexes
  <2>2. IndexStep(t)
    BY <1>1, <2>1, TaskSteps, OwnSteps DEF KindOf, Indexes
  <2>3. ASSUME t.at = "queued"
        PROVE  linked[t.acct]
    BY <2>2, <2>3 DEF IndexStep, IndexFindsNoKey, IndexTakesKey, IndexFindsNothing, IndexPlans,
       IndexFetches, IndexWrites, IndexCommits, IndexEnds, Ends, Becomes
  <2> QED BY <2>1, <2>3
<1>2. ~EmailEnvironment
  BY EnvironmentOrigin DEF Indexes, IndexSwallows, Happens, Again, Left
<1> QED BY <1>1, <1>2 DEF EmailNext

(* Who writes chunks of an account that is going: overtaken says which. *)
Doomed(a) == cancel[a] \/ ~linked[a]

Stops ==
    Safe({"cleared", "fail"}) =>
        /\ \A t \in tasks : t.kind = "disconnect" => \A a \in Account \cap t.of : cancel[a]
        /\ \A t \in tasks : Indexes(t) /\ t.at # "queued" => linked[t.acct] \/ cancel[t.acct]
        /\ \A t \in tasks : Doomed(t.acct) => t.writes \subseteq overtaken[t.acct]
        /\ \A a \in Account : ~linked[a] => chunks[a] \subseteq overtaken[a]

LEMMA StopsInit == EmailInit => Stops
<1> SUFFICES ASSUME EmailInit PROVE Stops
  OBVIOUS
<1>1. PICK w \in Worlds : chunks = w.chunks
  BY DEF EmailInit
<1>2. \A a \in Account : ~linked[a] => chunks[a] = {}
  BY <1>1, EmailAssumption DEF EmailInit
<1> QED BY <1>2 DEF EmailInit, Stops

(* What a disconnect overtook is not forgotten. *)
LEMMA OvertakenStays ==
    ASSUME TypeInv, EmailNext, NEW a \in Account
    PROVE  /\ overtaken[a] \subseteq overtaken'[a]
           /\ \A b \in Account : Disconnect(b) /\ linked[a] => Writing(a) \subseteq overtaken'[a]
<1>1. ASSUME NEW t \in tasks, TaskStep(t)
      PROVE  UNCHANGED overtaken
  <2>1. CASE StartStep(t) \/ ParentStep(t) \/ ChildStep(t) \/ WatchdogStep(t)
    BY <2>1 DEF StartStep, SignalEnqueues, LoginEnqueues, ParentStep, ParentSkips, ParentFindsDeleted,
       ParentBegins, ParentFindsNoMailboxes, ParentDispatches, ChildStep, ChildAlreadyDone,
       ChildFindsNoKey, ChildBegins, ChildFetches, ChildCompletes, WatchdogStep, WatchdogStops,
       WatchdogDispatches, WatchdogPolls, WatchdogGivesUp, accountVars
  <2>2. CASE CallbackStep(t)
    BY <2>2 DEF CallbackStep, CallbackFindsNoKey, CallbackBegins, CallbackProcesses,
       CallbackFindsGone, CallbackCommits, CallbackEnqueues, CallbackFinishes, accountVars
  <2>3. CASE IndexStep(t) \/ DisconnectCommits(t)
    BY <2>3 DEF IndexStep, IndexFindsNoKey, IndexTakesKey, IndexFindsNothing, IndexPlans,
       IndexFetches, IndexWrites, IndexCommits, IndexEnds, DisconnectCommits, accountVars
  <2> QED BY <1>1, <2>1, <2>2, <2>3, TaskSteps
<1>2. ASSUME NEW b \in Account, Disconnect(b)
      PROVE  /\ overtaken[a] \subseteq overtaken'[a]
             /\ linked[a] => Writing(a) \subseteq overtaken'[a]
  BY <1>2 DEF Disconnect
<1>3. ASSUME EmailEnvironment, \A b \in Account : ~Disconnect(b)
      PROVE  UNCHANGED overtaken
  BY <1>3 DEF EmailEnvironment, Connect, BeatTick, LoginRecovers, KeyLapses, Dies, IsKilled, Raises,
     PipelineFails, IndexSwallows, accountVars
<1> QED BY <1>1, <1>2, <1>3 DEF EmailNext

(* A flag goes up only by a disconnect, which finds the account linked. *)
LEMMA Dooms ==
    ASSUME TypeInv, EmailNext, NEW a \in Account, cancel'[a], ~cancel[a]
    PROVE  linked[a] /\ \E b \in Account : Disconnect(b)
<1>1. cancel \in [Account -> BOOLEAN]
  BY DEF TypeInv, AccountTypes
<1>2. ASSUME NEW b, ClearsFlag(b)
      PROVE  FALSE
  BY <1>1, <1>2 DEF ClearsFlag
<1>3. ASSUME NEW b, FinishSync(b)
      PROVE  FALSE
  BY <1>2, <1>3 DEF FinishSync
<1>4. ASSUME NEW t \in tasks, TaskStep(t)
      PROVE  FALSE
  <2>1. CASE StartStep(t) \/ ParentStep(t) \/ ChildStep(t)
    BY <1>3, <2>1 DEF StartStep, SignalEnqueues, LoginEnqueues, ParentStep, ParentSkips,
       ParentFindsDeleted, ParentBegins, ParentFindsNoMailboxes, ParentDispatches, ChildStep,
       ChildAlreadyDone, ChildFindsNoKey, ChildBegins, ChildFetches, ChildCompletes
  <2>2. CASE WatchdogStep(t)
    BY <1>2, <1>3, <2>2 DEF WatchdogStep, WatchdogStops, WatchdogDispatches, WatchdogPolls, WatchdogGivesUp
  <2>3. CASE CallbackStep(t)
    BY <1>3, <2>3 DEF CallbackStep, CallbackFindsNoKey, CallbackBegins, CallbackProcesses,
       CallbackFindsGone, CallbackCommits, CallbackEnqueues, CallbackFinishes
  <2>4. CASE IndexStep(t) \/ DisconnectCommits(t)
    BY <2>4 DEF IndexStep, IndexFindsNoKey, IndexTakesKey, IndexFindsNothing, IndexPlans,
       IndexFetches, IndexWrites, IndexCommits, IndexEnds, DisconnectCommits
  <2> QED BY <1>4, <2>1, <2>2, <2>3, <2>4, TaskSteps
<1>5. EmailEnvironment
  BY <1>4 DEF EmailNext
<1>6. \A b : ~Connect(b) /\ ~PipelineFails(b)
  BY <1>2, <1>3 DEF Connect, PipelineFails
<1>7. PICK b \in Account : Disconnect(b)
  BY <1>5, <1>6 DEF EmailEnvironment, BeatTick, LoginRecovers, KeyLapses, Dies, IsKilled, Raises, IndexSwallows
<1>8. linked[a]
  BY <1>7 DEF Disconnect
<1> QED BY <1>7, <1>8

LEMMA StopsStep ==
    ASSUME TypeInv, Stops, [EmailNext]_emailVars
    PROVE  Stops'
<1>1. CASE EmailNext
  <2> SUFFICES ASSUME Safe({"cleared", "fail"})'
               PROVE  /\ \A u \in tasks' : u.kind = "disconnect" => \A a \in Account \cap u.of : cancel'[a]
                      /\ \A u \in tasks' : Indexes(u) /\ u.at # "queued" => linked'[u.acct] \/ cancel'[u.acct]
                      /\ \A u \in tasks' : cancel'[u.acct] \/ ~linked'[u.acct] =>
                                              u.writes \subseteq overtaken'[u.acct]
                      /\ \A a \in Account : ~linked'[a] => chunks'[a] \subseteq overtaken'[a]
    BY DEF Stops, Doomed, Indexes
  <2>1. Safe({"cleared", "fail"}) /\ "fail" \notin happened'
    BY <1>1, CounterTyped DEF Safe
  <2>2. /\ \A t \in tasks : t.kind = "disconnect" => \A a \in Account \cap t.of : cancel[a]
        /\ \A t \in tasks : Indexes(t) /\ t.at # "queued" => linked[t.acct] \/ cancel[t.acct]
        /\ \A t \in tasks : Doomed(t.acct) => t.writes \subseteq overtaken[t.acct]
        /\ \A a \in Account : ~linked[a] => chunks[a] \subseteq overtaken[a]
    BY <2>1 DEF Stops
  <2>3. \A a \in Account : cancel[a] => cancel'[a]
    BY <1>1, FlagStays
  <2>4. \A a \in Account : linked[a] => linked'[a] \/ (cancel[a] /\ cancel'[a])
    BY <1>1, <2>2, <2>3, Purges
  <2>5. \A t \in tasks : t.acct \in Account
    BY TaskFields DEF TypeInv, TaskTypes
  <2>6. ASSUME NEW u \in tasks', u.kind = "disconnect", NEW a \in Account \cap u.of
        PROVE  cancel'[a]
    <3>1. CASE u \in tasks
      BY <2>2, <2>3, <2>6, <3>1
    <3>2. CASE u \notin tasks
      <4>1. ASSUME NEW t \in tasks, TaskStep(t)
            PROVE  t.kind = "disconnect" /\ u.of = t.of
        BY <2>6, <3>2, <4>1, Origin DEF Indexes
      <4>2. ASSUME EmailEnvironment
            PROVE  cancel'[a]
        <5>1. PICK b \in Account : Disconnect(b)
          BY <2>6, <3>2, <4>2, EnvironmentOrigin DEF Indexes, IndexSwallows, Again, Left, InServer
        <5>2. u.of = {b_1 \in Account : linked[b_1]}
          BY <2>6, <3>2, <4>2, EnvironmentOrigin DEF Indexes, IndexSwallows, Again, Left, InServer
        <5> QED BY <5>1, <5>2 DEF Disconnect
      <4> QED BY <1>1, <2>2, <2>3, <4>1, <4>2 DEF EmailNext
    <3> QED BY <3>1, <3>2
  <2>7. ASSUME NEW u \in tasks', Indexes(u), u.at # "queued"
        PROVE  linked'[u.acct] \/ cancel'[u.acct]
    <3>1. CASE u \in tasks
      BY <2>2, <2>3, <2>4, <2>5, <2>7, <3>1
    <3>2. CASE u \notin tasks
      BY <1>1, <2>1, <2>2, <2>3, <2>4, <2>5, <2>7, <3>2, IndexBegins
    <3> QED BY <3>1, <3>2
  <2>8. ASSUME NEW a \in Account, ~linked'[a]
        PROVE  chunks'[a] \subseteq overtaken'[a]
    <3>1. linked \in [Account -> BOOLEAN]
      BY DEF TypeInv, AccountTypes
    <3>2. overtaken[a] \subseteq overtaken'[a]
      BY <1>1, OvertakenStays
    <3>3. ASSUME NEW t \in tasks, linked'[a] = linked[a], t.acct = a, chunks'[a] \subseteq chunks[a] \cup t.writes
          PROVE  chunks'[a] \subseteq overtaken'[a]
      BY <2>2, <2>8, <3>2, <3>3 DEF Doomed
    <3> QED BY <1>1, <2>2, <2>8, <3>1, <3>2, <3>3, Purges
  (* An account that is doomed now was so before, or its open writes are overtaken. *)
  <2>9. ASSUME NEW t \in tasks, cancel'[t.acct] \/ ~linked'[t.acct]
        PROVE  t.writes \subseteq overtaken'[t.acct]
    <3>1. t.acct \in Account /\ overtaken[t.acct] \subseteq overtaken'[t.acct]
      BY <1>1, <2>5, OvertakenStays
    <3>2. CASE Doomed(t.acct)
      BY <2>2, <3>1, <3>2
    <3>3. CASE ~Doomed(t.acct)
      <4>1. ~cancel[t.acct] /\ linked[t.acct] /\ cancel'[t.acct]
        BY <2>4, <2>9, <3>1, <3>3 DEF Doomed
      <4>2. \E b \in Account : Disconnect(b)
        BY <1>1, <3>1, <4>1, Dooms
      <4>3. Writing(t.acct) \subseteq overtaken'[t.acct]
        BY <1>1, <3>1, <4>1, <4>2, OvertakenStays
      <4> QED BY <4>3 DEF Writing
    <3> QED BY <3>2, <3>3
  <2>10. ASSUME NEW u \in tasks', cancel'[u.acct] \/ ~linked'[u.acct]
         PROVE  u.writes \subseteq overtaken'[u.acct]
    <3>1. CASE u \in tasks
      BY <2>9, <2>10, <3>1
    <3>2. ASSUME NEW t \in tasks, t.acct = u.acct, u.writes \subseteq t.writes
          PROVE  u.writes \subseteq overtaken'[u.acct]
      BY <2>9, <2>10, <3>2
    <3>3. ASSUME u \notin tasks, NEW t \in tasks, TaskStep(t)
          PROVE  u.writes \subseteq overtaken'[u.acct]
      <4>1. ~Adds(t, u)
        <5> SUFFICES ASSUME Adds(t, u) PROVE FALSE
          OBVIOUS
        <5>1. linked[t.acct] /\ ~cancel[t.acct] /\ t.acct \in Account /\ u.acct = t.acct
          BY <2>2, <2>5 DEF Adds
        <5>2. ~cancel'[t.acct]
          <6>1. faults' = faults /\ faults \in Nat
            BY <3>3, TaskStepKeeps, EmailAssumption DEF TypeInv, CounterTypes
          <6>2. \A b \in Account : ~Disconnect(b)
            BY <6>1 DEF Disconnect, Happens
          <6> QED BY <1>1, <5>1, <6>2, Dooms
        <5> QED BY <2>4, <2>10, <5>1, <5>2
      <4> QED BY <3>2, <3>3, <4>1, Origin
    <3>4. ASSUME u \notin tasks, EmailEnvironment
          PROVE  u.writes \subseteq overtaken'[u.acct]
      <4>1. \/ u.writes = {}
            \/ \E t \in tasks : t.acct = u.acct /\ u.writes \subseteq t.writes
        BY <3>4, EnvironmentOrigin DEF Again, Left
      <4> QED BY <3>2, <4>1
    <3> QED BY <1>1, <3>1, <3>3, <3>4 DEF EmailNext
  <2> QED BY <2>6, <2>7, <2>8, <2>10
<1>2. CASE UNCHANGED emailVars
  BY <1>2 DEF emailVars, Stops, Doomed, Safe, Indexes
<1> QED BY <1>1, <1>2

(* A disconnect stops indexing: no chunk outlives the purge of its account but those whose
   transaction was open when the flag of the disconnect was set, unless a task that ended
   has cleared that flag. *)
THEOREM IndexStopsOnDisconnectSafe == EmailSpec => []IndexStopsOnDisconnect
<1>1. EmailInit => TypeInv /\ Stops
  BY TypeInit, StopsInit
<1>2. TypeInv /\ Stops /\ [EmailNext]_emailVars => TypeInv' /\ Stops'
  BY TypeStep, StopsStep
<1>3. TypeInv /\ Stops => IndexStopsOnDisconnect
  BY DEF Stops, IndexStopsOnDisconnect
<1> QED BY <1>1, <1>2, <1>3, PTL DEF EmailSpec

(* Part 5.  The key is consumed: while it is in the relay, one task is there that will
   take it or hand it on.  A job that is queued again after a crash is one, too; but a
   crash may run a job twice, and the second finds no key. *)
Carries(t) ==
    \/ t.kind \in {"signal", "parent", "watchdog"}
    \/ t.kind = "callback" /\ t.at # "finish"
    \/ Indexes(t) /\ t.at = "queued"

(* Where a task goes that carries the key, when nothing goes wrong and it keeps it. *)
LEMMA CarriesOn ==
    ASSUME TypeInv, NEW t \in tasks, Carries(t), TaskStep(t), key, key',
           ~cancel[t.acct], linked[t.acct], "stall" \notin happened'
    PROVE  \E u \in tasks' : Carries(u) /\ u.acct = t.acct
<1>1. ASSUME NEW v, Moves(t, v), t.kind # "callback" => t.kind \in {"parent", "watchdog"},
             t.kind = "callback" => v.at # "finish"
      PROVE  v \in tasks' /\ Carries(v) /\ v.acct = t.acct
  BY <1>1 DEF Moves, Like, Carries
<1>2. CASE StartStep(t)
  <2>1. SignalEnqueues(t)
    BY <1>2, OwnSteps DEF KindOf, Carries, StartStep, LoginEnqueues, Is, Indexes
  <2> QED BY <2>1, SignalTasks DEF Carries
<1>3. CASE ParentStep(t)
  <2>1. t.kind = "parent"
    BY <1>3, OwnSteps DEF KindOf
  <2>2. CASE ParentBegins(t)
    <3>1. PICK v : Moves(t, v)
      BY <2>2, GoesMoves DEF ParentBegins, Steps, TypeInv
    <3> QED BY <1>1, <2>1, <3>1
  <2>3. CASE ParentDispatches(t)
    <3>1. PICK w \in Tasks, C \in SUBSET Tasks : /\ w.kind = "watchdog" /\ w.acct = t.acct
                                                 /\ tasks' = (tasks \ {t}) \cup C \cup {w}
      BY <2>3, ParentTasks
    <3> QED BY <3>1 DEF Carries
  <2> QED BY <1>3, <2>2, <2>3 DEF ParentStep, ParentSkips, ParentFindsDeleted, ParentFindsNoMailboxes
<1>4. CASE ChildStep(t)
  BY <1>4, OwnSteps DEF KindOf, Carries, Indexes
<1>5. CASE WatchdogStep(t)
  <2>1. CASE WatchdogDispatches(t)
    BY <2>1, WatchdogTasks DEF Carries
  <2>2. CASE WatchdogPolls(t)
    <3>1. PICK v : Moves(t, v)
      BY <2>2, WatchdogMoves DEF TypeInv
    <3> QED BY <1>1, <1>5, <3>1, OwnSteps DEF KindOf
  <2> QED BY <1>5, <2>1, <2>2 DEF WatchdogStep, WatchdogStops, WatchdogGivesUp
<1>6. CASE CallbackStep(t)
  <2>1. t.kind = "callback" /\ t.at # "finish"
    BY <1>6, OwnSteps DEF KindOf, Carries, Indexes
  <2>2. CASE CallbackBegins(t) \/ CallbackProcesses(t) \/ CallbackCommits(t)
    <3>1. PICK step \in {"process", "recheck", "enqueue"} : Goes(t, step)
      BY <2>2 DEF CallbackBegins, CallbackProcesses, CallbackCommits
    <3>2. step \in Steps
      BY DEF Steps
    <3>3. PICK v : Moves(t, v) /\ v.at = step
      BY <3>1, <3>2, GoesMoves DEF TypeInv
    <3> QED BY <1>1, <2>1, <3>3
  <2>3. CASE CallbackEnqueues(t)
    <3>1. PICK v \in Tasks, w \in Tasks :
              /\ w.kind = "index" /\ w.acct = t.acct /\ w.at = "queued"
              /\ tasks' = (tasks \ {t}) \cup {v, w}
      BY <2>3, CallbackTasks
    <3> QED BY <3>1 DEF Carries, Indexes
  <2> QED BY <1>6, <2>1, <2>2, <2>3 DEF CallbackStep, CallbackFindsNoKey, CallbackFindsGone,
            CallbackFinishes, Is
<1>7. CASE IndexStep(t)
  <2>1. Indexes(t) /\ t.at = "queued"
    BY <1>7, OwnSteps DEF KindOf, Carries, Indexes
  <2> QED BY <1>7, <2>1 DEF IndexStep, IndexFindsNoKey, IndexTakesKey, IndexFindsNothing, IndexPlans,
       IndexFetches, IndexWrites, IndexCommits, IndexEnds
<1>8. CASE DisconnectCommits(t)
  BY <1>8, OwnSteps DEF KindOf, Carries, Indexes
<1> QED BY <1>2, <1>3, <1>4, <1>5, <1>6, <1>7, <1>8, TaskSteps

LEMMA OthersStay ==
    ASSUME NEW t \in tasks, TaskStep(t)
    PROVE  tasks \ {t} \subseteq tasks'
<1>1. CASE StartStep(t) \/ ParentStep(t) \/ ChildStep(t)
  BY <1>1 DEF StartStep, SignalEnqueues, LoginEnqueues, ParentStep, ParentSkips,
     ParentFindsDeleted, ParentBegins, ParentFindsNoMailboxes, ParentDispatches, ChildStep,
     ChildAlreadyDone, ChildFindsNoKey, ChildBegins, ChildFetches, ChildCompletes, Goes, Ends,
     Becomes
<1>2. CASE WatchdogStep(t) \/ CallbackStep(t)
  BY <1>2 DEF WatchdogStep, WatchdogStops, WatchdogDispatches, WatchdogPolls, WatchdogGivesUp,
     CallbackStep, CallbackFindsNoKey, CallbackBegins, CallbackProcesses, CallbackFindsGone,
     CallbackCommits, CallbackEnqueues, CallbackFinishes, Goes, Ends, Becomes
<1>3. CASE IndexStep(t) \/ DisconnectCommits(t)
  BY <1>3 DEF IndexStep, IndexFindsNoKey, IndexTakesKey, IndexFindsNothing, IndexPlans,
     IndexFetches, IndexWrites, IndexCommits, IndexEnds, DisconnectCommits, Goes, Ends, Becomes
<1> QED BY <1>1, <1>2, <1>3, TaskSteps

(* Only the click of a user and a login relay a key, and both count. *)
LEMMA KeyGiven ==
    ASSUME TypeInv, EmailNext
    PROVE  /\ UNCHANGED syncs => (key' => key)
           /\ ~UNCHANGED syncs => /\ syncs' = syncs + 1 /\ EmailEnvironment
                                  /\ \/ \E a \in Account : Connect(a) \/ BeatTick(a)
                                     \/ LoginRecovers
           /\ syncs' # 0 => syncs = syncs' \/ syncs + 1 = syncs'
           /\ syncs' = 0 => syncs = 0
<1>1. syncs \in Nat
  BY EmailAssumption DEF TypeInv, CounterTypes
<1>2. ASSUME NEW t \in tasks, TaskStep(t)
      PROVE  UNCHANGED syncs /\ (key' => key)
  <2>1. CASE StartStep(t) \/ ParentStep(t) \/ ChildStep(t)
    BY <2>1 DEF StartStep, SignalEnqueues, LoginEnqueues, ParentStep, ParentSkips,
       ParentFindsDeleted, ParentBegins, ParentFindsNoMailboxes, ParentDispatches, ChildStep,
       ChildAlreadyDone, ChildFindsNoKey, ChildBegins, ChildFetches, ChildCompletes, startVars
  <2>2. CASE WatchdogStep(t) \/ CallbackStep(t)
    BY <2>2 DEF WatchdogStep, WatchdogStops, WatchdogDispatches, WatchdogPolls, WatchdogGivesUp,
       CallbackStep, CallbackFindsNoKey, CallbackBegins, CallbackProcesses, CallbackFindsGone,
       CallbackCommits, CallbackEnqueues, CallbackFinishes, startVars
  <2>3. IndexTakesKey(t) => UNCHANGED syncs /\ ~key'
    BY DEF IndexTakesKey, startVars
  <2>4. CASE IndexStep(t)
    <3>1. IndexFindsNoKey(t) \/ IndexFindsNothing(t) \/ IndexPlans(t) => UNCHANGED <<syncs, key>>
      BY DEF IndexFindsNoKey, IndexFindsNothing, IndexPlans, startVars
    <3>2. IndexFetches(t) \/ IndexEnds(t) => UNCHANGED <<syncs, key>>
      BY DEF IndexFetches, IndexEnds, startVars
    <3>3. \A m : IndexWrites(t, m) \/ IndexCommits(t, m) => UNCHANGED <<syncs, key>>
      BY DEF IndexWrites, IndexCommits, startVars
    <3> QED BY <2>3, <2>4, <3>1, <3>2, <3>3 DEF IndexStep
  <2>5. CASE DisconnectCommits(t)
    BY <2>5 DEF DisconnectCommits, startVars
  <2> QED BY <1>2, <2>1, <2>2, <2>3, <2>4, <2>5, TaskSteps
<1>3. ASSUME EmailEnvironment
      PROVE  \/ UNCHANGED syncs /\ (key' => key)
             \/ syncs' = syncs + 1 /\ (LoginRecovers \/ \E a \in Account : Connect(a) \/ BeatTick(a))
  BY <1>3 DEF EmailEnvironment, Connect, BeatTick, Disconnect, LoginRecovers, KeyLapses, Dies, IsKilled, Raises,
     PipelineFails, IndexSwallows, Begins, startVars
<1> QED BY <1>1, <1>2, <1>3 DEF EmailNext

Consumed ==
    /\ syncs = 0 => ~key
    /\ syncs = 1 /\ Safe({"fail", "crash", "kill", "disconnect", "login", "stall"}) /\ key
          => \E t \in tasks : Carries(t)

LEMMA ConsumedStep ==
    ASSUME TypeInv, Earned, Consumed, [EmailNext]_emailVars
    PROVE  Consumed'
<1>1. CASE EmailNext
  <2>1. syncs' = 0 => ~key'
    BY <1>1, KeyGiven DEF Consumed
  <2>2. ASSUME syncs' = 1, Safe({"fail", "crash", "kill", "disconnect", "login", "stall"})', key'
        PROVE  \E u \in tasks' : Carries(u)
    <3>1. /\ Safe({"fail", "crash", "kill", "disconnect", "login", "stall"}) /\ ~Disconnecting
          /\ "stall" \notin happened' /\ "login" \notin happened'
          /\ {"fail", "crash", "kill", "disconnect"} \cap happened' = {}
      BY <1>1, <2>2, CounterTyped DEF Safe, Disconnecting
    <3>2. CASE UNCHANGED syncs
      <4>1. PICK t \in tasks : Carries(t)
        BY <1>1, <2>2, <3>1, <3>2, KeyGiven DEF Consumed
      <4>2. key
        BY <1>1, <2>2, <3>2, KeyGiven
      <4>3. t.acct \in Account /\ t.kind # "login"
        BY <4>1, TaskFields DEF TypeInv, TaskTypes, Carries, Indexes
      <4>4. ~cancel[t.acct] /\ linked[t.acct]
        BY <3>1, <4>3 DEF Earned
      <4>5. ASSUME NEW v \in tasks, TaskStep(v)
            PROVE  \E u \in tasks' : Carries(u)
        <5>1. CASE v = t
          BY <2>2, <3>1, <4>1, <4>2, <4>4, <4>5, <5>1, CarriesOn
        <5>2. CASE v # t
          BY <4>1, <4>5, <5>2, OthersStay
        <5> QED BY <5>1, <5>2
      <4>6. ASSUME EmailEnvironment
            PROVE  t \in tasks'
        BY <2>2, <3>1, <4>6 DEF EmailEnvironment, Connect, BeatTick, Begins, Disconnect, LoginRecovers, KeyLapses,
           Dies, IsKilled, Raises, PipelineFails, IndexSwallows, Happens
      <4> QED BY <1>1, <4>1, <4>5, <4>6 DEF EmailNext
    <3>3. CASE ~UNCHANGED syncs
      <4>1. PICK a \in Account : Connect(a) \/ BeatTick(a)
        BY <1>1, <3>1, <3>3, KeyGiven DEF LoginRecovers
      <4>2. "signal" \in Kinds /\ "parent" \in Kinds
        BY DEF Kinds
      <4>3. PICK kind \in {"signal", "parent"} : Begins(kind, {a}, a, {})
        BY <4>1 DEF Connect, BeatTick
      <4>4. PICK u \in Tasks : u.kind = kind /\ tasks' = tasks \cup {u}
        BY <4>2, <4>3, BeginTasks
      <4> QED BY <4>4 DEF Carries
    <3> QED BY <3>2, <3>3
  <2> QED BY <2>1, <2>2 DEF Consumed, Carries, Indexes
<1>2. CASE UNCHANGED emailVars
  BY <1>2 DEF emailVars, Consumed, Safe, Carries, Indexes
<1> QED BY <1>1, <1>2

(* The indexing job is the true last consumer: when a first sync is over, the key is gone
   from the relay, if nothing went wrong. *)
THEOREM KeyConsumedSafe == EmailSpec => []KeyConsumed
<1>1. EmailInit => TypeInv /\ Earned /\ Consumed
  <2>1. EmailInit => Consumed
    BY DEF EmailInit, Consumed
  <2> QED BY <2>1, TypeInit, EarnedInit
<1>2. TypeInv /\ Earned /\ Consumed /\ [EmailNext]_emailVars => TypeInv' /\ Earned' /\ Consumed'
  BY TypeStep, EarnedStep, ConsumedStep
<1>3. Consumed => KeyConsumed
  BY DEF Consumed, KeyConsumed
<1> QED BY <1>1, <1>2, <1>3, PTL DEF EmailSpec

(* Part 6.  One sync at a time: what a task puts into the queue in its place. *)
Early == {"signal", "parent", "watchdog"}
Ending(t) == t.kind = "callback" \/ Indexes(t)

Follows(t, N) ==
    /\ \A u \in N : u \in Tasks /\ u.acct = t.acct /\ u.kind \notin {"login", "disconnect"}
    /\ \A u \in N : u.kind \in Early => t.kind \in Early /\ \A w \in N : w.kind \in Early => w = u
    /\ \A u \in N : u.kind \in {"signal", "parent"} =>
          N = {u} /\ t.kind \in {"signal", "parent"} /\ (SignalEnqueues(t) => u.at = "queued")
    /\ \A u \in N : Carries(u) => Carries(t) /\ \A w \in N : Carries(w) => w = u
    /\ \A u \in N : u.kind = "child" =>
          \/ t.kind = "child" /\ u.of = t.of /\ u.at # "queued" /\ N = {u}
             /\ (t.at # "queued" \/ ChildBegins(t))
          \/ ParentDispatches(t) /\ u.at = "queued"
    /\ \A u \in N : Ending(u) => Ending(t) \/ WatchdogDispatches(t)
    /\ \A u \in N : Indexes(u) => Ending(t)
    /\ Indexes(t) => \A u \in N : ~Carries(u)
    /\ SignalEnqueues(t) => \A u \in N : Is(u, "parent", "queued")

LEMMA FollowsNone == ASSUME NEW t PROVE Follows(t, {})
BY DEF Follows

(* A task that goes on is followed by itself. *)
LEMMA FollowsItself ==
    ASSUME NEW t \in Tasks, NEW u \in Tasks, Like(u, t), t.kind \notin {"signal", "login", "disconnect", "child"},
           t.kind = "callback" => t.at # "finish", Indexes(t) => u.at # "queued"
    PROVE  Follows(t, {u})
<1>1. u.kind = t.kind /\ u.acct = t.acct /\ ~SignalEnqueues(t)
  BY DEF Like, SignalEnqueues, Is
<1> QED BY <1>1 DEF Follows, Early, Carries, Ending, Indexes

Continues(t) ==
    \E N \in SUBSET Tasks :
        /\ tasks' = (tasks \ {t}) \cup N \cup (IF StartStep(t) THEN Retries(t) ELSE {})
        /\ Follows(t, N)

LEMMA Chain ==
    ASSUME TypeInv, NEW t \in tasks, TaskStep(t)
    PROVE  Continues(t)
<1>1. t \in Tasks /\ KindOf(t)
  BY OwnSteps DEF TypeInv, TaskTypes
<1>2. ASSUME Ends(t), ~StartStep(t)
      PROVE  Continues(t)
  <2>1. tasks' = (tasks \ {t}) \cup {} \cup {}
    BY <1>2 DEF Ends, Becomes
  <2>2. Follows(t, {})
    BY FollowsNone
  <2> QED BY <1>2, <2>1, <2>2 DEF Continues
<1>3. ASSUME NEW u, Moves(t, u), Follows(t, {u}), ~StartStep(t)
      PROVE  Continues(t)
  <2>1. tasks' = (tasks \ {t}) \cup {u} \cup {} /\ {u} \in SUBSET Tasks
    BY <1>3 DEF Moves
  <2> QED BY <1>3, <2>1 DEF Continues
<1>4. CASE StartStep(t)
  <2>1. CASE SignalEnqueues(t)
    <3>1. PICK u \in Tasks : /\ u.kind = "parent" /\ u.acct = t.acct /\ u.at = "queued"
                             /\ tasks' = (tasks \ {t}) \cup {u} \cup Retries(t)
      BY <2>1, SignalTasks
    <3>2. t.kind = "signal"
      BY <2>1 DEF SignalEnqueues, Is
    <3>3. Follows(t, {u})
      BY <3>1, <3>2 DEF Follows, Early, Carries, Ending, Indexes, Is
    <3> QED BY <1>4, <3>1, <3>3 DEF Continues
  <2>2. CASE LoginEnqueues(t)
    <3>1. tasks' = (tasks \ {t}) \cup {} \cup Retries(t)
      BY <2>2 DEF LoginEnqueues, Becomes
    <3>2. Follows(t, {})
      BY FollowsNone
    <3> QED BY <1>4, <3>1, <3>2 DEF Continues
  <2> QED BY <1>4, <2>1, <2>2 DEF StartStep
<1>5. CASE ParentStep(t)
  <2>1. t.kind = "parent" /\ ~StartStep(t)
    BY <1>1, <1>5 DEF KindOf
  <2>2. CASE ParentBegins(t)
    <3>1. PICK u : Moves(t, u)
      BY <2>2, GoesMoves DEF ParentBegins, Steps, TypeInv
    <3>2. Follows(t, {u})
      BY <1>1, <2>1, <3>1, FollowsItself DEF Moves, Indexes
    <3> QED BY <1>3, <2>1, <3>1, <3>2
  <2>3. CASE ParentDispatches(t)
    <3>1. PICK w \in Tasks, C \in SUBSET Tasks :
              /\ w.kind = "watchdog" /\ w.acct = t.acct
              /\ AreChildren(t, C)
              /\ tasks' = (tasks \ {t}) \cup C \cup {w}
      BY <2>3, ParentTasks
    <3>2. Follows(t, C \cup {w})
      BY <2>1, <2>3, <3>1 DEF Follows, Early, Carries, Ending, Indexes, SignalEnqueues, Is, AreChildren
    <3>3. tasks' = (tasks \ {t}) \cup (C \cup {w}) \cup {} /\ C \cup {w} \in SUBSET Tasks
      BY <3>1
    <3> QED BY <2>1, <3>2, <3>3 DEF Continues
  <2> QED BY <1>2, <1>5, <2>1, <2>2, <2>3 DEF ParentStep, ParentSkips, ParentFindsDeleted, ParentFindsNoMailboxes
<1>6. CASE ChildStep(t)
  <2>1. t.kind = "child" /\ ~StartStep(t)
    BY <1>1, <1>6 DEF KindOf
  <2>2. CASE ChildBegins(t) \/ ChildFetches(t)
    <3>1. PICK step \in {"fetch", "complete"} : Goes(t, step)
      BY <2>2 DEF ChildBegins, ChildFetches
    <3>2. step \in Steps
      BY DEF Steps
    <3>3. PICK u : Moves(t, u) /\ u.of = t.of /\ u.at = step
      BY <3>1, <3>2, GoesMoves DEF TypeInv
    <3>4. t.at # "queued" \/ ChildBegins(t)
      BY <2>2 DEF ChildFetches, Is
    <3>5. u \in Tasks /\ u.kind = "child" /\ u.acct = t.acct
      BY <2>1, <3>3 DEF Moves, Like
    <3>6. Follows(t, {u})
      BY <2>1, <3>3, <3>4, <3>5 DEF Follows, Early, Carries, Ending, Indexes, SignalEnqueues, Is
    <3> QED BY <1>3, <2>1, <3>3, <3>6
  <2> QED BY <1>2, <1>6, <2>1, <2>2 DEF ChildStep, ChildAlreadyDone, ChildFindsNoKey, ChildCompletes
<1>7. CASE WatchdogStep(t)
  <2>1. t.kind = "watchdog" /\ ~StartStep(t)
    BY <1>1, <1>7 DEF KindOf
  <2>2. CASE WatchdogDispatches(t)
    <3>1. PICK u \in Tasks : /\ u.kind = "callback" /\ u.acct = t.acct
                             /\ tasks' = (tasks \ {t}) \cup {u}
      BY <2>2, WatchdogTasks
    <3>2. Follows(t, {u})
      BY <2>1, <2>2, <3>1 DEF Follows, Early, Carries, Ending, Indexes, SignalEnqueues, Is
    <3>3. tasks' = (tasks \ {t}) \cup {u} \cup {} /\ {u} \in SUBSET Tasks
      BY <3>1
    <3> QED BY <2>1, <3>2, <3>3 DEF Continues
  <2>3. CASE WatchdogPolls(t)
    <3>1. PICK u : Moves(t, u)
      BY <2>3, WatchdogMoves DEF TypeInv
    <3>2. Follows(t, {u})
      BY <1>1, <2>1, <3>1, FollowsItself DEF Moves, Indexes
    <3> QED BY <1>3, <2>1, <3>1, <3>2
  <2> QED BY <1>2, <1>7, <2>1, <2>2, <2>3 DEF WatchdogStep, WatchdogStops, WatchdogGivesUp
<1>8. CASE CallbackStep(t)
  <2>1. t.kind = "callback" /\ ~StartStep(t)
    BY <1>1, <1>8 DEF KindOf
  <2>2. CASE CallbackBegins(t) \/ CallbackProcesses(t) \/ CallbackCommits(t)
    <3>1. PICK step \in {"process", "recheck", "enqueue"} : Goes(t, step)
      BY <2>2 DEF CallbackBegins, CallbackProcesses, CallbackCommits
    <3>2. step \in Steps /\ t.at # "finish"
      BY <2>2 DEF Steps, CallbackBegins, CallbackProcesses, CallbackCommits, Is
    <3>3. PICK u : Moves(t, u)
      BY <3>1, <3>2, GoesMoves DEF TypeInv
    <3>4. Follows(t, {u})
      BY <1>1, <2>1, <3>2, <3>3, FollowsItself DEF Moves, Indexes
    <3> QED BY <1>3, <2>1, <3>3, <3>4
  <2>3. CASE CallbackEnqueues(t)
    <3>1. PICK u \in Tasks, v \in Tasks :
              /\ Like(u, t) /\ u.at = "finish"
              /\ v.kind = "index" /\ v.acct = t.acct /\ v.at = "queued"
              /\ tasks' = (tasks \ {t}) \cup {u, v}
      BY <2>3, CallbackTasks
    <3>2. t.at = "enqueue"
      BY <2>3 DEF CallbackEnqueues, Is
    <3>3. Follows(t, {u, v})
      BY <2>1, <3>1, <3>2 DEF Follows, Early, Carries, Ending, Indexes, Like, SignalEnqueues, Is
    <3>4. tasks' = (tasks \ {t}) \cup {u, v} \cup {} /\ {u, v} \in SUBSET Tasks
      BY <3>1
    <3> QED BY <2>1, <3>3, <3>4 DEF Continues
  <2> QED BY <1>2, <1>8, <2>1, <2>2, <2>3 DEF CallbackStep, CallbackFindsNoKey, CallbackFindsGone,
            CallbackFinishes
<1>9. CASE IndexStep(t)
  <2>1. Indexes(t) /\ ~StartStep(t)
    BY <1>1, <1>9 DEF KindOf, Indexes
  <2>2. ASSUME NEW u, Moves(t, u), u.at # "queued"
        PROVE  Continues(t)
    <3>1. Follows(t, {u})
      BY <1>1, <2>1, <2>2, FollowsItself DEF Moves, Indexes
    <3> QED BY <1>3, <2>1, <2>2, <3>1
  <2>3. CASE IndexTakesKey(t)
    <3>1. CASE Goes(t, "plan")
      BY <2>2, <3>1, GoesMoves DEF Steps, TypeInv
    <3> QED BY <1>2, <2>1, <2>3, <3>1 DEF IndexTakesKey
  <2>4. CASE IndexPlans(t)
    BY <2>2, <2>4, PlanMoves
  <2>5. CASE IndexFetches(t)
    <3>1. PICK u : Moves(t, u) /\ u.at = "persist"
      BY <2>5, FetchMoves
    <3> QED BY <2>2, <3>1
  <2>6. ASSUME NEW m \in t.of, IndexWrites(t, m)
        PROVE  Continues(t)
    <3>1. t.at = "persist"
      BY <2>6 DEF IndexWrites
    <3> QED BY <2>2, <2>6, <3>1, WritesMoves
  <2>7. ASSUME NEW m \in t.writes, IndexCommits(t, m)
        PROVE  Continues(t)
    <3>1. t.at = "persist"
      BY <2>7 DEF IndexCommits
    <3> QED BY <2>2, <2>7, <3>1, CommitMoves
  <2> QED BY <1>2, <1>9, <2>1, <2>3, <2>4, <2>5, <2>6, <2>7 DEF IndexStep, IndexFindsNoKey, IndexFindsNothing, IndexEnds
<1>10. CASE DisconnectCommits(t)
  <2>1. ~StartStep(t)
    BY <1>1, <1>10 DEF KindOf
  <2> QED BY <1>2, <1>10, <2>1 DEF DisconnectCommits
<1> QED BY <1>4, <1>5, <1>6, <1>7, <1>8, <1>9, <1>10, TaskSteps

(* Part 7.  A first sync keeps its key until the last of its tasks has it. *)
LEMMA IndexingChanges ==
    ASSUME TypeInv, EmailNext, NEW a \in Account
    PROVE  \/ indexing'[a] = indexing[a]
           \/ /\ \E t \in tasks : t.acct = a /\ (CallbackFindsNoKey(t) \/ IndexFindsNoKey(t))
              /\ indexing'[a] = "pending"
           \/ /\ \E t \in tasks : t.acct = a /\ IndexEnds(t)
              /\ indexing'[a] = "complete"
           \/ LoginRecovers
<1> DEFINE Goal == \/ indexing'[a] = indexing[a]
                   \/ /\ \E t \in tasks : t.acct = a /\ (CallbackFindsNoKey(t) \/ IndexFindsNoKey(t))
                      /\ indexing'[a] = "pending"
                   \/ /\ \E t \in tasks : t.acct = a /\ IndexEnds(t)
                      /\ indexing'[a] = "complete"
                   \/ LoginRecovers
<1>1. indexing \in [Account -> {"none", "pending", "complete"}]
  BY DEF TypeInv, MailTypes
<1>2. UNCHANGED indexing => Goal
  OBVIOUS
<1>3. ASSUME NEW t \in tasks, CallbackFindsNoKey(t) \/ IndexFindsNoKey(t)
      PROVE  Goal
  <2>1. indexing' = [indexing EXCEPT ![t.acct] = "pending"]
    BY <1>3 DEF CallbackFindsNoKey, IndexFindsNoKey, MarksPending
  <2> QED BY <1>1, <1>3, <2>1
<1>4. ASSUME NEW t \in tasks, IndexEnds(t)
      PROVE  Goal
  <2>1. indexing' = [indexing EXCEPT ![t.acct] = "complete"]
    BY <1>4 DEF IndexEnds
  <2> QED BY <1>1, <1>4, <2>1
<1>5. LoginRecovers => Goal
  OBVIOUS
<1> HIDE DEF Goal
<1>6. ASSUME NEW t \in tasks, TaskStep(t)
      PROVE  Goal
  <2>1. CASE StartStep(t) \/ ParentStep(t) \/ ChildStep(t)
    BY <1>2, <2>1 DEF StartStep, SignalEnqueues, LoginEnqueues, ParentStep, ParentSkips,
       ParentFindsDeleted, ParentBegins, ParentFindsNoMailboxes, ParentDispatches, ChildStep,
       ChildAlreadyDone, ChildFindsNoKey, ChildBegins, ChildFetches, ChildCompletes, indexVars
  <2>2. CASE WatchdogStep(t)
    BY <1>2, <2>2 DEF WatchdogStep, WatchdogStops, WatchdogDispatches, WatchdogPolls, WatchdogGivesUp, indexVars
  <2>3. CASE CallbackStep(t)
    BY <1>2, <1>3, <2>3 DEF CallbackStep, CallbackBegins, CallbackProcesses, CallbackFindsGone, CallbackCommits,
       CallbackEnqueues, CallbackFinishes, indexVars
  <2>4. CASE IndexStep(t)
    <3>1. IndexTakesKey(t) \/ IndexFindsNothing(t) \/ IndexPlans(t) => UNCHANGED indexing
      BY DEF IndexTakesKey, IndexFindsNothing, IndexPlans, indexVars
    <3>2. IndexFetches(t) \/ (\E m : IndexWrites(t, m) \/ IndexCommits(t, m)) => UNCHANGED indexing
      BY DEF IndexFetches, IndexWrites, IndexCommits, indexVars
    <3> QED BY <1>2, <1>3, <1>4, <2>4, <3>1, <3>2 DEF IndexStep
  <2>5. CASE DisconnectCommits(t)
    BY <1>2, <2>5 DEF DisconnectCommits
  <2> QED BY <1>6, <2>1, <2>2, <2>3, <2>4, <2>5, TaskSteps
<1>7. ASSUME EmailEnvironment
      PROVE  Goal
  BY <1>2, <1>5, <1>7 DEF EmailEnvironment, Connect, BeatTick, Disconnect, KeyLapses, Dies, IsKilled, Raises,
     PipelineFails, IndexSwallows, indexVars
<1>8. Goal
  BY <1>6, <1>7 DEF EmailNext
<1> QED BY <1>8 DEF Goal

LEMMA KeyTaken ==
    ASSUME NEW t \in tasks, TaskStep(t), key, ~key'
    PROVE  ParentFindsDeleted(t) \/ ParentFindsNoMailboxes(t) \/ IndexTakesKey(t)
<1>1. CASE StartStep(t) \/ ParentStep(t) \/ ChildStep(t)
  BY <1>1 DEF StartStep, SignalEnqueues, LoginEnqueues, ParentStep, ParentSkips, ParentBegins,
     ParentDispatches, ChildStep, ChildAlreadyDone, ChildFindsNoKey, ChildBegins, ChildFetches,
     ChildCompletes
<1>2. CASE WatchdogStep(t) \/ CallbackStep(t)
  BY <1>2 DEF WatchdogStep, WatchdogStops, WatchdogDispatches, WatchdogPolls, WatchdogGivesUp,
     CallbackStep, CallbackFindsNoKey, CallbackBegins, CallbackProcesses, CallbackFindsGone,
     CallbackCommits, CallbackEnqueues, CallbackFinishes
<1>3. CASE IndexStep(t)
  <2>1. IndexFindsNoKey(t) \/ IndexFindsNothing(t) \/ IndexPlans(t) => UNCHANGED key
    BY DEF IndexFindsNoKey, IndexFindsNothing, IndexPlans
  <2>2. IndexFetches(t) \/ IndexEnds(t) \/ (\E m : IndexWrites(t, m) \/ IndexCommits(t, m)) => UNCHANGED key
    BY DEF IndexFetches, IndexEnds, IndexWrites, IndexCommits
  <2> QED BY <1>3, <2>1, <2>2 DEF IndexStep
<1>4. CASE DisconnectCommits(t)
  BY <1>4 DEF DisconnectCommits
<1> QED BY <1>1, <1>2, <1>3, <1>4, TaskSteps

(* Nobody who needs the key is left, or the key is still to come to the parent. *)
NoneWaits ==
    /\ \A t \in tasks : t.kind = "child" /\ t.at = "queued" => t.of \subseteq Completed(t.acct)
    /\ \A t \in tasks : Carries(t) => t.kind = "signal" \/ Is(t, "parent", "queued")

Single ==
    /\ \A a \in Account : indexing[a] # "pending"
    /\ \A t, u \in tasks : t.acct = u.acct
    /\ \A t \in tasks : t.kind \in {"signal", "parent"} => tasks = {t}
    /\ \A t, u \in tasks : Carries(t) /\ Carries(u) => t = u
    /\ \A t \in tasks : Indexes(t) => boxes[t.acct] \subseteq Completed(t.acct)
    /\ ~key => NoneWaits

SingleFaults == {"lapse", "crash", "disconnect", "login"}

LEMMA SingleStays ==
    ASSUME TypeInv, Single, EmailNext, UNCHANGED syncs, Safe(SingleFaults)'
    PROVE  /\ \A a \in Account : indexing'[a] # "pending"
           /\ \A u \in tasks : boxes[u.acct] \subseteq Completed(u.acct) =>
                 boxes'[u.acct] \subseteq Completed(u.acct)'
           /\ \A u \in tasks, m \in Mailbox : m \in Completed(u.acct) => m \in Completed(u.acct)'
           /\ UNCHANGED boxes
<1>1. ~LoginRecovers /\ ~Disconnecting'
  BY DEF LoginRecovers, Safe, SingleFaults, Disconnecting
<1>2. ASSUME NEW t \in tasks, CallbackFindsNoKey(t) \/ IndexFindsNoKey(t)
      PROVE  FALSE
  <2>1. ~key /\ Carries(t)
    BY <1>2 DEF CallbackFindsNoKey, IndexFindsNoKey, Carries, Is
  <2>2. t.kind \notin {"signal", "parent"}
    BY <1>2 DEF CallbackFindsNoKey, IndexFindsNoKey, Is, Indexes
  <2> QED BY <2>1, <2>2 DEF Single, NoneWaits, Is
<1>3. \A a \in Account : indexing'[a] # "pending"
  BY <1>1, <1>2, IndexingChanges DEF Single
<1>4. \A u \in tasks : u.acct \in Account
  BY TaskFields DEF TypeInv, TaskTypes
<1>5. \A u \in tasks, m \in Mailbox : m \in Completed(u.acct) => m \in Completed(u.acct)'
  BY <1>1, <1>4, Calm, Keeps DEF Completed
<1>6. UNCHANGED boxes
  BY EnvironmentKeeps, TaskStepKeeps DEF EmailNext
<1> QED BY <1>1, <1>3, <1>4, <1>5, <1>6, CompletedStays

LEMMA SingleTask ==
    ASSUME TypeInv, Earned, Single, NEW v \in tasks, TaskStep(v), Safe(SingleFaults)'
    PROVE  Single'
<1>1. EmailNext /\ UNCHANGED syncs
  BY TaskStepKeeps DEF EmailNext
<1>2. /\ \A a \in Account : indexing'[a] # "pending"
      /\ \A u \in tasks : boxes[u.acct] \subseteq Completed(u.acct) =>
            boxes'[u.acct] \subseteq Completed(u.acct)'
      /\ \A u \in tasks, m \in Mailbox : m \in Completed(u.acct) => m \in Completed(u.acct)'
      /\ UNCHANGED boxes
  BY <1>1, SingleStays
<1>3. ~Disconnecting
  BY <1>1, CounterTyped DEF Safe, SingleFaults, Disconnecting
<1>4. Retries(v) = {}
  BY DEF Retries, Single
<1>5. PICK N \in SUBSET Tasks : tasks' = (tasks \ {v}) \cup N /\ Follows(v, N)
  BY <1>4, Chain DEF Continues
<1>6. \A t \in tasks : t \in Tasks /\ t.acct \in Account /\ t.of \subseteq Mailbox \cup Account /\ TaskShape(t)
  BY TaskFields DEF TypeInv, TaskTypes
<1>7. \A t, u \in tasks' : t.acct = u.acct
  <2>1. \A u \in tasks' : u.acct = v.acct
    BY <1>5 DEF Follows, Single
  <2> QED BY <2>1
<1>8. ASSUME NEW u \in tasks', u.kind \in {"signal", "parent"}
      PROVE  tasks' = {u}
  <2>1. CASE u \in N
    <3>1. N = {u} /\ v.kind \in {"signal", "parent"}
      BY <1>5, <1>8, <2>1 DEF Follows
    <3>2. tasks = {v}
      BY <3>1 DEF Single
    <3> QED BY <1>5, <3>1, <3>2
  <2>2. CASE u \notin N
    BY <1>5, <1>8, <2>2 DEF Single
  <2> QED BY <2>1, <2>2
<1>9. ASSUME NEW t \in tasks', NEW u \in tasks', Carries(t), Carries(u)
      PROVE  t = u
  <2>1. CASE t \in N /\ u \in N
    BY <1>5, <1>9, <2>1 DEF Follows
  <2>2. ASSUME NEW x \in N, NEW y \in tasks \ {v}, Carries(x), Carries(y)
        PROVE  FALSE
    <3>1. Carries(v)
      BY <1>5, <2>2 DEF Follows
    <3> QED BY <2>2, <3>1 DEF Single
  <2>3. CASE t \notin N /\ u \notin N
    BY <1>5, <1>9, <2>3 DEF Single
  <2> QED BY <1>5, <1>9, <2>1, <2>2, <2>3
<1>10. ASSUME NEW u \in tasks', Indexes(u)
       PROVE  boxes'[u.acct] \subseteq Completed(u.acct)'
  <2>1. CASE u \in N
    <3>1. Ending(v) /\ u.acct = v.acct
      BY <1>5, <1>10, <2>1 DEF Follows
    <3>2. boxes[v.acct] \subseteq Completed(v.acct)
      BY <1>3, <3>1 DEF Ending, Earned, Single
    <3>3. boxes'[v.acct] \subseteq Completed(v.acct)'
      BY <1>2, <3>2
    <3> QED BY <3>1, <3>3 DEF Completed
  <2>2. CASE u \notin N
    <3>1. u \in tasks
      BY <1>5, <2>2
    <3> QED BY <1>2, <1>10, <3>1 DEF Single
  <2> QED BY <2>1, <2>2
<1>11. ASSUME ~key'
       PROVE  /\ \A u \in tasks' : u.kind = "child" /\ u.at = "queued" => u.of \subseteq Completed(u.acct)'
              /\ \A u \in tasks' : Carries(u) => u.kind = "signal" \/ Is(u, "parent", "queued")
  <2>1. CASE key
    <3>1. CASE ParentFindsDeleted(v)
      BY <1>3, <1>6, <3>1 DEF ParentFindsDeleted, Is, Earned
    <3>2. CASE ParentFindsNoMailboxes(v)
      <4>1. tasks = {v} /\ tasks' = tasks \ {v}
        BY <3>2 DEF ParentFindsNoMailboxes, Is, Ends, Becomes, Single
      <4> QED BY <4>1
    <3>3. CASE IndexTakesKey(v)
      <4>1. Indexes(v) /\ Carries(v) /\ ~ParentDispatches(v) /\ v.kind # "child"
        BY <3>3 DEF IndexTakesKey, Carries, ParentDispatches, Is, Indexes
      <4>2. \A u \in N : u.kind # "child" /\ ~Carries(u)
        BY <1>5, <4>1 DEF Follows
      <4>3. \A u \in tasks \ {v} : ~Carries(u)
        BY <4>1 DEF Single
      <4>4. ASSUME NEW u \in tasks, u.kind = "child"
            PROVE  u.of \subseteq Completed(u.acct)'
        <5>1. PICK m \in boxes[u.acct] : u.of = {m}
          BY <1>6, <4>4 DEF TaskShape
        <5>2. boxes[u.acct] \subseteq Completed(u.acct)
          BY <4>1 DEF Single
        <5>3. m \in Mailbox
          BY <5>1, <5>2 DEF Completed
        <5> QED BY <1>2, <5>1, <5>2, <5>3
      <4> QED BY <1>5, <4>2, <4>3, <4>4
    <3> QED BY <1>11, <2>1, <3>1, <3>2, <3>3, KeyTaken
  <2>2. CASE ~key
    <3>1. NoneWaits
      BY <2>2 DEF Single
    <3>2. ASSUME NEW u \in tasks, u.kind = "child", u.at = "queued"
          PROVE  u.of \subseteq Completed(u.acct)'
      <4>1. u.of \subseteq Completed(u.acct)
        BY <3>1, <3>2 DEF NoneWaits
      <4> QED BY <1>2, <4>1 DEF Completed
    <3>3. ASSUME NEW u \in N, u.kind = "child"
          PROVE  u.at # "queued"
      <4>1. ~ParentDispatches(v)
        BY <3>1 DEF NoneWaits, ParentDispatches, Is, Carries
      <4> QED BY <1>5, <3>3, <4>1 DEF Follows
    <3>4. ASSUME NEW u \in tasks', Carries(u)
          PROVE  u.kind = "signal" \/ Is(u, "parent", "queued")
      <4>1. CASE u \in tasks
        BY <3>1, <3>4, <4>1 DEF NoneWaits
      <4>2. CASE u \in N
        <5>1. Carries(v)
          BY <1>5, <3>4, <4>2 DEF Follows
        <5>2. CASE v.kind = "signal"
          <6>1. SignalEnqueues(v)
            BY <5>2, TaskSteps, OwnSteps DEF KindOf, StartStep, LoginEnqueues, Is, Indexes
          <6> QED BY <1>5, <4>2, <6>1 DEF Follows
        <5>3. CASE Is(v, "parent", "queued")
          <6>1. ParentStep(v)
            BY <5>3, TaskSteps, OwnSteps DEF KindOf, Is, Indexes
          <6>2. ParentSkips(v)
            BY <2>2, <5>3, <6>1 DEF ParentStep, ParentFindsDeleted, ParentBegins, ParentFindsNoMailboxes,
               ParentDispatches, Is
          <6>3. tasks = {v} /\ tasks' = tasks \ {v}
            BY <6>2 DEF ParentSkips, Is, Ends, Becomes, Single
          <6> QED BY <6>3
        <5> QED BY <3>1, <5>1, <5>2, <5>3 DEF NoneWaits
      <4> QED BY <1>5, <3>4, <4>1, <4>2
    <3> QED BY <1>5, <3>2, <3>3, <3>4
  <2> QED BY <2>1, <2>2
<1> QED BY <1>2, <1>7, <1>8, <1>9, <1>10, <1>11 DEF Single, NoneWaits, Carries, Indexes, Is

(* A task that is stopped leaves the queue, but for children of a parent, or goes on with
   the next thread. *)
LEMMA SingleEnvironment ==
    ASSUME TypeInv, Single, EmailEnvironment, UNCHANGED syncs, Safe(SingleFaults)'
    PROVE  Single'
<1>1. EmailNext /\ syncs \in Nat
  BY EmailAssumption DEF EmailNext, TypeInv, CounterTypes
<1>2. /\ \A a \in Account : indexing'[a] # "pending"
      /\ \A u \in tasks : boxes[u.acct] \subseteq Completed(u.acct) =>
            boxes'[u.acct] \subseteq Completed(u.acct)'
      /\ \A u \in tasks, m \in Mailbox : m \in Completed(u.acct) => m \in Completed(u.acct)'
      /\ UNCHANGED boxes
  BY <1>1, SingleStays
<1>3. \/ \E t \in tasks : IsKilled(t) \/ Raises(t) \/ PipelineFails(t)
      \/ \E t \in tasks, m \in Mailbox : IndexSwallows(t, m)
  <2>1. ~LoginRecovers /\ \A a \in Account : ~Connect(a) /\ ~BeatTick(a)
    BY <1>1 DEF LoginRecovers, Connect, BeatTick, Begins
  <2>2. ~KeyLapses /\ \A a \in Account : ~Disconnect(a)
    BY DEF KeyLapses, Disconnect, Happens, Safe, SingleFaults
  <2>3. \A t \in tasks : ~Dies(t)
    BY DEF Dies, Happens, Safe, SingleFaults
  <2> QED BY <2>1, <2>2, <2>3 DEF EmailEnvironment
<1> DEFINE Resumes(t, u) == Indexes(t) /\ Indexes(u) /\ u.acct = t.acct /\ u.at = "persist"
           Child(t, u) == /\ Is(t, "parent", "list")
                          /\ u.kind = "child" /\ u.acct = t.acct /\ u.at = "queued"
           After(t, u) == (u \in tasks /\ u # t) \/ Resumes(t, u) \/ Child(t, u)
<1>4. UNCHANGED key /\ \E t \in tasks : \A u \in tasks' : After(t, u)
  <2>1. ASSUME NEW t \in tasks, IsKilled(t) \/ Raises(t)
        PROVE  UNCHANGED key /\ \A u \in tasks' : After(t, u)
    <3>1. UNCHANGED key
      BY <2>1 DEF IsKilled, Raises
    <3>2. PICK C \in SUBSET Tasks : /\ AreChildren(t, C) /\ (C # {} => Is(t, "parent", "list"))
                                    /\ tasks' = (tasks \ {t}) \cup C
      BY <2>1, StoppedTasks
    <3>3. \A u \in C : Child(t, u)
      BY <3>2 DEF AreChildren
    <3> HIDE DEF Resumes, Child
    <3> QED BY <3>1, <3>2, <3>3
  <2>2. ASSUME NEW t \in tasks, PipelineFails(t)
        PROVE  UNCHANGED key /\ \A u \in tasks' : After(t, u)
    <3>1. UNCHANGED key /\ tasks' = tasks \ {t}
      BY <2>2 DEF PipelineFails, Ends, Becomes
    <3> HIDE DEF Resumes, Child
    <3> QED BY <3>1
  <2>3. ASSUME NEW t \in tasks, NEW m \in Mailbox, IndexSwallows(t, m)
        PROVE  UNCHANGED key /\ \A u \in tasks' : After(t, u)
    <3>1. UNCHANGED key /\ Indexes(t) /\ t.at = "persist"
      BY <2>3 DEF IndexSwallows
    <3>2. PICK u : Moves(t, u) /\ u.at = t.at
      BY <2>3, SwallowMoves
    <3>3. tasks' = (tasks \ {t}) \cup {u} /\ Resumes(t, u)
      BY <3>1, <3>2 DEF Moves, Like, Indexes
    <3> HIDE DEF Resumes, Child
    <3> QED BY <3>1, <3>3
  <2> HIDE DEF After
  <2> QED BY <1>3, <2>1, <2>2, <2>3
<1>5. PICK t \in tasks : \A u \in tasks' : After(t, u)
  BY <1>4
<1>6. \A u \in tasks' : \/ u \in tasks /\ u # t
                        \/ Indexes(t) /\ Indexes(u) /\ u.acct = t.acct /\ u.at = "persist"
                        \/ /\ Is(t, "parent", "list")
                           /\ u.kind = "child" /\ u.acct = t.acct /\ u.at = "queued"
  BY <1>5
<1>7. \A u, w \in tasks' : u.acct = w.acct
  <2>1. \A u \in tasks' : u.acct = t.acct
    BY <1>6 DEF Single
  <2> QED BY <2>1
<1>8. \A u \in tasks' : u.kind \notin {"signal", "parent"}
  <2> SUFFICES ASSUME NEW u \in tasks', u.kind \in {"signal", "parent"} PROVE FALSE
    OBVIOUS
  <2>1. u \in tasks /\ u # t
    BY <1>6 DEF Indexes
  <2>2. tasks = {u}
    BY <2>1 DEF Single
  <2> QED BY <2>1, <2>2
<1>9. \A u \in tasks' : Carries(u) => u \in tasks
  BY <1>6 DEF Carries, Indexes
<1>10. ASSUME NEW u \in tasks', Indexes(u)
       PROVE  boxes'[u.acct] \subseteq Completed(u.acct)'
  <2>1. PICK w \in tasks : Indexes(w) /\ w.acct = u.acct
    BY <1>6, <1>10 DEF Indexes
  <2>2. boxes'[w.acct] \subseteq Completed(w.acct)'
    BY <1>2, <2>1 DEF Single
  <2> QED BY <2>1, <2>2 DEF Completed
<1>11. ASSUME ~key'
       PROVE  /\ \A u \in tasks' : u.kind = "child" /\ u.at = "queued" => u.of \subseteq Completed(u.acct)'
              /\ \A u \in tasks' : Carries(u) => u.kind = "signal" \/ Is(u, "parent", "queued")
  <2>1. NoneWaits
    BY <1>4, <1>11 DEF Single
  <2>2. ~Is(t, "parent", "list")
    BY <2>1 DEF NoneWaits, Carries, Is
  <2>3. ASSUME NEW u \in tasks', u.kind = "child", u.at = "queued"
        PROVE  u.of \subseteq Completed(u.acct)'
    <3>1. u \in tasks
      BY <1>6, <2>2, <2>3 DEF Indexes
    <3>2. u.of \subseteq Completed(u.acct)
      BY <2>1, <2>3, <3>1 DEF NoneWaits
    <3> QED BY <1>2, <3>1, <3>2 DEF Completed
  <2> QED BY <1>9, <2>1, <2>3 DEF NoneWaits
<1>12. \A u, w \in tasks' : Carries(u) /\ Carries(w) => u = w
  BY <1>9 DEF Single
<1> QED BY <1>2, <1>7, <1>8, <1>10, <1>11, <1>12 DEF Single, NoneWaits, Carries, Indexes, Is

FirstSync ==
    /\ syncs = 0 => /\ ~key
                    /\ \A t \in tasks : t.kind = "disconnect"
                    /\ \A a \in Account : indexing[a] = "none"
    /\ syncs = 1 /\ Safe(SingleFaults) => Single

(* Before the first sync there is nothing but disconnects. *)
LEMMA NothingYet ==
    ASSUME TypeInv, EmailNext, UNCHANGED syncs, \A t \in tasks : t.kind = "disconnect",
           \A a \in Account : indexing[a] = "none"
    PROVE  /\ \A u \in tasks' : u.kind = "disconnect"
           /\ \A a \in Account : indexing'[a] = "none"
<1>1. syncs \in Nat
  BY EmailAssumption DEF TypeInv, CounterTypes
<1>2. ~LoginRecovers /\ \A a \in Account : ~Connect(a) /\ ~BeatTick(a)
  BY <1>1 DEF LoginRecovers, Connect, BeatTick, Begins
<1>3. \A t \in tasks : ~CallbackFindsNoKey(t) /\ ~IndexFindsNoKey(t) /\ ~IndexEnds(t)
  BY DEF CallbackFindsNoKey, IndexFindsNoKey, IndexEnds, Is, Indexes
<1>4. \A a \in Account : indexing'[a] = "none"
  BY <1>2, <1>3, IndexingChanges
<1>5. ASSUME NEW u \in tasks', u \notin tasks
      PROVE  u.kind = "disconnect"
  <2>1. ASSUME NEW t \in tasks, TaskStep(t)
        PROVE  u.kind = "disconnect"
    BY <1>5, <2>1, Origin DEF SignalEnqueues, ParentDispatches, WatchdogDispatches, CallbackEnqueues, Is
  <2>2. ASSUME EmailEnvironment
        PROVE  u.kind = "disconnect"
    <3>1. u.acct \in Account
      BY <1>5, <2>2, EnvironmentTasks, TaskFields
    <3> QED BY <1>2, <1>5, <2>2, <3>1, EnvironmentOrigin DEF Again, Left, InServer, Is
  <2> QED BY <2>1, <2>2 DEF EmailNext
<1> QED BY <1>4, <1>5

LEMMA FirstSyncStep ==
    ASSUME TypeInv, Earned, FirstSync, [EmailNext]_emailVars
    PROVE  FirstSync'
<1>1. CASE EmailNext
  <2>1. ASSUME syncs' = 0
        PROVE  /\ ~key'
               /\ \A t \in tasks' : t.kind = "disconnect"
               /\ \A a \in Account : indexing'[a] = "none"
    <3>1. syncs = 0 /\ UNCHANGED syncs
      BY <1>1, <2>1, KeyGiven
    <3> QED BY <1>1, <3>1, KeyGiven, NothingYet DEF FirstSync
  <2>2. ASSUME syncs' = 1, Safe(SingleFaults)'
        PROVE  Single'
    <3>1. Safe(SingleFaults) /\ ~Disconnecting
      BY <1>1, <2>2, CounterTyped DEF Safe, SingleFaults, Disconnecting
    <3>2. CASE UNCHANGED syncs
      <4>1. Single
        BY <2>2, <3>1, <3>2 DEF FirstSync
      <4> QED BY <1>1, <2>2, <3>2, <4>1, SingleTask, SingleEnvironment DEF EmailNext
    <3>3. CASE ~UNCHANGED syncs
      <4>1. syncs = 0 /\ tasks = {}
        <5>1. syncs = 0
          <6>1. syncs \in Nat
            BY EmailAssumption DEF TypeInv, CounterTypes
          <6> QED BY <1>1, <2>2, <3>3, <6>1, KeyGiven
        <5> QED BY <3>1, <5>1, NoDisconnectTask DEF FirstSync
      <4>2. PICK a \in Account : Connect(a) \/ BeatTick(a)
        BY <1>1, <2>2, <3>3, KeyGiven DEF LoginRecovers, Safe, SingleFaults
      <4>3. "signal" \in Kinds /\ "parent" \in Kinds
        BY DEF Kinds
      <4>4. PICK kind \in {"signal", "parent"} : Begins(kind, {a}, a, {})
        BY <4>2 DEF Connect, BeatTick
      <4>5. PICK u \in Tasks : u.kind = kind /\ u.at = "queued" /\ tasks' = tasks \cup {u}
        BY <4>3, <4>4, BeginTasks
      <4>6. tasks' = {u}
        BY <4>1, <4>5
      <4>7. \A b \in Account : indexing'[b] # "pending"
        BY <4>1, <4>2 DEF FirstSync, Connect, BeatTick, indexVars
      <4> QED BY <4>5, <4>6, <4>7 DEF Single, NoneWaits, Carries, Indexes, Is
    <3> QED BY <3>2, <3>3
  <2> QED BY <2>1, <2>2 DEF FirstSync, Single, NoneWaits, Safe, SingleFaults, Carries, Indexes, Is
<1>2. CASE UNCHANGED emailVars
  BY <1>2 DEF emailVars, FirstSync, Single, NoneWaits, Safe, SingleFaults, Carries, Indexes, Is, Completed
<1> QED BY <1>1, <1>2

(* Every task behind the parent of a first sync finds the key, unless it expires, a task
   is run twice, the account is disconnected or somebody logs in. *)
THEOREM FirstSyncKeepsKeySafe == EmailSpec => FirstSyncKeepsKey
<1>1. EmailInit => TypeInv /\ Earned /\ FirstSync
  <2>1. EmailInit => FirstSync
    BY DEF EmailInit, FirstSync
  <2> QED BY <2>1, TypeInit, EarnedInit
<1>2. TypeInv /\ Earned /\ FirstSync /\ [EmailNext]_emailVars => TypeInv' /\ Earned' /\ FirstSync'
  BY TypeStep, EarnedStep, FirstSyncStep
<1>3. TypeInv /\ FirstSync =>
         (syncs = 1 /\ Safe({"lapse", "crash", "disconnect", "login"}) =>
             ~\E t \in tasks : \/ ChildFindsNoKey(t) \/ CallbackFindsNoKey(t)
                               \/ IndexFindsNoKey(t))
  <2> SUFFICES ASSUME TypeInv, FirstSync, syncs = 1, Safe({"lapse", "crash", "disconnect", "login"}),
                      NEW t \in tasks
               PROVE  ~ChildFindsNoKey(t) /\ ~CallbackFindsNoKey(t) /\ ~IndexFindsNoKey(t)
    OBVIOUS
  <2>1. Single
    BY DEF FirstSync, SingleFaults
  <2>2. ASSUME ChildFindsNoKey(t) PROVE FALSE
    <3>1. t.of \subseteq Completed(t.acct)
      BY <2>1, <2>2 DEF ChildFindsNoKey, Single, NoneWaits, Is
    <3>2. \E m \in boxes[t.acct] : t.of = {m}
      BY <2>2 DEF ChildFindsNoKey, Is, TypeInv, TaskTypes, TaskShape
    <3>3. MailboxOf(t) \in t.of
      BY <3>2 DEF MailboxOf
    <3> QED BY <2>2, <3>1, <3>3 DEF ChildFindsNoKey, Completed
  <2>3. ASSUME CallbackFindsNoKey(t) \/ IndexFindsNoKey(t) PROVE FALSE
    <3>1. ~key /\ Carries(t) /\ t.kind \notin {"signal", "parent"}
      BY <2>3 DEF CallbackFindsNoKey, IndexFindsNoKey, Carries, Is, Indexes
    <3> QED BY <2>1, <3>1 DEF Single, NoneWaits, Is
  <2> QED BY <2>2, <2>3
<1> QED BY <1>1, <1>2, <1>3, PTL DEF EmailSpec, FirstSyncKeepsKey

(* Part 8.  The only sync of an account: what is completed has been downloaded, and once
   the callback runs, all of it has. *)
Of(a) == {t \in tasks : t.acct = a /\ t.kind \notin {"login", "disconnect"}}

LEMMA RunsChange ==
    ASSUME TypeInv, EmailNext, NEW a \in Account
    PROVE  \/ runs'[a] = runs[a] /\ ~Connect(a) /\ ~BeatTick(a) /\ ~LoginRecovers
           \/ runs'[a] = runs[a] + 1 /\ (Connect(a) \/ BeatTick(a) \/ LoginRecovers)
<1>1. runs \in [Account -> 0..MaxSyncs]
  BY DEF TypeInv, CounterTypes
<1>2. Connect(a) \/ BeatTick(a) \/ LoginRecovers => runs'[a] = runs[a] + 1
  BY DEF Connect, BeatTick, LoginRecovers, Begins
<1>3. ASSUME NEW b \in Account, b # a, Connect(b) \/ BeatTick(b)
      PROVE  runs'[a] = runs[a]
  BY <1>3 DEF Connect, BeatTick, Begins
<1>4. ASSUME ~Connect(a), ~BeatTick(a), ~LoginRecovers
      PROVE  runs'[a] = runs[a]
  <2>1. CASE \E t \in tasks : TaskStep(t)
    BY <2>1, TaskStepKeeps
  <2>2. CASE EmailEnvironment
    BY <1>3, <1>4, <2>2 DEF EmailEnvironment, Disconnect, KeyLapses, Dies, IsKilled, Raises, PipelineFails, IndexSwallows,
       startVars
  <2> QED BY <2>1, <2>2 DEF EmailNext
<1> QED BY <1>2, <1>4

(* An account that is linked was so before, unless it is connected. *)
LEMMA LinkedBefore ==
    ASSUME TypeInv, EmailNext, NEW a \in Account, linked'[a], ~Connect(a)
    PROVE  linked[a] /\ ~Purged(a)
<1>1. linked \in [Account -> BOOLEAN]
  BY DEF TypeInv, AccountTypes
<1>2. ~Purged(a)
  BY DEF Purged, DisconnectCommits
<1>3. ASSUME NEW t \in tasks, TaskStep(t)
      PROVE  linked[a]
  <2>1. CASE DisconnectCommits(t)
    BY <2>1 DEF DisconnectCommits
  <2>2. CASE StartStep(t) \/ ParentStep(t) \/ ChildStep(t) \/ WatchdogStep(t)
    BY <2>2 DEF StartStep, SignalEnqueues, LoginEnqueues, ParentStep, ParentSkips,
       ParentFindsDeleted, ParentBegins, ParentFindsNoMailboxes, ParentDispatches, ChildStep,
       ChildAlreadyDone, ChildFindsNoKey, ChildBegins, ChildFetches, ChildCompletes,
       WatchdogStep, WatchdogStops, WatchdogDispatches, WatchdogPolls, WatchdogGivesUp,
       accountVars
  <2>3. CASE CallbackStep(t) \/ IndexStep(t)
    BY <2>3 DEF CallbackStep, CallbackFindsNoKey, CallbackBegins, CallbackProcesses,
       CallbackFindsGone, CallbackCommits, CallbackEnqueues, CallbackFinishes, IndexStep,
       IndexFindsNoKey, IndexTakesKey, IndexFindsNothing, IndexPlans, IndexFetches,
       IndexWrites, IndexCommits, IndexEnds, accountVars
  <2> QED BY <1>3, <2>1, <2>2, <2>3, TaskSteps
<1>4. ASSUME EmailEnvironment
      PROVE  linked[a]
  <2>1. ASSUME NEW b \in Account, Connect(b)
        PROVE  linked[a]
    <3>1. a # b
      BY <2>1
    <3> QED BY <1>1, <2>1, <3>1 DEF Connect
  <2> QED BY <1>4, <2>1 DEF EmailEnvironment, BeatTick, LoginRecovers, Disconnect, KeyLapses, Dies,
            IsKilled, Raises, PipelineFails, IndexSwallows, accountVars
<1> QED BY <1>2, <1>3, <1>4 DEF EmailNext

(* A mailbox is completed by its child, which has downloaded it and ends with it. *)
LEMMA NewlyCompleted ==
    ASSUME TypeInv, EmailNext, NEW a \in Account, NEW m \in Mailbox,
           m \in Completed(a)', m \notin Completed(a)
    PROVE  \E t \in Of(a) : t.kind = "child" /\ t.at = "complete" /\ t.of = {m}
<1>1. cp \in [Account -> [Mailbox -> {"none", "in_progress", "completed"}]]
  BY DEF TypeInv, MailTypes
<1>2. cp'[a][m] = "completed" /\ cp[a][m] # "completed"
  BY DEF Completed
<1>3. ~UNCHANGED cp
  BY <1>2
<1>4. ASSUME NEW t \in tasks, TaskStep(t)
      PROVE  t \in Of(a) /\ t.kind = "child" /\ t.at = "complete" /\ t.of = {m}
  <2>1. ChildStep(t) \/ DisconnectCommits(t)
    BY <1>3, <1>4, TaskSteps DEF StartStep, SignalEnqueues, LoginEnqueues, ParentStep, ParentSkips,
       ParentFindsDeleted, ParentBegins, ParentFindsNoMailboxes, ParentDispatches, WatchdogStep,
       WatchdogStops, WatchdogDispatches, WatchdogPolls, WatchdogGivesUp, CallbackStep,
       CallbackFindsNoKey, CallbackBegins, CallbackProcesses, CallbackFindsGone, CallbackCommits,
       CallbackEnqueues, CallbackFinishes, IndexStep, IndexFindsNoKey, IndexTakesKey,
       IndexFindsNothing, IndexPlans, IndexFetches, IndexWrites, IndexCommits, IndexEnds, mailVars
  <2>2. ~DisconnectCommits(t)
    BY <1>2 DEF DisconnectCommits
  <2>3. t.acct \in Account /\ TaskShape(t) /\ t.kind = "child"
    BY <2>1, <2>2, OwnSteps, TaskFields DEF KindOf, TypeInv, TaskTypes
  <2>4. PICK n \in Mailbox : n = MailboxOf(t) /\ t.of = {n}
    BY <2>3 DEF MailboxOf, TaskShape, TypeInv, AccountTypes
  <2>5. ChildCompletes(t)
    <3>1. ~ChildAlreadyDone(t) /\ ~ChildFetches(t)
      BY <1>3 DEF ChildAlreadyDone, ChildFetches, mailVars
    <3>2. ~ChildFindsNoKey(t) /\ ~ChildBegins(t)
      BY <1>1, <1>2, <2>3, <2>4 DEF ChildFindsNoKey, ChildBegins
    <3> QED BY <2>1, <2>2, <3>1, <3>2 DEF ChildStep
  <2>6. t.acct = a /\ n = m
    BY <1>1, <1>2, <2>3, <2>4, <2>5 DEF ChildCompletes
  <2>7. t.at = "complete"
    BY <2>5 DEF ChildCompletes, Is
  <2> QED BY <2>3, <2>4, <2>6, <2>7 DEF Of
<1>5. ~EmailEnvironment
  BY <1>3 DEF EmailEnvironment, Connect, BeatTick, Disconnect, LoginRecovers, KeyLapses, Dies, IsKilled, Raises,
     PipelineFails, IndexSwallows, mailVars
<1> QED BY <1>4, <1>5 DEF EmailNext

LEMMA SettledChanges ==
    ASSUME TypeInv, EmailNext, NEW a \in Account, settled'[a], ~settled[a], ~LoginRecovers
    PROVE  \E t \in Of(a) : CallbackCommits(t)
<1>1. settled \in [Account -> BOOLEAN] /\ ~UNCHANGED settled
  BY DEF TypeInv, CounterTypes
<1>2. ASSUME NEW t \in tasks, TaskStep(t)
      PROVE  CallbackCommits(t)
  BY <1>1, <1>2, TaskSteps DEF StartStep, SignalEnqueues, LoginEnqueues, ParentStep, ParentSkips,
       ParentFindsDeleted, ParentBegins, ParentFindsNoMailboxes, ParentDispatches, ChildStep,
       ChildAlreadyDone, ChildFindsNoKey, ChildBegins, ChildFetches, ChildCompletes, WatchdogStep,
       WatchdogStops, WatchdogDispatches, WatchdogPolls, WatchdogGivesUp, CallbackStep,
       CallbackFindsNoKey, CallbackBegins, CallbackProcesses, CallbackFindsGone,
       CallbackEnqueues, CallbackFinishes, IndexStep, IndexFindsNoKey, IndexTakesKey,
       IndexFindsNothing, IndexPlans, IndexFetches, IndexWrites, IndexCommits, IndexEnds, DisconnectCommits
<1>3. ASSUME EmailEnvironment
      PROVE  FALSE
  <2>1. PICK b \in Account : Connect(b)
    BY <1>1, <1>3 DEF EmailEnvironment, BeatTick, Disconnect, KeyLapses, Dies, IsKilled, Raises, PipelineFails,
       IndexSwallows
  <2> QED BY <1>1, <2>1 DEF Connect
<1>4. PICK t \in tasks : CallbackCommits(t)
  BY <1>2, <1>3 DEF EmailNext
<1>5. t.acct = a /\ t.kind = "callback"
  BY <1>1, <1>4 DEF CallbackCommits, Is
<1> QED BY <1>4, <1>5 DEF Of

Late(a) == (\E t \in Of(a) : Ending(t)) \/ settled[a] \/ indexing[a] = "pending"

Fetched(a) ==
    /\ Completed(a) \subseteq mail[a]
    /\ \A t \in Of(a) : t.kind = "child" /\ t.at = "complete" => t.of \subseteq mail[a]

Fresh(a) ==
    /\ Of(a) = {} /\ ~settled[a] /\ indexing[a] = "none"
    /\ Completed(a) \subseteq mail[a] /\ (linked[a] => boxes[a] \subseteq Completed(a))

Phases ==
    \A a \in Account :
        /\ runs[a] = 0 => Fresh(a)
        /\ runs[a] = 1 /\ linked[a] => Fetched(a) /\ (Late(a) => boxes[a] \subseteq Completed(a))

(* Where a new task of an account comes from. *)
LEMMA OfComesFrom ==
    ASSUME TypeInv, EmailNext, NEW a \in Account, ~Connect(a), ~BeatTick(a),
           NEW u \in Of(a)', u \notin tasks
    PROVE  \/ u.kind = "retry" /\ indexing[a] = "pending"
           \/ \E t \in Of(a) : \/ u.kind = t.kind
                               \/ u.kind \in {"parent", "child", "watchdog"}
                               \/ u.kind = "callback" /\ WatchdogDispatches(t)
                               \/ u.kind = "index" /\ t.kind = "callback"
<1>1. u \in tasks' /\ u.acct = a /\ u.kind \notin {"login", "disconnect"}
  BY DEF Of
<1>2. ASSUME NEW t \in tasks, t.acct = a, t.kind \notin {"login", "disconnect"}
      PROVE  t \in Of(a)
  BY <1>2 DEF Of
<1>3. ASSUME NEW t \in tasks, TaskStep(t)
      PROVE  \/ u.kind = "retry" /\ indexing[a] = "pending"
             \/ /\ t \in Of(a)
                /\ \/ u.kind = t.kind
                   \/ u.kind \in {"parent", "child", "watchdog"}
                   \/ u.kind = "callback" /\ WatchdogDispatches(t)
                   \/ u.kind = "index" /\ t.kind = "callback"
  <2>1. CASE u.kind = t.kind /\ u.acct = t.acct
    BY <1>1, <1>2, <2>1
  <2>2. CASE u.kind = "retry" /\ indexing[u.acct] = "pending"
    BY <1>1, <2>2
  <2>3. CASE SignalEnqueues(t) /\ u.kind = "parent" /\ u.acct = t.acct
    BY <1>1, <1>2, <2>3 DEF SignalEnqueues, Is
  <2>4. CASE ParentDispatches(t) /\ u.kind \in {"child", "watchdog"} /\ u.acct = t.acct
    BY <1>1, <1>2, <2>4 DEF ParentDispatches, Is
  <2>5. CASE WatchdogDispatches(t) /\ u.kind = "callback" /\ u.acct = t.acct
    BY <1>1, <1>2, <2>5 DEF WatchdogDispatches, Is
  <2>6. CASE CallbackEnqueues(t) /\ u.kind = "index" /\ u.acct = t.acct
    BY <1>1, <1>2, <2>6 DEF CallbackEnqueues, Is
  <2> QED BY <1>1, <1>3, <2>1, <2>2, <2>3, <2>4, <2>5, <2>6, Origin
<1>4. ASSUME EmailEnvironment
      PROVE  \E t \in Of(a) : u.kind = t.kind \/ u.kind \in {"parent", "child", "watchdog"}
  <2>1. CASE \E t \in tasks : u.kind = t.kind /\ u.acct = t.acct
    BY <1>1, <1>2, <2>1
  <2>2. CASE Left(u)
    <3>1. PICK t \in tasks : t.kind = "parent" /\ t.acct = u.acct /\ u.kind = "child"
      BY <2>2 DEF Left, Is
    <3> QED BY <1>1, <1>2, <3>1
  <2> QED BY <1>1, <1>4, <2>1, <2>2, EnvironmentOrigin DEF Again
<1> QED BY <1>3, <1>4 DEF EmailNext

(* The account is late only once a callback has been dispatched for it. *)
LEMMA LateBegins ==
    ASSUME TypeInv, EmailNext, NEW a \in Account, ~Connect(a), ~BeatTick(a), ~LoginRecovers, Late(a)'
    PROVE  Late(a) \/ \E t \in Of(a) : WatchdogDispatches(t)
<1>1. CASE settled'[a]
  BY <1>1, SettledChanges DEF Late, CallbackCommits, Ending, Is
<1>2. CASE indexing'[a] = "pending"
  <2>1. CASE indexing[a] = "pending"
    BY <2>1 DEF Late
  <2>2. CASE indexing[a] # "pending"
    <3>1. PICK t \in tasks : t.acct = a /\ (CallbackFindsNoKey(t) \/ IndexFindsNoKey(t))
      BY <1>2, <2>2, IndexingChanges
    <3>2. Ending(t) /\ t \in Of(a)
      BY <3>1 DEF Ending, Of, CallbackFindsNoKey, IndexFindsNoKey, Is, Indexes
    <3> QED BY <3>2 DEF Late
  <2> QED BY <2>1, <2>2
<1>3. ASSUME NEW u \in Of(a)', Ending(u)
      PROVE  Late(a) \/ \E t \in Of(a) : WatchdogDispatches(t)
  <2>1. CASE u \in tasks
    <3>1. u \in Of(a)
      BY <1>3, <2>1 DEF Of
    <3> QED BY <1>3, <3>1 DEF Late
  <2>2. CASE u \notin tasks
    <3>1. CASE indexing[a] = "pending"
      BY <3>1 DEF Late
    <3>2. ASSUME NEW t \in Of(a), u.kind = t.kind \/ (u.kind = "index" /\ t.kind = "callback")
          PROVE  Late(a)
      BY <1>3, <3>2 DEF Late, Ending, Indexes
    <3> QED BY <1>3, <2>2, <3>1, <3>2, OfComesFrom DEF Ending, Indexes
  <2> QED BY <2>1, <2>2
<1> QED BY <1>1, <1>2, <1>3 DEF Late, Ending, Indexes

(* While it is not purged, nothing that is completed or downloaded is lost. *)
LEMMA FetchedStays ==
    ASSUME TypeInv, EmailNext, NEW a \in Account, ~Connect(a), ~BeatTick(a), ~Purged(a), Fetched(a)
    PROVE  Fetched(a)'
<1>1. mail[a] \subseteq mail'[a] /\ mail \in [Account -> SUBSET Mailbox]
  BY Keeps DEF TypeInv, MailTypes
<1>2. ASSUME NEW m \in Completed(a)'
      PROVE  m \in mail'[a]
  <2>1. m \in Mailbox
    BY DEF Completed
  <2>2. CASE m \in Completed(a)
    BY <1>1, <2>2 DEF Fetched
  <2>3. CASE m \notin Completed(a)
    <3>1. PICK t \in Of(a) : t.kind = "child" /\ t.at = "complete" /\ t.of = {m}
      BY <1>2, <2>1, <2>3, NewlyCompleted
    <3> QED BY <1>1, <3>1 DEF Fetched
  <2> QED BY <2>2, <2>3
<1>3. ASSUME NEW u \in Of(a)', u.kind = "child", u.at = "complete"
      PROVE  u.of \subseteq mail'[a]
  <2>1. CASE u \in tasks
    <3>1. u \in Of(a)
      BY <2>1 DEF Of
    <3> QED BY <1>1, <1>3, <3>1 DEF Fetched
  <2>2. CASE u \notin tasks
    <3>1. ~EmailEnvironment
      BY <1>3, <2>2, EnvironmentOrigin DEF Of, Again, Left, IndexSwallows, Indexes
    <3>2. PICK t \in tasks : TaskStep(t)
      BY <3>1 DEF EmailNext
    <3>3. t.kind = "child" /\ t.acct = a /\ u.of = t.of
      BY <1>3, <2>2, <3>2, Origin DEF Of, Indexes
    <3>4. ChildStep(t)
      BY <3>2, <3>3, TaskSteps, OwnSteps DEF KindOf, Indexes
    <3>5. ~ChildBegins(t)
      <4> SUFFICES ASSUME ChildBegins(t) PROVE FALSE
        OBVIOUS
      <4>1. PICK v : Moves(t, v) /\ v.at = "fetch"
        BY GoesMoves DEF ChildBegins, Steps, TypeInv
      <4>2. u = v
        BY <2>2, <4>1 DEF Moves, Of
      <4> QED BY <1>3, <4>1, <4>2
    <3>6. ChildFetches(t)
      BY <2>2, <3>4, <3>5 DEF ChildStep, ChildAlreadyDone, ChildFindsNoKey, ChildCompletes, Ends, Becomes, Of
    <3> QED BY <1>1, <3>3, <3>6 DEF ChildFetches
  <2> QED BY <2>1, <2>2
<1> QED BY <1>2, <1>3 DEF Fetched

LEMMA AllCompletedStays ==
    ASSUME TypeInv, EmailNext, NEW a \in Account, ~Purged(a), boxes[a] \subseteq Completed(a)
    PROVE  boxes'[a] \subseteq Completed(a)'
<1>1. UNCHANGED boxes
  BY EnvironmentKeeps, TaskStepKeeps DEF EmailNext
<1>2. \A m \in Mailbox : cp[a][m] = "completed" => cp'[a][m] = "completed"
  BY Keeps
<1> QED BY <1>1, <1>2 DEF Completed

(* An account that has seen no sync stays as it was found. *)
LEMMA FreshStays ==
    ASSUME TypeInv, EmailNext, NEW a \in Account, ~Connect(a), ~BeatTick(a), ~LoginRecovers, Fresh(a)
    PROVE  Fresh(a)'
<1>1. Of(a) = {} /\ ~settled[a] /\ indexing[a] = "none"
  BY DEF Fresh
<1>2. Of(a)' = {}
  <2> SUFFICES ASSUME NEW u \in Of(a)' PROVE FALSE
    OBVIOUS
  <2>1. u \notin tasks
    BY <1>1 DEF Of
  <2> QED BY <1>1, <2>1, OfComesFrom
<1>3. ~settled'[a]
  BY <1>1, SettledChanges
<1>4. ~\E t \in tasks : t.acct = a /\ (CallbackFindsNoKey(t) \/ IndexFindsNoKey(t) \/ IndexEnds(t))
  BY <1>1 DEF Of, CallbackFindsNoKey, IndexFindsNoKey, IndexEnds, Is, Indexes
<1>5. indexing'[a] = "none"
  BY <1>1, <1>4, IndexingChanges
<1>6. Completed(a)' \subseteq mail'[a] /\ (linked'[a] => boxes'[a] \subseteq Completed(a)')
  <2>1. CASE Purged(a)
    <3>1. PICK t \in tasks : DisconnectCommits(t) /\ a \in t.of
      BY <2>1 DEF Purged
    <3>2. ~linked'[a] /\ \A m \in Mailbox : cp'[a][m] = "none"
      BY <3>1 DEF DisconnectCommits
    <3> QED BY <3>2 DEF Completed
  <2>2. CASE ~Purged(a)
    <3>1. Fetched(a)
      BY <1>1 DEF Fresh, Fetched
    <3>2. Fetched(a)'
      BY <2>2, <3>1, FetchedStays
    <3>3. linked'[a] => boxes'[a] \subseteq Completed(a)'
      BY <2>2, LinkedBefore, AllCompletedStays DEF Fresh
    <3> QED BY <3>2, <3>3 DEF Fetched
  <2> QED BY <2>1, <2>2
<1> QED BY <1>2, <1>3, <1>5, <1>6 DEF Fresh

(* The first sync of an account, or the first login since it was linked. *)
LEMMA FirstBegins ==
    ASSUME TypeInv, NEW a \in Account, Connect(a) \/ BeatTick(a) \/ LoginRecovers, Fresh(a)
    PROVE  /\ \A t \in Of(a)' : t.kind \in {"signal", "parent"}
           /\ Of(a)' # {} => ~settled'[a] /\ indexing'[a] = "none"
           /\ UNCHANGED <<boxes, cp, mail>>
           /\ ~LoginRecovers => ~settled'[a] /\ indexing'[a] = "none"
<1>1. settled \in [Account -> BOOLEAN] /\ Of(a) = {} /\ ~settled[a] /\ indexing[a] = "none"
  BY DEF TypeInv, CounterTypes, Fresh
<1>2. CASE Connect(a) \/ BeatTick(a)
  <2>1. PICK kind \in {"signal", "parent"} : Begins(kind, {a}, a, {})
    BY <1>2 DEF Connect, BeatTick
  <2>2. kind \in Kinds
    BY DEF Kinds
  <2>3. PICK u \in Tasks : u.kind = kind /\ tasks' = tasks \cup {u}
    BY <2>1, <2>2, BeginTasks
  <2>4. Of(a)' \subseteq {u}
    BY <1>1, <2>3 DEF Of
  <2>5. ~settled'[a] /\ indexing'[a] = "none" /\ UNCHANGED <<boxes, cp, mail>>
    BY <1>1, <1>2 DEF Connect, BeatTick, indexVars, mailVars, accountVars
  <2> QED BY <2>3, <2>4, <2>5
<1>3. CASE LoginRecovers
  <2>1. PICK b \in Account : b = CHOOSE c \in Account : TRUE
    BY EmailAssumption
  <2>2. Begins("login", Account, b, {}) /\ "login" \in Kinds
    BY <1>3, <2>1 DEF LoginRecovers, Kinds
  <2>3. PICK u \in Tasks : u.kind = "login" /\ tasks' = tasks \cup {u}
    BY <2>2, BeginTasks
  <2>4. Of(a)' = {}
    BY <1>1, <2>3 DEF Of
  <2>5. UNCHANGED <<boxes, cp, mail>>
    BY <1>3 DEF LoginRecovers, accountVars, mailVars
  <2> QED BY <1>3, <2>4, <2>5
<1> QED BY <1>2, <1>3

LEMMA PhasesStep ==
    ASSUME TypeInv, Phases, [EmailNext]_emailVars
    PROVE  Phases'
<1>1. CASE EmailNext
  <2> SUFFICES ASSUME NEW a \in Account
               PROVE  /\ runs'[a] = 0 => Fresh(a)'
                      /\ runs'[a] = 1 /\ linked'[a] =>
                            Fetched(a)' /\ (Late(a)' => boxes'[a] \subseteq Completed(a)')
    BY DEF Phases
  <2>1. runs[a] \in Nat /\ linked \in [Account -> BOOLEAN]
    BY EmailAssumption DEF TypeInv, CounterTypes, AccountTypes
  <2>2. CASE runs'[a] = runs[a] /\ ~Connect(a) /\ ~BeatTick(a) /\ ~LoginRecovers
    <3>1. runs[a] = 0 => Fresh(a)'
      BY <1>1, <2>2, FreshStays DEF Phases
    <3>2. ASSUME runs[a] = 1, linked'[a]
          PROVE  Fetched(a)' /\ (Late(a)' => boxes'[a] \subseteq Completed(a)')
      <4>1. linked[a] /\ ~Purged(a)
        BY <1>1, <2>2, <3>2, LinkedBefore
      <4>2. Fetched(a) /\ (Late(a) => boxes[a] \subseteq Completed(a))
        BY <3>2, <4>1 DEF Phases
      <4>3. Fetched(a)'
        BY <1>1, <2>2, <4>1, <4>2, FetchedStays
      <4>4. Late(a)' => boxes[a] \subseteq Completed(a)
        <5>1. ASSUME NEW t \in Of(a), WatchdogDispatches(t)
              PROVE  boxes[a] \subseteq Completed(a)
          BY <5>1, AllCompleted DEF Of
        <5> QED BY <1>1, <2>2, <4>2, <5>1, LateBegins
      <4> QED BY <1>1, <4>1, <4>3, <4>4, AllCompletedStays
    <3> QED BY <2>2, <3>1, <3>2
  <2>3. CASE runs'[a] = runs[a] + 1 /\ (Connect(a) \/ BeatTick(a) \/ LoginRecovers)
    <3>1. runs'[a] # 0 /\ (runs'[a] = 1 => runs[a] = 0)
      BY <2>1, <2>3
    <3>2. ASSUME runs[a] = 0, linked'[a]
          PROVE  Fetched(a)' /\ (Late(a)' => boxes'[a] \subseteq Completed(a)')
      <4>1. Fresh(a)
        BY <3>2 DEF Phases
      <4>2. /\ \A t \in Of(a)' : t.kind \in {"signal", "parent"}
            /\ UNCHANGED <<boxes, cp, mail>>
            /\ Of(a)' # {} => ~settled'[a] /\ indexing'[a] = "none"
            /\ ~LoginRecovers => ~settled'[a] /\ indexing'[a] = "none"
        BY <2>3, <4>1, FirstBegins
      <4>3. Fetched(a)'
        BY <4>1, <4>2 DEF Fetched, Fresh, Completed
      <4>4. ~LoginRecovers => ~Late(a)'
        BY <4>2 DEF Late, Ending, Indexes
      <4>5. LoginRecovers => linked[a]
        BY <3>2 DEF LoginRecovers, accountVars
      <4>6. LoginRecovers => boxes'[a] \subseteq Completed(a)'
        BY <4>1, <4>2, <4>5 DEF Fresh, Completed
      <4> QED BY <4>3, <4>4, <4>6
    <3> QED BY <3>1, <3>2
  <2> QED BY <1>1, <2>2, <2>3, RunsChange
<1>2. CASE UNCHANGED emailVars
  BY <1>2 DEF emailVars, Phases, Of, Fresh, Fetched, Late, Ending, Indexes, Completed
<1> QED BY <1>1, <1>2

LEMMA PhasesInit == EmailInit => Phases
<1> SUFFICES ASSUME EmailInit, NEW a \in Account PROVE Fresh(a) /\ runs[a] = 0
  BY DEF Phases
<1>1. \A m \in Mailbox : cp[a][m] = "completed" <=> a \in Legacy /\ m \in boxes[a]
  BY DEF EmailInit
<1>2. mail[a] = IF a \in Legacy THEN boxes[a] ELSE {}
  BY DEF EmailInit
<1>3. boxes[a] \subseteq Mailbox
  BY TypeInit DEF TypeInv, AccountTypes
<1>4. linked[a] => a \in Legacy
  BY DEF EmailInit
<1>5. Of(a) = {} /\ ~settled[a] /\ indexing[a] = "none" /\ runs[a] = 0
  BY DEF EmailInit, Of
<1> QED BY <1>1, <1>2, <1>3, <1>4, <1>5 DEF Fresh, Completed

(* Part 9.  Indexing is not forgotten: an account that has succeeded once is searchable,
   pending, about to be purged, given up by a login, or has a task that indexes or leads
   to one. *)
Allowed(a) == linked[a] /\ Safe({"fail", "kill"}) /\ (Safe({"crash"}) \/ Safe({"disconnect"}))
Leaving(a) == \E t \in tasks : t.kind = "disconnect" /\ a \in t.of
Waived(a) == "waived" \in happened /\ (a \in sparse \/ chunks[a] # {})
Busy(t) == Indexes(t) \/ (t.kind = "callback" /\ t.at # "finish")
Remembers(a) ==
    \/ Searchable(a) \/ indexing[a] = "pending" \/ Leaving(a) \/ Waived(a)
    \/ \E t \in Of(a) : Busy(t)
Missing(a, t) == mail[a] \ chunks[a] \subseteq t.of \cup t.writes \/ Leaving(a)
Chosen(t) == Indexes(t) /\ t.at \in {"embed", "persist"}

Remembered ==
    \A a \in Account : Allowed(a) /\ runs[a] <= 1 =>
        /\ cancel[a] => Leaving(a)
        /\ settled[a] => Remembers(a)
        /\ \A t \in Of(a) : Chosen(t) => Missing(a, t)

LEMMA AllowedBefore ==
    ASSUME TypeInv, EmailNext, NEW a \in Account, Allowed(a)', ~Connect(a)
    PROVE  Allowed(a) /\ ~Purged(a)
<1>1. happened \subseteq happened'
  BY CounterTyped
<1>2. Safe({"fail", "kill"}) /\ (Safe({"crash"}) \/ Safe({"disconnect"}))
  BY <1>1 DEF Allowed, Safe
<1>3. linked[a] /\ ~Purged(a)
  BY LinkedBefore DEF Allowed
<1> QED BY <1>2, <1>3 DEF Allowed

(* What a login has given up stays given up. *)
LEMMA WaivedStays ==
    ASSUME TypeInv, EmailNext, NEW a \in Account, ~Purged(a), Waived(a)
    PROVE  Waived(a)'
<1>1. "waived" \in happened' /\ chunks[a] \subseteq chunks'[a]
  BY CounterTyped, Keeps DEF Waived
<1>2. a \in sparse => a \in sparse'
  <2>1. ASSUME NEW t \in tasks, TaskStep(t)
        PROVE  a \in sparse => a \in sparse'
    <3>1. CASE DisconnectCommits(t)
      <4>1. a \notin t.of
        BY <3>1 DEF Purged
      <4> QED BY <3>1, <4>1 DEF DisconnectCommits
    <3>2. CASE StartStep(t) \/ ParentStep(t) \/ ChildStep(t) \/ WatchdogStep(t)
      BY <3>2 DEF StartStep, SignalEnqueues, LoginEnqueues, ParentStep, ParentSkips,
         ParentFindsDeleted, ParentBegins, ParentFindsNoMailboxes, ParentDispatches, ChildStep,
         ChildAlreadyDone, ChildFindsNoKey, ChildBegins, ChildFetches, ChildCompletes,
         WatchdogStep, WatchdogStops, WatchdogDispatches, WatchdogPolls, WatchdogGivesUp,
         accountVars
    <3>3. CASE CallbackStep(t) \/ IndexStep(t)
      BY <3>3 DEF CallbackStep, CallbackFindsNoKey, CallbackBegins, CallbackProcesses,
         CallbackFindsGone, CallbackCommits, CallbackEnqueues, CallbackFinishes, IndexStep,
         IndexFindsNoKey, IndexTakesKey, IndexFindsNothing, IndexPlans, IndexFetches,
         IndexWrites, IndexCommits, IndexEnds, accountVars
    <3> QED BY <2>1, <3>1, <3>2, <3>3, TaskSteps
  <2>2. EmailEnvironment => UNCHANGED sparse
    BY DEF EmailEnvironment, Connect, BeatTick, LoginRecovers, Disconnect, KeyLapses, Dies,
       IsKilled, Raises, PipelineFails, IndexSwallows, accountVars
  <2> QED BY <2>1, <2>2 DEF EmailNext
<1> QED BY <1>1, <1>2 DEF Waived

(* A disconnect goes on until it has purged its accounts; it is lost only with the server
   that handles it. *)
LEMMA LeavingStays ==
    ASSUME TypeInv, EmailNext, NEW a \in Account, Leaving(a), ~Purged(a),
           Safe({"fail", "kill"})', Safe({"crash"})' \/ Safe({"disconnect"})'
    PROVE  Leaving(a)'
<1>1. PICK d \in tasks : d.kind = "disconnect" /\ a \in d.of
  BY DEF Leaving
<1>2. "disconnect" \in happened'
  BY <1>1, CounterTyped DEF TypeInv, TaskTypes, TaskShape
<1>3. {"crash", "fail", "kill"} \cap happened' = {}
  BY <1>2 DEF Safe
<1>4. d \in tasks'
  <2>1. ASSUME NEW t \in tasks, TaskStep(t)
        PROVE  d \in tasks'
    <3>1. CASE t = d
      <4>1. DisconnectCommits(d)
        BY <1>1, <2>1, <3>1, TaskSteps, OwnSteps DEF KindOf, Indexes
      <4> QED BY <1>1, <4>1 DEF Purged
    <3> QED BY <2>1, <3>1, OthersStay
  <2>2. ASSUME EmailEnvironment
        PROVE  d \in tasks'
    <3>1. \A b \in Account : Connect(b) \/ BeatTick(b) \/ Disconnect(b) => d \in tasks'
      BY DEF Connect, BeatTick, Disconnect, Begins
    <3>2. LoginRecovers \/ KeyLapses => d \in tasks'
      BY DEF LoginRecovers, KeyLapses, Begins
    <3>3. \A t \in tasks : ~Dies(t) /\ ~IsKilled(t) /\ ~Raises(t) /\ ~PipelineFails(t) /\ \A m \in Mailbox : ~IndexSwallows(t, m)
      BY <1>3 DEF Dies, IsKilled, Raises, PipelineFails, IndexSwallows, Happens
    <3> QED BY <2>2, <3>1, <3>2, <3>3 DEF EmailEnvironment
  <2> QED BY <2>1, <2>2 DEF EmailNext
<1> QED BY <1>1, <1>4 DEF Leaving

(* A flag is raised by a disconnect, which is then under way. *)
LEMMA FlagRaised ==
    ASSUME TypeInv, EmailNext, NEW a \in Account, cancel'[a], ~cancel[a]
    PROVE  Leaving(a)'
<1>1. PICK b \in Account : Disconnect(b)
  BY Dooms
<1>2. PICK u \in Tasks : /\ u.kind = "disconnect" /\ u.of = {c \in Account : linked[c]}
                         /\ tasks' = tasks \cup {u}
  BY <1>1, DisconnectTasks
<1>3. linked[a]
  BY Dooms
<1> QED BY <1>2, <1>3 DEF Leaving

(* Once the callback of the only sync has begun, nothing is downloaded any more. *)
LEMMA MailStays ==
    ASSUME TypeInv, EmailNext, NEW a \in Account, ~Purged(a),
           boxes[a] \subseteq Completed(a), Completed(a) \subseteq mail[a]
    PROVE  mail'[a] = mail[a]
<1>1. mail \in [Account -> SUBSET Mailbox]
  BY DEF TypeInv, MailTypes
<1>2. ASSUME NEW t \in tasks, ChildFetches(t)
      PROVE  mail'[a] = mail[a]
  <2>1. t.acct \in Account /\ TaskShape(t) /\ t.kind = "child" /\ t.at = "fetch"
    BY <1>2, TaskFields DEF TypeInv, TaskTypes, ChildFetches, Is
  <2>2. CASE t.acct = a
    <3>1. t.of \subseteq boxes[a]
      BY <2>1, <2>2 DEF TaskShape
    <3>2. mail' = [mail EXCEPT ![a] = mail[a] \cup t.of]
      BY <1>2, <2>2 DEF ChildFetches
    <3>3. mail[a] \cup t.of = mail[a]
      BY <3>1
    <3> QED BY <1>1, <3>2, <3>3
  <2>3. CASE t.acct # a
    BY <1>1, <1>2, <2>1, <2>3 DEF ChildFetches
  <2> QED BY <2>2, <2>3
<1>3. ASSUME NEW t \in tasks, DisconnectCommits(t)
      PROVE  mail'[a] = mail[a]
  <2>1. a \notin t.of
    BY <1>3 DEF Purged
  <2> QED BY <1>3, <2>1 DEF DisconnectCommits
<1>4. ASSUME NEW t \in tasks, TaskStep(t)
      PROVE  mail'[a] = mail[a]
  <2>1. CASE StartStep(t) \/ ParentStep(t) \/ WatchdogStep(t)
    BY <2>1 DEF StartStep, SignalEnqueues, LoginEnqueues, ParentStep, ParentSkips, ParentFindsDeleted,
       ParentBegins, ParentFindsNoMailboxes, ParentDispatches, WatchdogStep, WatchdogStops,
       WatchdogDispatches, WatchdogPolls, WatchdogGivesUp, mailVars
  <2>2. CASE ChildStep(t)
    BY <1>2, <2>2 DEF ChildStep, ChildAlreadyDone, ChildFindsNoKey, ChildBegins, ChildCompletes, mailVars
  <2>3. CASE CallbackStep(t) \/ IndexStep(t)
    BY <2>3 DEF CallbackStep, CallbackFindsNoKey, CallbackBegins, CallbackProcesses, CallbackFindsGone,
       CallbackCommits, CallbackEnqueues, CallbackFinishes, IndexStep, IndexFindsNoKey,
       IndexTakesKey, IndexFindsNothing, IndexPlans, IndexFetches, IndexWrites, IndexCommits, IndexEnds, mailVars
  <2> QED BY <1>3, <1>4, <2>1, <2>2, <2>3, TaskSteps
<1>5. ASSUME EmailEnvironment
      PROVE  mail'[a] = mail[a]
  BY <1>5 DEF EmailEnvironment, Connect, BeatTick, Disconnect, LoginRecovers, KeyLapses, Dies, IsKilled, Raises,
     PipelineFails, IndexSwallows, mailVars
<1> QED BY <1>4, <1>5 DEF EmailNext

(* The task that leads to the indexing goes on, or leaves a mark. *)
LEMMA BusyMoves ==
    ASSUME NEW a, NEW t \in Of(a), NEW u, Moves(t, u), t.kind = "callback" => u.at # "finish", Busy(t)
    PROVE  Remembers(a)'
<1>1. u \in tasks' /\ u.kind = t.kind /\ u.acct = t.acct
  BY DEF Moves, Like
<1>2. u \in Of(a)' /\ Busy(u)
  BY <1>1 DEF Of, Busy, Indexes
<1> QED BY <1>2 DEF Remembers, Busy, Indexes

LEMMA BusyStays ==
    ASSUME TypeInv, EmailNext, NEW a \in Account, linked[a], {"fail", "kill"} \cap happened' = {},
           Leaving(a) => Leaving(a)', Searchable(a) => Searchable(a)', cancel[a] => Leaving(a),
           NEW t \in Of(a), Busy(t), Chosen(t) => Missing(a, t)
    PROVE  Remembers(a)'
<1>1. t \in tasks /\ t \in Tasks /\ t.acct = a /\ t.kind \notin {"login", "disconnect"}
  BY DEF Of, TypeInv, TaskTypes
<1>2. CASE t \in tasks'
  <2>1. t \in Of(a)'
    BY <1>1, <1>2 DEF Of
  <2> QED BY <2>1 DEF Remembers, Busy, Indexes
<1>3. Leaving(a)' \/ Searchable(a)' => Remembers(a)'
  BY DEF Remembers
<1>4. MarksPending(a) => Remembers(a)'
  BY DEF Remembers, MarksPending, TypeInv, MailTypes
<1>5. ASSUME NEW v \in tasks, TaskStep(v), t \notin tasks'
      PROVE  Remembers(a)'
  <2>1. v = t
    BY <1>1, <1>5, OthersStay
  <2>2. CallbackStep(t) \/ IndexStep(t)
    BY <1>1, <1>5, <2>1, TaskSteps, OwnSteps DEF KindOf, Busy, Indexes
  <2>3. CASE CallbackStep(t)
    <3>1. t.kind = "callback" /\ t.at # "finish"
      BY <2>3, OwnSteps DEF KindOf, Busy, Indexes
    <3>2. CASE CallbackFindsNoKey(t)
      BY <1>1, <1>4, <3>2 DEF CallbackFindsNoKey
    <3>3. ASSUME NEW step \in {"process", "recheck", "enqueue"}, Goes(t, step)
          PROVE  Remembers(a)'
      <4>1. PICK u : Moves(t, u) /\ u.at = step
        BY <1>1, <3>3, GoesMoves DEF Steps, TypeInv
      <4> QED BY <4>1, BusyMoves
    <3>4. CASE CallbackFindsGone(t)
      BY <1>1, <1>3, <3>4 DEF CallbackFindsGone
    <3>5. CASE CallbackEnqueues(t)
      <4>1. PICK w \in Tasks : w.kind = "index" /\ w.acct = a /\ w \in tasks'
        BY <1>1, <3>5, CallbackTasks
      <4>2. w \in Of(a)' /\ Busy(w)
        BY <4>1 DEF Of, Busy, Indexes
      <4> QED BY <4>2 DEF Remembers, Busy, Indexes
    <3> QED BY <2>3, <3>1, <3>2, <3>3, <3>4, <3>5 DEF CallbackStep, CallbackBegins, CallbackProcesses,
              CallbackCommits, CallbackFinishes, Is
  <2>4. CASE IndexStep(t)
    <3>1. Indexes(t) /\ t.kind # "callback"
      BY <2>4, OwnSteps DEF KindOf, Indexes
    <3>2. ASSUME NEW u, Moves(t, u)
          PROVE  Remembers(a)'
      BY <3>1, <3>2, BusyMoves
    <3>3. CASE IndexFindsNoKey(t)
      BY <1>1, <1>4, <3>3 DEF IndexFindsNoKey
    <3>4. CASE IndexTakesKey(t)
      <4>1. Goes(t, "plan") /\ "plan" \in Steps
        BY <1>1, <3>4 DEF IndexTakesKey, Steps
      <4>2. PICK u : Moves(t, u)
        BY <1>1, <4>1, GoesMoves DEF TypeInv
      <4> QED BY <3>2, <4>2
    <3>5. CASE IndexFindsNothing(t)
      BY <1>1, <1>3, <3>5 DEF IndexFindsNothing
    <3>6. CASE IndexPlans(t)
      BY <1>1, <3>2, <3>6, PlanMoves
    <3>7. CASE IndexFetches(t)
      BY <1>1, <3>2, <3>7, FetchMoves
    <3>8. ASSUME NEW m \in t.of, IndexWrites(t, m)
          PROVE  Remembers(a)'
      BY <1>1, <3>2, <3>8, WritesMoves
    <3>10. ASSUME NEW m \in t.writes, IndexCommits(t, m)
           PROVE  Remembers(a)'
      BY <1>1, <3>2, <3>10, CommitMoves
    <3>9. CASE IndexEnds(t)
      <4>1. Chosen(t) /\ t.of = {} /\ t.writes = {}
        BY <3>9 DEF IndexEnds, Chosen
      <4>2. Searchable(a) \/ Leaving(a)
        BY <4>1 DEF Missing, Searchable
      <4> QED BY <1>3, <4>2
    <3> QED BY <2>4, <3>3, <3>4, <3>5, <3>6, <3>7, <3>8, <3>9, <3>10 DEF IndexStep
  <2> QED BY <2>2, <2>3, <2>4
<1>6. ASSUME EmailEnvironment, t \notin tasks'
      PROVE  Remembers(a)'
  <2>1. \A b \in Account : ~Connect(b) /\ ~BeatTick(b) /\ ~Disconnect(b)
    BY <1>1, <1>6 DEF Connect, BeatTick, Disconnect, Begins
  <2>2. ~LoginRecovers /\ ~KeyLapses
    BY <1>1, <1>6 DEF LoginRecovers, KeyLapses, Begins
  <2>3. \A v \in tasks : ~IsKilled(v) /\ ~Raises(v) /\ ~PipelineFails(v) /\ \A m \in Mailbox : ~IndexSwallows(v, m)
    BY DEF IsKilled, Raises, PipelineFails, IndexSwallows, Happens
  <2>4. PICK v \in tasks : Dies(v)
    BY <1>6, <2>1, <2>2, <2>3 DEF EmailEnvironment
  <2>5. PICK N \in SUBSET Tasks, C \in SUBSET Tasks :
              /\ IF InServer(v) THEN N = {} ELSE v.at # "queued" /\ \E w : N = {w} /\ Again(v, w)
              /\ tasks' = (tasks \ {v}) \cup N \cup C
    BY <2>4, CrashTasks
  <2>6. v = t
    BY <1>1, <1>6, <2>5
  <2>9. ~InServer(t)
    BY DEF Busy, Indexes, InServer
  <2>7. PICK u : Again(t, u) /\ u \in tasks'
    BY <2>5, <2>6, <2>9
  <2>8. u \in Of(a)' /\ Busy(u)
    BY <1>1, <2>7 DEF Of, Busy, Indexes, Again
  <2> QED BY <2>8 DEF Remembers, Busy, Indexes
<1> QED BY <1>2, <1>5, <1>6 DEF EmailNext

(* What an indexing job chooses to persist is what is missing. *)
LEMMA ChosenGoes ==
    ASSUME TypeInv, EmailNext, NEW a \in Account, "fail" \notin happened',
           Leaving(a) => Leaving(a)', cancel[a] => Leaving(a),
           (\E t \in Of(a) : Indexes(t)) => mail'[a] = mail[a],
           \A t \in Of(a) : Chosen(t) => Missing(a, t),
           NEW u \in Of(a)', u \notin tasks, Chosen(u)
    PROVE  Missing(a, u)'
<1>1. u \in tasks' /\ u.acct = a /\ Indexes(u) /\ u.at # "queued"
  BY DEF Of, Chosen
<1>2. chunks \in [Account -> SUBSET Mailbox]
  BY DEF TypeInv, MailTypes
<1>3. ~EmailEnvironment
  BY <1>1, EnvironmentOrigin DEF Indexes, IndexSwallows, Happens, Again, Left
<1>4. PICK t \in tasks : TaskStep(t)
  BY <1>3 DEF EmailNext
<1>5. Indexes(t) /\ t.acct = a
  BY <1>1, <1>4, Origin DEF Indexes
<1>6. t \in Of(a) /\ mail'[a] = mail[a]
  <2>1. t \in Of(a)
    BY <1>5 DEF Of, Indexes
  <2> QED BY <1>5, <2>1
<1>7. IndexStep(t)
  BY <1>4, <1>5, TaskSteps, OwnSteps DEF KindOf, Indexes
<1>8. Leaving(a) => Missing(a, u)'
  BY DEF Missing
<1>9. CASE IndexTakesKey(t)
  <2>1. CASE Goes(t, "plan")
    <3>1. PICK v : Moves(t, v) /\ v.at = "plan"
      BY <2>1, GoesMoves DEF Steps, TypeInv
    <3>2. u = v
      BY <1>1, <3>1 DEF Moves
    <3> QED BY <3>1, <3>2 DEF Chosen
  <2>2. CASE Ends(t)
    BY <1>1, <2>2 DEF Ends, Becomes
  <2> QED BY <1>9, <2>1, <2>2 DEF IndexTakesKey
<1>10. CASE IndexPlans(t)
  <2>1. PICK v : Moves(t, v) /\ v.of = mail[a] \ chunks[a]
    BY <1>5, <1>10, PlanMoves
  <2>2. u = v
    BY <1>1, <2>1 DEF Moves
  <2>3. chunks' = chunks
    BY <1>10 DEF IndexPlans, indexVars
  <2> QED BY <1>6, <2>1, <2>2, <2>3 DEF Missing
<1>11. CASE IndexFetches(t)
  <2>1. PICK v : Moves(t, v) /\ v.writes = t.writes /\ v.of = IF cancel[a] THEN {} ELSE t.of \cap mail[a]
    BY <1>5, <1>11, FetchMoves
  <2>2. u = v
    BY <1>1, <2>1 DEF Moves
  <2>3. chunks' = chunks /\ Chosen(t)
    BY <1>11 DEF IndexFetches, indexVars, Chosen
  <2>4. Missing(a, t)
    BY <1>6, <2>3
  <2> QED BY <1>6, <1>8, <2>1, <2>2, <2>3, <2>4 DEF Missing
<1>12. ASSUME NEW m \in t.of, IndexWrites(t, m)
       PROVE  Missing(a, u)'
  <2>1. PICK v : /\ Moves(t, v) /\ v.of = t.of \ {m}
                 /\ v.writes = IF cancel[a] THEN t.writes ELSE t.writes \cup {m}
    BY <1>5, <1>12, WritesMoves
  <2>2. u = v
    BY <1>1, <2>1 DEF Moves
  <2>3. chunks' = chunks /\ Chosen(t)
    BY <1>12 DEF IndexWrites, indexVars, Chosen
  <2>4. Missing(a, t)
    BY <1>6, <2>3
  <2>5. cancel[a] \/ t.of \cup t.writes \subseteq u.of \cup u.writes
    BY <2>1, <2>2
  <2> QED BY <1>6, <1>8, <2>3, <2>4, <2>5 DEF Missing
<1>13. ASSUME NEW m \in t.writes, IndexCommits(t, m)
       PROVE  Missing(a, u)'
  <2>1. PICK v : Moves(t, v) /\ v.of = t.of /\ v.writes = t.writes \ {m}
    BY <1>13, CommitMoves
  <2>2. u = v
    BY <1>1, <2>1 DEF Moves
  <2>3. chunks'[a] = chunks[a] \cup {m} /\ Chosen(t)
    BY <1>2, <1>5, <1>13 DEF IndexCommits, Chosen
  <2>4. Missing(a, t)
    BY <1>6, <2>3
  <2> QED BY <1>6, <1>8, <2>1, <2>2, <2>3, <2>4 DEF Missing
<1> QED BY <1>1, <1>7, <1>9, <1>10, <1>11, <1>12, <1>13 DEF IndexStep, IndexFindsNoKey, IndexFindsNothing,
          IndexEnds, Ends, Becomes

LEMMA FirstRemembered ==
    ASSUME TypeInv, EmailNext, NEW a \in Account, Connect(a) \/ BeatTick(a) \/ LoginRecovers,
           Fresh(a), Allowed(a)',
           Allowed(a) => (cancel[a] => Leaving(a))
    PROVE  /\ cancel'[a] => Leaving(a)'
           /\ settled'[a] => Remembers(a)'
           /\ \A t \in Of(a)' : ~Chosen(t)
<1>1. /\ \A t \in Of(a)' : t.kind \in {"signal", "parent"}
      /\ Of(a)' # {} => ~settled'[a] /\ indexing'[a] = "none"
  BY FirstBegins
<1>2. /\ linked \in [Account -> BOOLEAN] /\ cancel \in [Account -> BOOLEAN]
      /\ settled \in [Account -> BOOLEAN] /\ ~settled[a] /\ indexing[a] = "none"
  BY DEF TypeInv, AccountTypes, CounterTypes, Fresh
<1>3. CASE Connect(a)
  <2>1. ~cancel'[a]
    BY <1>2, <1>3 DEF Connect, FinishSync, ClearsFlag
  <2>2. ~settled'[a]
    BY <1>2, <1>3 DEF Connect
  <2> QED BY <1>1, <2>1, <2>2 DEF Chosen, Indexes
<1>4. CASE ~Connect(a)
  <2>1. Allowed(a)
    BY <1>4, AllowedBefore
  <2>2. tasks \subseteq tasks' /\ cancel' = cancel
    BY <1>4 DEF BeatTick, LoginRecovers, Begins
  <2>3. Leaving(a) => Leaving(a)'
    BY <2>2 DEF Leaving
  <2>4. settled'[a] => Remembers(a)'
    <3>1. CASE BeatTick(a)
      BY <1>2, <3>1 DEF BeatTick
    <3>2. CASE LoginRecovers
      <4>1. linked[a]
        BY <2>1 DEF Allowed
      <4>2. indexing'[a] \in Recovered(a)
        BY <1>2, <3>2, <4>1 DEF LoginRecovers
      <4>3. UNCHANGED <<sparse, mail, chunks>>
        BY <3>2 DEF LoginRecovers, accountVars, mailVars
      <4>4. CASE Searchable(a)
        BY <4>3, <4>4 DEF Remembers, Searchable
      <4>5. CASE indexing'[a] = "pending"
        BY <4>5 DEF Remembers
      <4>6. CASE ~Searchable(a) /\ indexing'[a] # "pending"
        <5>1. indexing'[a] = "complete" /\ (a \in sparse \/ mail[a] \cap chunks[a] # {})
          BY <4>2, <4>6 DEF Recovered
        <5>2. "waived" \in happened'
          BY <1>2, <3>2, <4>1, <4>6, <5>1 DEF LoginRecovers
        <5>3. Waived(a)'
          BY <4>3, <5>1, <5>2 DEF Waived
        <5> QED BY <5>3 DEF Remembers
      <4> QED BY <4>4, <4>5, <4>6
    <3> QED BY <1>4, <3>1, <3>2
  <2> QED BY <1>1, <2>1, <2>2, <2>3, <2>4 DEF Chosen, Indexes
<1> QED BY <1>3, <1>4

LEMMA RememberedStep ==
    ASSUME TypeInv, Phases, Remembered, [EmailNext]_emailVars
    PROVE  Remembered'
<1>1. CASE EmailNext
  <2> SUFFICES ASSUME NEW a \in Account, Allowed(a)', runs'[a] <= 1
               PROVE  /\ cancel'[a] => Leaving(a)'
                      /\ settled'[a] => Remembers(a)'
                      /\ \A t \in Of(a)' : Chosen(t) => Missing(a, t)'
    BY DEF Remembered, Chosen, Indexes
  <2>1. runs[a] \in Nat /\ settled \in [Account -> BOOLEAN]
    BY EmailAssumption DEF TypeInv, CounterTypes
  <2>2. CASE runs'[a] = runs[a] + 1 /\ (Connect(a) \/ BeatTick(a) \/ LoginRecovers)
    <3>1. runs[a] = 0
      BY <2>1, <2>2
    <3>2. Fresh(a)
      BY <3>1 DEF Phases
    <3>3. Allowed(a) => (cancel[a] => Leaving(a))
      BY <3>1 DEF Remembered
    <3> QED BY <1>1, <2>2, <3>2, <3>3, FirstRemembered
  <2>3. CASE runs'[a] = runs[a] /\ ~Connect(a) /\ ~BeatTick(a) /\ ~LoginRecovers
    <3>1. Allowed(a) /\ ~Purged(a) /\ linked[a]
      BY <1>1, <2>3, AllowedBefore DEF Allowed
    <3>2. /\ cancel[a] => Leaving(a)
          /\ settled[a] => Remembers(a)
          /\ \A t \in Of(a) : Chosen(t) => Missing(a, t)
      BY <2>3, <3>1 DEF Remembered
    <3>3. Leaving(a) => Leaving(a)'
      BY <1>1, <3>1, LeavingStays DEF Allowed
    <3>4. cancel'[a] => Leaving(a)'
      BY <1>1, <3>2, <3>3, FlagRaised
    <3>5. CASE runs[a] = 0
      <4>1. Of(a)' = {} /\ ~settled'[a]
        BY <2>3, <3>5, PhasesStep DEF Phases, Fresh
      <4> QED BY <3>4, <4>1
    <3>6. CASE runs[a] = 1
      <4>1. /\ Fetched(a) /\ (Late(a) => boxes[a] \subseteq Completed(a))
            /\ {"fail", "kill"} \cap happened' = {}
        BY <3>1, <3>6 DEF Phases, Allowed, Safe
      <4>2. Late(a) => mail'[a] = mail[a] /\ chunks[a] \subseteq chunks'[a]
        BY <1>1, <3>1, <4>1, MailStays, Keeps DEF Fetched
      <4>3. Late(a) => (Searchable(a) => Searchable(a)')
        BY <4>2 DEF Searchable
      <4>4. \A t \in Of(a) : Busy(t) => Late(a)
        BY DEF Late, Busy, Ending
      <4>5. \A t \in Of(a) : Indexes(t) => Late(a)
        BY DEF Late, Ending
      <4>6. ASSUME settled'[a]
            PROVE  Remembers(a)'
        <5>1. CASE ~settled[a]
          <6>1. PICK t \in Of(a) : CallbackCommits(t)
            BY <1>1, <2>3, <4>6, <5>1, SettledChanges
          <6>2. Goes(t, "enqueue") /\ "enqueue" \in Steps /\ t \in tasks /\ Busy(t)
            BY <6>1 DEF CallbackCommits, Steps, Of, Busy, Is
          <6>3. PICK u : Moves(t, u) /\ u.at = "enqueue"
            BY <6>2, GoesMoves DEF TypeInv
          <6> QED BY <6>2, <6>3, BusyMoves
        <5>2. CASE settled[a]
          <6>1. Late(a) /\ Remembers(a)
            BY <3>2, <5>2 DEF Late
          <6>2. CASE Searchable(a) \/ Leaving(a) \/ Waived(a)
            BY <1>1, <3>1, <3>3, <4>3, <6>1, <6>2, WaivedStays DEF Remembers
          <6>3. CASE indexing[a] = "pending"
            <7>1. CASE indexing'[a] = "pending"
              BY <7>1 DEF Remembers
            <7>2. CASE indexing'[a] # "pending"
              <8>1. PICK t \in tasks : t.acct = a /\ IndexEnds(t)
                BY <1>1, <2>3, <6>3, <7>2, IndexingChanges
              <8>2. t \in Of(a) /\ Chosen(t) /\ t.of = {} /\ t.writes = {}
                BY <8>1 DEF Of, IndexEnds, Chosen, Indexes
              <8>3. Missing(a, t)
                BY <3>2, <8>2
              <8>4. Searchable(a) \/ Leaving(a)
                BY <8>2, <8>3 DEF Missing, Searchable
              <8> QED BY <3>3, <4>3, <6>1, <8>4 DEF Remembers
            <7> QED BY <7>1, <7>2
          <6>4. ASSUME NEW t \in Of(a), Busy(t)
                PROVE  Remembers(a)'
            BY <1>1, <3>1, <3>2, <3>3, <4>1, <4>3, <6>1, <6>4, BusyStays
          <6> QED BY <6>1, <6>2, <6>3, <6>4 DEF Remembers
        <5> QED BY <5>1, <5>2
      <4>7. ASSUME NEW u \in Of(a)', Chosen(u)
            PROVE  Missing(a, u)'
        <5>1. CASE u \in tasks
          <6>1. u \in Of(a) /\ Indexes(u)
            BY <4>7, <5>1 DEF Of, Chosen
          <6>2. Missing(a, u) /\ Late(a)
            BY <3>2, <4>5, <4>7, <6>1
          <6> QED BY <3>3, <4>2, <6>2 DEF Missing
        <5>2. CASE u \notin tasks
          <6>1. (\E t \in Of(a) : Indexes(t)) => mail'[a] = mail[a]
            BY <4>2, <4>5
          <6> QED BY <1>1, <3>2, <3>3, <4>1, <4>7, <5>2, <6>1, ChosenGoes
        <5> QED BY <5>1, <5>2
      <4> QED BY <3>4, <4>6, <4>7
    <3> QED BY <2>1, <2>3, <3>5, <3>6
  <2> QED BY <1>1, <2>2, <2>3, RunsChange
<1>2. CASE UNCHANGED emailVars
  BY <1>2 DEF emailVars, Remembered, Allowed, Safe, Leaving, Waived, Remembers, Searchable, Of, Busy, Chosen,
     Missing, Indexes
<1> QED BY <1>1, <1>2

(* Indexing is not forgotten: mail that a sync has reported, or a login has found, and
   that is not searchable when all tasks of its account are over, is marked pending,
   unless a login gave up the rest of an account that had most of its chunks. *)
THEOREM IndexingNotForgottenSafe == EmailSpec => []IndexingNotForgotten
<1>1. EmailInit => TypeInv /\ Phases /\ Remembered
  BY TypeInit, PhasesInit DEF EmailInit, Remembered, Of
<1>2. TypeInv /\ Phases /\ Remembered /\ [EmailNext]_emailVars => TypeInv' /\ Phases' /\ Remembered'
  BY TypeStep, PhasesStep, RememberedStep
<1>3. Remembered => IndexingNotForgotten
  <2> SUFFICES ASSUME Remembered, NEW a \in Account, Allowed(a), settled[a], runs[a] <= 1,
                      \A t \in tasks : t.acct # a /\ t.kind # "disconnect", ~Searchable(a)
               PROVE  indexing[a] = "pending" \/ Waived(a)
    BY DEF IndexingNotForgotten, Allowed, Waived
  <2>1. Remembers(a)
    BY DEF Remembered
  <2>2. ~Leaving(a) /\ Of(a) = {}
    BY DEF Leaving, Of
  <2> QED BY <2>1, <2>2 DEF Remembers
<1> QED BY <1>1, <1>2, <1>3, PTL DEF EmailSpec
=============================================================================
