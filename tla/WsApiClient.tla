----------------------------- MODULE WsApiClient -----------------------------
(***************************************************************************)
(* The browser's shared WebSocket client                                   *)
(* (client/src/features/api/WsApiClient.ts) against the server's           *)
(* /api/v1/events endpoint (api/routes/events.py).  All remote calls of    *)
(* the page go over one socket.  The server binds a socket to the account  *)
(* whose token opened it, so a new token needs a new socket; the old one   *)
(* stays to drain the calls that are in flight on it.                      *)
(*                                                                         *)
(* JavaScript runs one task at a time: an action is a task, or the whole   *)
(* of a public function.  A socket is a slot, free again when it is closed *)
(* and nothing of it is left in the network.                               *)
(***************************************************************************)
EXTENDS Naturals, Sequences, FiniteSets

CONSTANTS Rpc,       \* the calls of the page
          Binary,    \* those answered by a binary frame (rpcRequestBlob)
          MaxTokens, \* bound: tokens the page is given one after the other
          MaxSockets,\* sockets alive at once: one in use, the others draining
          MaxEnds    \* bound: sockets that end

ASSUME ClientAssumption ==
  /\ Binary \subseteq Rpc
  /\ MaxTokens \in Nat \ {0} /\ MaxSockets \in Nat /\ MaxSockets > MaxTokens
  /\ MaxEnds \in Nat

Token  == 1..MaxTokens
Socket == 1..MaxSockets

VARIABLES
  token,    \* currentToken()
  client,   \* the module's variables: _ws (0: null), _connecting,
            \* _connectedToken, the reconnect timer, _pendingRpc (its keys in
            \* order), _drainingRpcIds, _drainingSocketRpcIds, _sendQueue, and the
            \* token of _bootstrapPayload (0: null)
  ready,    \* readyState of each socket
  handler,  \* its handlers: those of _connect (the others of _connGen are taken
            \* off with their socket), the draining ones, or none
  boundTo,  \* the token in its URL
  out, inn, \* what is on its way to the server and to the browser
  result,   \* what each call's promise has become
  issuedAs, \* the token when it was issued (0: not yet)
  ranAs,    \* the token it ran under on the server (0: it did not)
  ends,     \* sockets that have ended
  happened  \* events the code has no answer to: see the properties

vars == <<token, client, ready, handler, boundTo, out, inn, result, issuedAs,
          ranAs, ends, happened>>
calls == <<result, issuedAs, ranAs>>

Elems(s) == {s[i] : i \in 1..Len(s)}

\* The calls q without those of gone, in their order.
Without(q, gone) ==
  LET kept[n \in 0..Len(q)] ==
        IF n = 0 THEN <<>>
        ELSE IF q[n] \in gone THEN kept[n - 1] ELSE Append(kept[n - 1], q[n])
  IN kept[Len(q)]

\* A slot for a new socket.
Free(s) == ready[s] = "closed" /\ handler[s] = "off" /\ out[s] = <<>>

Init ==
  /\ token = 1
  /\ client = [ws |-> 1, connecting |-> TRUE, connToken |-> 1,
               timer |-> FALSE, pending |-> <<>>, draining |-> {},
               drainOf |-> [s \in Socket |-> {}], queue |-> <<>>, boot |-> 0]
  /\ ready = [s \in Socket |-> IF s = 1 THEN "connecting" ELSE "closed"]
  /\ handler = [s \in Socket |-> IF s = 1 THEN "live" ELSE "off"]
  /\ boundTo = [s \in Socket |-> 1]
  /\ out = [s \in Socket |-> <<>>] /\ inn = [s \in Socket |-> <<>>]
  /\ result = [r \in Rpc |-> "none"]
  /\ issuedAs = [r \in Rpc |-> 0] /\ ranAs = [r \in Rpc |-> 0]
  /\ ends = 0 /\ happened = {}

(***************************************************************************)
(* The internal functions, as functions of the state they get: a record    *)
(* with the client, the sockets and what happened.                         *)
(***************************************************************************)

State == [c |-> client, ready |-> ready, handler |-> handler,
          boundTo |-> boundTo, out |-> out, inn |-> inn, happened |-> happened]

\* S is the next state; the quantifier has TLC evaluate it once.
Becomes(S) == \E T \in {S} :
  /\ client' = T.c /\ ready' = T.ready /\ handler' = T.handler
  /\ boundTo' = T.boundTo /\ out' = T.out /\ inn' = T.inn
  /\ happened' = T.happened

\* close() after the handlers are taken off: what was sent still arrives.
Discard(S, s) == [S EXCEPT !.ready[s] = "closed", !.handler[s] = "off", !.inn[s] = <<>>]

Note(S, e, cond) == [S EXCEPT !.happened = IF cond THEN @ \cup {e} ELSE @]

\* The calls that wait for the socket in use.
InUse(c) == Elems(c.pending) \ c.draining

\* _connect: nothing, when a socket is open or opening; another one is dropped,
\* with the handler that would have rejected the calls sent on it.
Connect(S) ==
  IF S.c.connecting \/ (S.c.ws # 0 /\ S.ready[S.c.ws] \in {"open", "connecting"})
  THEN S
  ELSE LET T == IF S.c.ws = 0 THEN S
                ELSE Note(Discard(S, S.c.ws), "abandoned",
                          InUse(S.c) \ Elems(S.c.queue) # {})
           n == CHOOSE s \in Socket : Free(s)
       IN [T EXCEPT !.c.connecting = TRUE, !.c.ws = n, !.c.connToken = token,
                    !.ready[n] = "connecting", !.handler[n] = "live",
                    !.boundTo[n] = token, !.inn[n] = <<>>]

\* The old socket of a token that has changed: opening, it is dropped, and what
\* is queued waits for the next one; otherwise it drains every pending call.
Drain(S) ==
  LET ids == Elems(S.c.pending)
      old == S.c.ws
      T   == [S EXCEPT !.c.ws = 0]
  IN IF S.ready[old] = "connecting" THEN Discard(T, old)
     ELSE LET D == [T EXCEPT !.c.draining = @ \cup ids] IN
          IF ids = {} THEN Discard(D, old)
          ELSE Note([D EXCEPT !.handler[old] = "drain", !.c.drainOf[old] = ids],
                    "twice", \E s \in Socket : S.handler[s] = "drain")

\* Mutant of EnsureAuthFresh: the cached bootstrap payload is kept
EnsureAuthFreshKeepsBoot(S) ==
  IF token = S.c.connToken THEN S
  ELSE LET D == IF S.c.ws = 0 THEN S ELSE Drain(S)
       IN Connect([D EXCEPT !.c.connecting = FALSE])

EnsureAuthFresh(S) ==
  IF token = S.c.connToken THEN S
  ELSE LET B == [S EXCEPT !.c.boot = 0]
           D == IF B.c.ws = 0 THEN B ELSE Drain(B)
       IN Connect([D EXCEPT !.c.connecting = FALSE])

\* _send: on an open socket, or into the queue for the next one.
Send(S, r) ==
  IF S.c.ws # 0 /\ S.ready[S.c.ws] = "open"
    THEN [S EXCEPT !.out[S.c.ws] = Append(@, r)]
    ELSE [S EXCEPT !.c.queue = Append(@, r)]

(***************************************************************************)
(* The page.                                                               *)
(***************************************************************************)

\* Login, logout and the background refresh: the next call notices.
ChangeToken ==
  /\ token < MaxTokens
  /\ token' = token + 1
  /\ happened' = IF client.queue # <<>> THEN happened \cup {"carried"} ELSE happened
  /\ UNCHANGED <<client, ready, handler, boundTo, out, inn, calls, ends>>

\* rpcRequest and rpcRequestBlob.
Request(r) ==
  /\ result[r] = "none" /\ \E s \in Socket : Free(s)
  /\ LET F == EnsureAuthFresh(State)
         P == [F EXCEPT !.c.pending = Append(@, r)]
         C == Connect(P)
         others == InUse(F.c)
     IN Becomes(Note(Send(C, r), "mixed",
                     others # {} /\ (others \cup {r}) \cap Binary # {}))
  /\ result' = [result EXCEPT ![r] = "waiting"]
  /\ issuedAs' = [issuedAs EXCEPT ![r] = token]
  /\ UNCHANGED <<token, ranAs, ends>>

\* The reconnect timer.  The socket is opened with the token of this moment; the
\* bootstrap payload of another token is left in place.
TimerFires ==
  /\ client.timer /\ \E s \in Socket : Free(s)
  /\ LET C == Connect([State EXCEPT !.c.timer = FALSE]) IN
       Becomes(Note(C, "reused", C.c.connToken # client.connToken /\ client.boot # 0))
  /\ UNCHANGED <<token, calls, ends>>

\* onopen: the queue is flushed.  The server pushes the bootstrap payload first,
\* when it can build it.
Opens(s) ==
  /\ ready[s] = "connecting"
  /\ ready' = [ready EXCEPT ![s] = "open"]
  /\ client' = [client EXCEPT !.connecting = FALSE, !.queue = <<>>]
  /\ out' = [out EXCEPT ![s] = client.queue]
  /\ \E built \in BOOLEAN :
       inn' = [inn EXCEPT ![s] = IF built THEN <<[type |-> "bootstrap"]>> ELSE <<>>]
  /\ UNCHANGED <<token, handler, boundTo, calls, ends, happened>>

(***************************************************************************)
(* The server handles the messages of a socket one after the other.        *)
(***************************************************************************)

\* An error, a rate limit included, is JSON for every call.
Answers(r) ==
  {<<[type |-> "json", id |-> r]>>} \cup
    (IF r \in Binary THEN {<<[type |-> "header", id |-> r], [type |-> "binary", id |-> r]>>}
                     ELSE {})

ServerRuns(s) ==
  /\ out[s] # <<>>
  /\ LET r == Head(out[s]) IN
       /\ ranAs' = [ranAs EXCEPT ![r] = boundTo[s]]
       /\ \E answer \in Answers(r) :
            inn' = [inn EXCEPT ![s] = IF ready[s] = "open" THEN @ \o answer ELSE @]
  /\ out' = [out EXCEPT ![s] = Tail(@)]
  /\ UNCHANGED <<token, client, ready, handler, boundTo, result, issuedAs, ends,
                 happened>>

(***************************************************************************)
(* onmessage.                                                              *)
(***************************************************************************)

\* The promise of a call is settled; the answer was that of another call.
Settles(r, answered) ==
  result' = [result EXCEPT ![r] = IF r = answered THEN "own" ELSE "other"]

\* _onDrainRpcComplete: the last call of a draining socket closes it.
DrainComplete(S, s, r) ==
  LET left == S.c.drainOf[s] \ {r}
      T == [S EXCEPT !.c.draining = @ \ {r}, !.c.drainOf[s] = left]
  IN IF left = {} THEN Discard(T, s) ELSE T

\* Mutant of TakesBinary: a frame is taken for the first call of any socket
TakesBinaryOfAny(s) == Elems(client.pending)

\* The calls a binary frame of the socket may be for: the comment says the
\* pending binary ones, the code takes any.
TakesBinary(s) ==
  IF handler[s] = "drain" THEN Elems(client.pending) \cap client.draining
                          ELSE InUse(client)

FirstOf(q, S) == q[CHOOSE i \in 1..Len(q) :
                     q[i] \in S /\ \A j \in 1..(i - 1) : q[j] \notin S]

\* Mutant of Finish: a drained socket is not closed
FinishOpen(S, s, r) == [S EXCEPT !.c.pending = Without(@, {r}), !.c.draining = @ \ {r}]

Finish(S, s, r) ==
  LET T == [S EXCEPT !.c.pending = Without(@, {r})]
  IN IF handler[s] = "drain" THEN DrainComplete(T, s, r) ELSE T

Receives(s) ==
  /\ ready[s] = "open" /\ inn[s] # <<>>
  /\ LET m == Head(inn[s])
         S == [State EXCEPT !.inn[s] = Tail(@)]
         known == m.type \in {"json", "header"} /\ m.id \in Elems(client.pending)
                   /\ (handler[s] = "drain" => m.id \in client.draining)
         takers == TakesBinary(s)
     IN \/ /\ m.type = "bootstrap"
           /\ Becomes(IF handler[s] = "live" THEN [S EXCEPT !.c.boot = boundTo[s]] ELSE S)
           /\ UNCHANGED result
        \/ /\ m.type = "json" /\ known
           /\ Settles(m.id, m.id) /\ Becomes(Finish(S, s, m.id))
        \/ /\ m.type = "header" /\ known
           /\ Becomes([S EXCEPT !.c.pending = Append(Without(@, {m.id}), m.id)])
           /\ UNCHANGED result
        \/ /\ m.type = "binary" /\ takers # {}
           /\ LET r == FirstOf(client.pending, takers) IN
                Settles(r, m.id) /\ Becomes(Finish(S, s, r))
        \/ /\ \/ m.type \in {"json", "header"} /\ ~known
              \/ m.type = "binary" /\ takers = {}
           /\ Becomes(S) /\ UNCHANGED result
  /\ UNCHANGED <<token, issuedAs, ranAs, ends>>

(***************************************************************************)
(* A socket ends.                                                          *)
(***************************************************************************)

\* The close frame of the server, after all it has sent.
ServerCloses(s) ==
  /\ ready[s] = "open" /\ inn[s] = <<>> /\ ends < MaxEnds
  /\ ends' = ends + 1
  /\ ready' = [ready EXCEPT ![s] = "closing"]
  /\ UNCHANGED <<token, client, handler, boundTo, out, inn, calls, happened>>

\* Mutant of Rejected: the calls of the socket in use are left to the next one
RejectedSent(s) ==
  IF handler[s] = "drain" THEN client.drainOf[s] \cap Elems(client.pending) ELSE {}

\* What onclose rejects: a draining socket its own calls, the one in use all.
Rejected(s) ==
  IF handler[s] = "drain" THEN client.drainOf[s] \cap Elems(client.pending)
                          ELSE Elems(client.pending)

\* onerror and onclose, of a lost connection or after the close frame.
Closes(s) ==
  /\ \/ ready[s] = "closing" /\ UNCHANGED ends
     \/ ready[s] \in {"connecting", "open"} /\ ends < MaxEnds /\ ends' = ends + 1
  /\ LET gone == Rejected(s)
         G == Note(State, "ghost", gone \cap Elems(client.queue) # {})
         S == [G EXCEPT !.ready[s] = "closed", !.handler[s] = "off",
                            !.out[s] = <<>>, !.inn[s] = <<>>,
                            !.c.pending = Without(@, gone)]
     IN /\ Becomes(IF handler[s] = "drain"
                   THEN [S EXCEPT !.c.draining = @ \ client.drainOf[s],
                                  !.c.drainOf[s] = {},
                                  !.c.timer = @ \/ (client.ws = 0 /\ ~client.connecting)]
                   ELSE Note([S EXCEPT !.c.connecting = FALSE, !.c.ws = 0, !.c.timer = TRUE],
                             "dropped", gone \cap client.draining # {}))
        /\ result' = [r \in Rpc |-> IF r \in gone THEN "rejected" ELSE result[r]]
  /\ UNCHANGED <<token, issuedAs, ranAs>>

Next ==
  \/ ChangeToken \/ TimerFires
  \/ \E r \in Rpc : Request(r)
  \/ \E s \in Socket : Opens(s) \/ ServerRuns(s) \/ Receives(s) \/ ServerCloses(s) \/ Closes(s)

\* The network carries what was sent or breaks, the server answers, a connection
\* attempt ends one way or the other, the timer fires: while one of these can
\* happen, one does.  No socket has to end, no call has to be made.
System(s) ==
  Opens(s) \/ ServerRuns(s) \/ Receives(s) \/ (ready[s] = "closing" /\ Closes(s))

Fairness == WF_vars(TimerFires \/ \E s \in Socket : System(s))

Spec == Init /\ [][Next]_vars /\ Fairness

(***************************************************************************)
(* Properties.                                                             *)
(***************************************************************************)

Frame == [type : {"json", "header", "binary"}, id : Rpc] \cup [type : {"bootstrap"}]

\* Every variable has a value of its kind; no call is pending twice.
ClientTypeOK ==
  /\ token \in Token
  /\ client.ws \in Socket \cup {0} /\ client.connToken \in Token
  /\ {client.connecting, client.timer} \subseteq BOOLEAN
  /\ client.pending \in Seq(Rpc) /\ client.queue \in Seq(Rpc)
  /\ Cardinality(Elems(client.pending)) = Len(client.pending)
  /\ client.draining \subseteq Rpc
  /\ client.drainOf \in [Socket -> SUBSET Rpc]
  /\ client.boot \in Token \cup {0}
  /\ ready \in [Socket -> {"connecting", "open", "closing", "closed"}]
  /\ handler \in [Socket -> {"live", "drain", "off"}]
  /\ boundTo \in [Socket -> Token]
  /\ out \in [Socket -> Seq(Rpc)] /\ inn \in [Socket -> Seq(Frame)]
  /\ result \in [Rpc -> {"none", "waiting", "own", "other", "rejected"}]
  /\ issuedAs \in [Rpc -> Token \cup {0}] /\ ranAs \in [Rpc -> Token \cup {0}]
  /\ ends \in 0..MaxEnds
  /\ happened \subseteq {"mixed", "twice", "ghost", "abandoned", "carried",
                         "dropped", "reused"}

\* A call's promise never gets another call's answer, whatever sockets come and
\* go in between, unless a binary call shared its socket with another call, or
\* two sockets were draining at once, or a rejected call was still queued and was
\* sent after all (onmessage, _ensureAuthFresh, onclose).
OwnAnswer ==
  \A r \in Rpc : result[r] = "other" => happened \cap {"mixed", "twice", "ghost"} # {}

\* Answers reach their own calls, as above, and no call is in _pendingRpc twice,
\* although a header frame takes it out and puts it back.
ClientSound == ClientTypeOK /\ OwnAnswer

\* A call runs under the account that issued it, unless the token changed while
\* it was queued (_ensureAuthFresh, _connectedToken, _sendQueue).
RunsAsIssued ==
  \A r \in Rpc : ranAs[r] \in {0, issuedAs[r]} \/ "carried" \in happened

\* A draining socket waits for one of its calls: it is not kept for nothing,
\* unless two were draining at once or the socket in use ended meanwhile
\* (_onDrainRpcComplete, _drainingSocketRpcIds).
DrainHasWork ==
  \A s \in Socket : handler[s] = "drain" =>
     \/ client.drainOf[s] \cap Elems(client.pending) # {}
     \/ happened \cap {"twice", "dropped"} # {}

\* The cached bootstrap payload is that of the account the client is connected
\* as, unless the reconnect timer met a new token (_ensureAuthFresh,
\* waitForBootstrap).
BootstrapIsOurs ==
  client.boot \in {0, client.connToken} \/ "reused" \in happened

\* Neither a call nor the cached payload is taken for another account's.
RightAccount == RunsAsIssued /\ BootstrapIsOurs

\* Every promise is settled (_send, onclose, _reconnect), unless answers were
\* mixed up (as above) or a closing socket was replaced before its onclose.
CallsSettle ==
  \A r \in Rpc :
     result[r] = "waiting" ~> (result[r] # "waiting"
                               \/ happened \cap {"mixed", "twice", "ghost", "abandoned"} # {})

=============================================================================
