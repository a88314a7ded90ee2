-------------------------- MODULE WsApiClientProofs --------------------------
(***************************************************************************)
(* The shared WebSocket client of WsApiClient for every number of calls,   *)
(* tokens, sockets and ends.                                               *)
(***************************************************************************)
EXTENDS WsApiClient, FiniteSetTheorems, SequenceTheorems, WellFoundedInduction, TLAPS

Once(q) == \A i, j \in 1..Len(q) : q[i] = q[j] => i = j

(* Part 1.  Sequences: the calls and the frames that wait in order. *)

LEMMA LeastElement ==
    ASSUME NEW T \in SUBSET Nat, T # {}
    PROVE  \E m \in T : \A n \in T : m <= n
<1> DEFINE R == OpToRel(<, Nat)
<1>1. IsWellFoundedOn(R, Nat)
  BY NatLessThanWellFounded
<1>2. \A x, y \in Nat : x < y => <<x, y>> \in R
  BY DEF OpToRel
<1> HIDE DEF R
<1>3. PICK x \in T : \A y \in T : ~(<<y, x>> \in R)
  BY <1>1, WFMin
<1>4. \A y \in T : ~(y < x)
  BY <1>2, <1>3
<1> QED BY <1>4

LEMMA ElemsEmpty == Elems(<<>>) = {}
BY DEF Elems

LEMMA ElemsIn ==
    ASSUME NEW S, NEW q \in Seq(S)
    PROVE  /\ Elems(q) \subseteq S
           /\ Elems(q) = {} <=> q = <<>>
<1>1. \A i \in 1..Len(q) : q[i] \in S
  OBVIOUS
<1>2. q # <<>> => 1 \in 1..Len(q)
  OBVIOUS
<1> QED BY <1>1, <1>2 DEF Elems

LEMMA AppendOf ==
    ASSUME NEW S, NEW q \in Seq(S), NEW e \in S
    PROVE  /\ Append(q, e) \in Seq(S) /\ Append(q, e) # <<>>
           /\ Elems(Append(q, e)) = Elems(q) \cup {e}
           /\ Once(q) /\ e \notin Elems(q) => Once(Append(q, e))
<1> DEFINE p == Append(q, e)
<1>1. /\ p \in Seq(S) /\ Len(q) \in Nat /\ Len(p) = Len(q) + 1
      /\ \A i \in 1..Len(q) : p[i] = q[i]
      /\ p[Len(q) + 1] = e
  OBVIOUS
<1>2. \A i \in 1..Len(p) : i \in 1..Len(q) \/ i = Len(q) + 1
  BY <1>1
<1>3. 1..Len(q) \subseteq 1..Len(p) /\ Len(q) + 1 \in 1..Len(p)
  BY <1>1
<1> HIDE DEF p
<1>4. Elems(p) = Elems(q) \cup {e}
  BY <1>1, <1>2, <1>3 DEF Elems
<1>5. ASSUME Once(q), e \notin Elems(q)
      PROVE  Once(p)
  <2> SUFFICES ASSUME NEW i \in 1..Len(p), NEW j \in 1..Len(p), p[i] = p[j] PROVE i = j
    BY DEF Once
  <2>1. i \in 1..Len(q) /\ j \in 1..Len(q) => i = j
    BY <1>1, <1>5 DEF Once
  <2>2. \A k \in 1..Len(q) : p[k] # e
    BY <1>1, <1>5 DEF Elems
  <2> QED BY <2>1, <2>2, <1>1, <1>2
<1>6. p # <<>>
  BY <1>1
<1> QED BY <1>1, <1>4, <1>5, <1>6 DEF p

LEMMA TailOf ==
    ASSUME NEW S, NEW q \in Seq(S), q # <<>>
    PROVE  /\ Tail(q) \in Seq(S) /\ Head(q) \in S /\ Head(q) \in Elems(q)
           /\ Len(q) \in Nat \ {0} /\ Len(Tail(q)) = Len(q) - 1 /\ Head(q) = q[1]
           /\ \A i \in 1..Len(Tail(q)) : i + 1 \in 1..Len(q) /\ Tail(q)[i] = q[i + 1]
           /\ Elems(Tail(q)) \subseteq Elems(q)
           /\ Once(q) => Once(Tail(q)) /\ Elems(Tail(q)) = Elems(q) \ {Head(q)}
<1> DEFINE p == Tail(q)
<1>1. /\ p \in Seq(S) /\ Head(q) \in S /\ Len(q) \in Nat \ {0} /\ Len(p) = Len(q) - 1
      /\ Head(q) = q[1] /\ \A i \in 1..Len(p) : p[i] = q[i + 1]
  OBVIOUS
<1>2. \A i \in 1..Len(p) : i + 1 \in 1..Len(q)
  BY <1>1
<1>3. \A i \in 1..Len(q) : i = 1 \/ (i - 1 \in 1..Len(p) /\ (i - 1) + 1 = i)
  BY <1>1
<1>4. 1 \in 1..Len(q)
  BY <1>1
<1> HIDE DEF p
<1>5. Head(q) \in Elems(q) /\ Elems(p) \subseteq Elems(q)
  BY <1>1, <1>2, <1>4 DEF Elems
<1>6. ASSUME Once(q) PROVE Once(p) /\ Elems(p) = Elems(q) \ {Head(q)}
  <2>1. Once(p)
    <3> SUFFICES ASSUME NEW i \in 1..Len(p), NEW j \in 1..Len(p), p[i] = p[j] PROVE i = j
      BY DEF Once
    <3>1. i + 1 = j + 1
      BY <1>1, <1>2, <1>6 DEF Once
    <3> QED BY <3>1
  <2>2. \A i \in 1..Len(p) : p[i] # q[1]
    <3> SUFFICES ASSUME NEW i \in 1..Len(p), p[i] = q[1] PROVE FALSE
      OBVIOUS
    <3>1. i + 1 = 1
      BY <1>1, <1>2, <1>4, <1>6 DEF Once
    <3> QED BY <3>1
  <2>3. \A i \in 1..Len(q) : q[i] = q[1] \/ \E j \in 1..Len(p) : p[j] = q[i]
    BY <1>1, <1>3
  <2> QED BY <2>1, <2>2, <2>3, <1>1, <1>5 DEF Elems
<1> QED BY <1>1, <1>2, <1>5, <1>6 DEF p

(* What Without keeps: the calls that are not gone, once each. *)
LEMMA WithoutDefined ==
    ASSUME NEW S, NEW q \in Seq(S), NEW gone
    PROVE  \E kept : /\ Without(q, gone) = kept[Len(q)]
                     /\ \A n \in 0..Len(q) :
                          kept[n] = IF n = 0 THEN <<>>
                                    ELSE IF q[n] \in gone THEN kept[n - 1]
                                         ELSE Append(kept[n - 1], q[n])
<1> DEFINE Along(g, n) == g = [i \in 0..n |-> IF i = 0 THEN <<>>
                                             ELSE IF q[i] \in gone THEN g[i - 1]
                                                  ELSE Append(g[i - 1], q[i])]
           Bad == {n \in Nat : ~\E g : Along(g, n)}
<1>1. Bad = {}
  <2> SUFFICES ASSUME Bad # {} PROVE FALSE
    OBVIOUS
  <2>1. PICK m \in Bad : \A n \in Bad : m <= n
    BY LeastElement
  <2>2. m \in Nat
    OBVIOUS
  <2>3. CASE m = 0
    <3> DEFINE h == [i \in 0..0 |-> <<>>]
    <3>1. Along(h, 0)
      OBVIOUS
    <3> QED BY <2>3, <3>1
  <2>4. CASE m # 0
    <3>1. m - 1 \in Nat /\ m - 1 \notin Bad
      <4>1. m - 1 \in Nat /\ ~(m <= m - 1)
        BY <2>2, <2>4
      <4> HIDE DEF Bad
      <4> QED BY <2>1, <4>1
    <3>2. PICK g : Along(g, m - 1)
      BY <3>1
    <3> DEFINE h == [i \in 0..m |-> IF i < m THEN g[i]
                                    ELSE IF q[m] \in gone THEN g[m - 1]
                                         ELSE Append(g[m - 1], q[m])]
    <3>3. ASSUME NEW i \in 0..m
          PROVE  h[i] = IF i = 0 THEN <<>>
                        ELSE IF q[i] \in gone THEN h[i - 1] ELSE Append(h[i - 1], q[i])
      <4>1. CASE i = m
        <5>1. h[m - 1] = g[m - 1]
          BY <2>2, <2>4
        <5> QED BY <4>1, <5>1, <2>2, <2>4
      <4>2. CASE i < m
        <5>1. i \in 0..(m - 1)
          BY <4>2, <2>2
        <5>2. g[i] = IF i = 0 THEN <<>>
                     ELSE IF q[i] \in gone THEN g[i - 1] ELSE Append(g[i - 1], q[i])
          BY <3>2, <5>1
        <5>3. i # 0 => h[i - 1] = g[i - 1]
          BY <4>2, <2>2
        <5>4. h[i] = g[i]
          BY <4>2
        <5> QED BY <5>2, <5>3, <5>4, <2>2
      <4> QED BY <4>1, <4>2, <2>2
    <3>4. Along(h, m)
      BY <3>3
    <3> QED BY <3>4
  <2> QED BY <2>3, <2>4
<1> DEFINE kept == CHOOSE g : Along(g, Len(q))
<1>2. Along(kept, Len(q))
  <2>1. \E g : Along(g, Len(q))
    <3>1. Len(q) \in Nat
      OBVIOUS
    <3> QED BY <1>1, <3>1
  <2> HIDE DEF Along
  <2> QED BY <2>1
<1>3. Without(q, gone) = kept[Len(q)]
  BY DEF Without
<1> HIDE DEF kept
<1>4. \A n \in 0..Len(q) : kept[n] = IF n = 0 THEN <<>>
                                     ELSE IF q[n] \in gone THEN kept[n - 1]
                                          ELSE Append(kept[n - 1], q[n])
  BY <1>2
<1> QED BY <1>3, <1>4

LEMMA WithoutOf ==
    ASSUME NEW S, NEW q \in Seq(S), NEW gone
    PROVE  /\ Without(q, gone) \in Seq(S)
           /\ Elems(Without(q, gone)) = Elems(q) \ gone
           /\ Once(q) => Once(Without(q, gone))
<1>1. PICK kept : /\ Without(q, gone) = kept[Len(q)]
                  /\ \A n \in 0..Len(q) :
                       kept[n] = IF n = 0 THEN <<>>
                                 ELSE IF q[n] \in gone THEN kept[n - 1]
                                      ELSE Append(kept[n - 1], q[n])
  BY WithoutDefined
<1> DEFINE First(n) == {q[i] : i \in 1..n}
           Good(n) == /\ kept[n] \in Seq(S)
                      /\ Elems(kept[n]) = First(n) \ gone
                      /\ Once(q) => Once(kept[n])
           Bad == {n \in 0..Len(q) : ~Good(n)}
<1>2. Bad = {}
  <2> SUFFICES ASSUME Bad # {} PROVE FALSE
    OBVIOUS
  <2>0. Bad \in SUBSET Nat
    OBVIOUS
  <2>1. PICK m \in Bad : \A n \in Bad : m <= n
    <3> HIDE DEF Bad
    <3> QED BY <2>0, LeastElement
  <2>2. m \in 0..Len(q) /\ Len(q) \in Nat /\ ~Good(m)
    OBVIOUS
  <2>3. CASE m = 0
    <3>1. kept[m] = <<>> /\ First(m) = {}
      BY <2>2, <2>3, <1>1
    <3>2. <<>> \in Seq(S) /\ Once(<<>>)
      BY DEF Once
    <3>3. {} = {} \ gone
      OBVIOUS
    <3>4. Good(m)
      <4> HIDE DEF First
      <4> QED BY <3>1, <3>2, <3>3, ElemsEmpty
    <3> QED BY <3>4, <2>2
  <2>4. CASE m # 0
    <3>1. m - 1 \in 0..Len(q) /\ m \in 1..Len(q) /\ m - 1 \in Nat /\ q[m] \in S
      BY <2>2, <2>4
    <3>2. Good(m - 1)
      <4>1. ~(m <= m - 1)
        BY <3>1
      <4>2. m - 1 \notin Bad
        <5> HIDE DEF Bad
        <5> QED BY <2>1, <4>1
      <4> QED BY <3>1, <4>2
    <3>3. First(m) = First(m - 1) \cup {q[m]}
      <4>1. \A i \in 1..m : i \in 1..(m - 1) \/ i = m
        BY <3>1
      <4>2. 1..(m - 1) \subseteq 1..m /\ m \in 1..m
        BY <3>1
      <4> QED BY <4>1, <4>2
    <3>4. CASE q[m] \in gone
      <4>1. kept[m] = kept[m - 1]
        BY <3>1, <3>4, <1>1
      <4> HIDE DEF First
      <4> QED BY <2>2, <3>2, <3>3, <3>4, <4>1
    <3>5. CASE q[m] \notin gone
      <4>1. kept[m] = Append(kept[m - 1], q[m])
        BY <3>1, <3>5, <2>4, <1>1
      <4>2. Once(q) => q[m] \notin First(m - 1)
        <5> SUFFICES ASSUME Once(q), NEW i \in 1..(m - 1), q[i] = q[m] PROVE FALSE
          OBVIOUS
        <5>1. i \in 1..Len(q) /\ i # m
          BY <3>1
        <5> QED BY <5>1, <3>1 DEF Once
      <4>3. /\ kept[m] \in Seq(S)
            /\ Elems(kept[m]) = Elems(kept[m - 1]) \cup {q[m]}
            /\ Once(kept[m - 1]) /\ q[m] \notin Elems(kept[m - 1]) => Once(kept[m])
        <5> HIDE DEF First
        <5> QED BY <3>1, <3>2, <4>1, AppendOf
      <4> HIDE DEF First
      <4> QED BY <2>2, <3>2, <3>3, <3>5, <4>2, <4>3
    <3> QED BY <3>4, <3>5
  <2> QED BY <2>3, <2>4
<1>3. Len(q) \in 0..Len(q)
  OBVIOUS
<1>4. Good(Len(q))
  BY <1>2, <1>3
<1> QED BY <1>1, <1>4 DEF Elems

LEMMA OnceCounts ==
    ASSUME NEW S, NEW q \in Seq(S), Once(q)
    PROVE  Cardinality(Elems(q)) = Len(q)
<1> DEFINE f == [i \in 1..Len(q) |-> q[i]]
<1>1. Len(q) \in Nat
  OBVIOUS
<1>2. f \in Bijection(1..Len(q), Elems(q))
  <2>1. f \in [1..Len(q) -> Elems(q)]
    BY DEF Elems
  <2>2. \A i, j \in 1..Len(q) : f[i] = f[j] => i = j
    BY DEF Once
  <2>3. \A e \in Elems(q) : \E i \in 1..Len(q) : f[i] = e
    BY DEF Elems
  <2> HIDE DEF f
  <2> QED BY <2>1, <2>2, <2>3 DEF Bijection, Injection, Surjection, IsInjective
<1>3. ExistsBijection(1..Len(q), Elems(q))
  BY <1>2 DEF ExistsBijection
<1> QED BY <1>1, <1>3, FS_CountingElements

(* Part 2.  The internal functions, as what they do to each field of the state they
   get. *)

Clients == [ws : Socket \cup {0}, connecting : BOOLEAN, connToken : Token,
            timer : BOOLEAN, pending : Seq(Rpc), draining : SUBSET Rpc,
            drainOf : [Socket -> SUBSET Rpc], queue : Seq(Rpc), boot : Token \cup {0}]
Troubles == {"mixed", "twice", "ghost", "abandoned", "carried", "dropped", "reused"}
States == [c : Clients, ready : [Socket -> {"connecting", "open", "closing", "closed"}],
           handler : [Socket -> {"live", "drain", "off"}], boundTo : [Socket -> Token],
           out : [Socket -> Seq(Rpc)], inn : [Socket -> Seq(Frame)],
           happened : SUBSET Troubles]

(* The socket in use is the one with the live handlers, a socket without handlers
   is closed, a draining one has been open. *)
Sockets(S) ==
  \A s \in Socket :
    /\ S.handler[s] = "live" <=> S.c.ws = s
    /\ S.handler[s] = "off" <=> S.ready[s] = "closed"
    /\ S.handler[s] = "drain" => S.ready[s] \in {"open", "closing"}
    /\ S.c.ws = s => S.boundTo[s] = S.c.connToken

\* What is free when the function of the page starts is still free in S.
StillFree(S) ==
  \A s \in Socket : Free(s) => /\ S.ready[s] = "closed" /\ S.handler[s] = "off"
                               /\ S.out[s] = <<>>

\* A new socket n has been opened with the token tk.
Opened(S, T, n, tk) ==
  /\ n \in Socket /\ S.ready[n] = "closed" /\ S.handler[n] = "off" /\ S.out[n] = <<>>
  /\ ~S.c.connecting
  /\ S.c.ws # 0 => S.ready[S.c.ws] \notin {"open", "connecting"}
  /\ T.c = [S.c EXCEPT !.connecting = TRUE, !.ws = n, !.connToken = tk]
  /\ \A s \in Socket :
       /\ T.ready[s] = IF s = n THEN "connecting" ELSE IF s = S.c.ws THEN "closed" ELSE S.ready[s]
       /\ T.handler[s] = IF s = n THEN "live" ELSE IF s = S.c.ws THEN "off" ELSE S.handler[s]
       /\ T.boundTo[s] = IF s = n THEN tk ELSE S.boundTo[s]
       /\ T.out[s] = S.out[s]
       /\ T.inn[s] = IF s = n \/ s = S.c.ws THEN <<>> ELSE S.inn[s]
  /\ S.happened \subseteq T.happened

\* The socket in use is let go, and is closed.
Dropped(S, T) ==
  /\ S.c.ws # 0 /\ (S.ready[S.c.ws] = "connecting" \/ S.c.pending = <<>>)
  /\ T.c = [S.c EXCEPT !.ws = 0]
  /\ \A s \in Socket :
       /\ T.ready[s] = IF s = S.c.ws THEN "closed" ELSE S.ready[s]
       /\ T.handler[s] = IF s = S.c.ws THEN "off" ELSE S.handler[s]
       /\ T.boundTo[s] = S.boundTo[s]
       /\ T.out[s] = S.out[s]
       /\ T.inn[s] = IF s = S.c.ws THEN <<>> ELSE S.inn[s]
  /\ S.happened = T.happened

\* The socket in use is let go, and drains every pending call.
Rotated(S, T) ==
  /\ S.c.ws # 0 /\ S.ready[S.c.ws] # "connecting" /\ S.c.pending # <<>>
  /\ T.c = [S.c EXCEPT !.ws = 0, !.draining = @ \cup Elems(S.c.pending),
                       !.drainOf[S.c.ws] = Elems(S.c.pending)]
  /\ T.ready = S.ready /\ T.boundTo = S.boundTo /\ T.out = S.out /\ T.inn = S.inn
  /\ \A s \in Socket : T.handler[s] = IF s = S.c.ws THEN "drain" ELSE S.handler[s]
  /\ S.happened \subseteq T.happened
  /\ (\E s \in Socket : S.handler[s] = "drain") => "twice" \in T.happened

LEMMA SocketNumbers == Socket \subseteq Nat \ {0} /\ 0 \notin Socket /\ Token \subseteq Nat \ {0}
BY DEF Socket, Token

LEMMA FieldsOf ==
    ASSUME NEW S \in States
    PROVE  /\ S = [c |-> S.c, ready |-> S.ready, handler |-> S.handler, boundTo |-> S.boundTo,
                   out |-> S.out, inn |-> S.inn, happened |-> S.happened]
           /\ S.c \in Clients
           /\ S.ready \in [Socket -> {"connecting", "open", "closing", "closed"}]
           /\ S.handler \in [Socket -> {"live", "drain", "off"}]
           /\ S.boundTo \in [Socket -> Token]
           /\ S.out \in [Socket -> Seq(Rpc)]
           /\ S.inn \in [Socket -> Seq(Frame)]
           /\ S.happened \in SUBSET Troubles
BY DEF States

LEMMA ConnectOf ==
    ASSUME NEW S \in States, token \in Token, Sockets(S), StillFree(S),
           \E s \in Socket : Free(s)
    PROVE  /\ Connect(S) \in States
           /\ \/ /\ Connect(S) = S
                 /\ S.c.connecting \/ (S.c.ws # 0 /\ S.ready[S.c.ws] \in {"open", "connecting"})
              \/ \E n \in Socket : Opened(S, Connect(S), n, token)
<1>1. CASE S.c.connecting \/ (S.c.ws # 0 /\ S.ready[S.c.ws] \in {"open", "connecting"})
  BY <1>1 DEF Connect
<1>2. CASE ~(S.c.connecting \/ (S.c.ws # 0 /\ S.ready[S.c.ws] \in {"open", "connecting"}))
  <2> DEFINE n == CHOOSE s \in Socket : Free(s)
             D == Note(Discard(S, S.c.ws), "abandoned", InUse(S.c) \ Elems(S.c.queue) # {})
             T == IF S.c.ws = 0 THEN S ELSE D
             C == [T EXCEPT !.c.connecting = TRUE, !.c.ws = n, !.c.connToken = token,
                            !.ready[n] = "connecting", !.handler[n] = "live",
                            !.boundTo[n] = token, !.inn[n] = <<>>]
  <2>1. n \in Socket /\ Free(n)
    OBVIOUS
  <2>2. Connect(S) = C
    BY <1>2, Zenon DEF Connect
  <2> HIDE DEF n
  <2>3. S.ready[n] = "closed" /\ S.handler[n] = "off" /\ S.out[n] = <<>> /\ n # S.c.ws
    BY <2>1 DEF StillFree, Sockets
  <2>4. /\ T \in States /\ T.c = S.c /\ T.boundTo = S.boundTo /\ T.out = S.out
        /\ S.happened \subseteq T.happened
        /\ \A s \in Socket :
             /\ T.ready[s] = IF s = S.c.ws THEN "closed" ELSE S.ready[s]
             /\ T.handler[s] = IF s = S.c.ws THEN "off" ELSE S.handler[s]
             /\ T.inn[s] = IF s = S.c.ws THEN <<>> ELSE S.inn[s]
    <3>1. CASE S.c.ws = 0
      <4>1. T = S /\ S.c.ws \notin Socket
        BY <3>1, SocketNumbers
      <4> HIDE DEF T
      <4> QED BY <4>1
    <3>2. CASE S.c.ws # 0
      <4>1. S.c.ws \in Socket
        BY <3>2 DEF States, Clients
      <4>2. T = D
        BY <3>2
      <4>3. <<>> \in Seq(Frame) /\ "abandoned" \in Troubles
        BY DEF Troubles
      <4>4. \A cond : /\ Note(Discard(S, S.c.ws), "abandoned", cond) \in States
                      /\ Note(Discard(S, S.c.ws), "abandoned", cond).c = S.c
                      /\ Note(Discard(S, S.c.ws), "abandoned", cond).boundTo = S.boundTo
                      /\ Note(Discard(S, S.c.ws), "abandoned", cond).out = S.out
                      /\ S.happened \subseteq Note(Discard(S, S.c.ws), "abandoned", cond).happened
        BY <4>1, <4>3 DEF Note, Discard, States
      <4>5. \A cond : \A s \in Socket :
              /\ Note(Discard(S, S.c.ws), "abandoned", cond).ready[s] =
                    IF s = S.c.ws THEN "closed" ELSE S.ready[s]
              /\ Note(Discard(S, S.c.ws), "abandoned", cond).handler[s] =
                    IF s = S.c.ws THEN "off" ELSE S.handler[s]
              /\ Note(Discard(S, S.c.ws), "abandoned", cond).inn[s] =
                    IF s = S.c.ws THEN <<>> ELSE S.inn[s]
        BY <4>1 DEF Note, Discard, States
      <4> HIDE DEF T
      <4> QED BY <4>2, <4>4, <4>5
    <3> HIDE DEF T
    <3> QED BY <3>1, <3>2
  <2> HIDE DEF T
  <2>5. C \in States
    <3>1. T.c \in Clients
      BY <2>4, FieldsOf
    <3>2. C = [T EXCEPT !.c = [T.c EXCEPT !.connecting = TRUE, !.ws = n, !.connToken = token],
                        !.ready = [T.ready EXCEPT ![n] = "connecting"],
                        !.handler = [T.handler EXCEPT ![n] = "live"],
                        !.boundTo = [T.boundTo EXCEPT ![n] = token],
                        !.inn = [T.inn EXCEPT ![n] = <<>>]]
      BY <2>4 DEF States
    <3>3. [T.c EXCEPT !.connecting = TRUE, !.ws = n, !.connToken = token] \in Clients
      BY <3>1, <2>1 DEF Clients
    <3>4. <<>> \in Seq(Frame)
      OBVIOUS
    <3>5. /\ [T.ready EXCEPT ![n] = "connecting"] \in
                 [Socket -> {"connecting", "open", "closing", "closed"}]
          /\ [T.handler EXCEPT ![n] = "live"] \in [Socket -> {"live", "drain", "off"}]
          /\ [T.boundTo EXCEPT ![n] = token] \in [Socket -> Token]
          /\ [T.inn EXCEPT ![n] = <<>>] \in [Socket -> Seq(Frame)]
      BY <2>1, <2>4, <3>4, FieldsOf
    <3>6. \A a, b, d, e, f : /\ a \in Clients
                             /\ b \in [Socket -> {"connecting", "open", "closing", "closed"}]
                             /\ d \in [Socket -> {"live", "drain", "off"}]
                             /\ e \in [Socket -> Token] /\ f \in [Socket -> Seq(Frame)]
            => [T EXCEPT !.c = a, !.ready = b, !.handler = d, !.boundTo = e, !.inn = f] \in States
      BY <2>4 DEF States
    <3> HIDE DEF C
    <3> QED BY <3>2, <3>3, <3>5, <3>6
  <2>6. /\ C.c = [S.c EXCEPT !.connecting = TRUE, !.ws = n, !.connToken = token]
        /\ C.out = S.out /\ C.happened = T.happened
    BY <2>4 DEF States, Clients
  <2>7. \A s \in Socket :
         /\ C.ready[s] = IF s = n THEN "connecting" ELSE T.ready[s]
         /\ C.handler[s] = IF s = n THEN "live" ELSE T.handler[s]
         /\ C.boundTo[s] = IF s = n THEN token ELSE T.boundTo[s]
         /\ C.inn[s] = IF s = n THEN <<>> ELSE T.inn[s]
    BY <2>1, <2>4 DEF States
  <2> HIDE DEF C
  <2>8. Opened(S, C, n, token)
    BY <1>2, <2>1, <2>3, <2>4, <2>6, <2>7 DEF Opened
  <2> QED BY <2>1, <2>2, <2>5, <2>8
<1> QED BY <1>1, <1>2

(* Part 3.  The invariant, over the states the internal functions work on. *)

\* The calls whose answer a socket still carries, as a request or as a frame.
Answer(f)      == f.type \in {"json", "binary"}
Answered(q)    == {f.id : f \in {q[i] : i \in {j \in 1..Len(q) : Answer(q[j])}}}
Carries(o, q)  == Elems(o) \cup Answered(q)

(* Messages are queued only while a socket is opening or there is none. *)
QueueWaits(S) == S.c.queue # <<>> => S.c.ws = 0 \/ S.ready[S.c.ws] = "connecting"

(* What is known of calls is known of calls that were issued. *)
Issued(S, K) ==
  /\ Elems(S.c.pending) \subseteq K /\ S.c.draining \subseteq K /\ Elems(S.c.queue) \subseteq K
  /\ \A s \in Socket : S.c.drainOf[s] \subseteq K /\ Carries(S.out[s], S.inn[s]) \subseteq K

(* The queue and the socket in use carry no draining call. *)
Apart(S) ==
  /\ Elems(S.c.queue) \cap S.c.draining = {}
  /\ \A s \in Socket :
       S.handler[s] = "live" => Carries(S.out[s], S.inn[s]) \cap S.c.draining = {}

Struct(S, K) ==
  Sockets(S) /\ QueueWaits(S) /\ Issued(S, K) /\ Apart(S) /\ Once(S.c.pending)

(* Whatever waits to be sent or run does so under the account that issued it. *)
Account(S, iss, tk) ==
  /\ \A s \in Socket : \A r \in Elems(S.out[s]) : S.boundTo[s] = iss[r]
  /\ \A r \in Elems(S.c.queue) : iss[r] = tk
  /\ S.c.queue # <<>> /\ S.c.ws # 0 => S.c.connToken = tk

OneDrain(S) ==
  \A s, t \in Socket : S.handler[s] = "drain" /\ S.handler[t] = "drain" => s = t
NoDrain(S)  == \A s \in Socket : S.handler[s] # "drain"
DrainedCalls(S) == Elems(S.c.pending) \cap S.c.draining

(* A socket carries a call once, and a binary frame only for a binary call. *)
Orderly(o, q) ==
  /\ Once(o) /\ Elems(o) \cap Answered(q) = {}
  /\ \A i, j \in 1..Len(q) : Answer(q[i]) /\ Answer(q[j]) /\ q[i].id = q[j].id => i = j
  /\ \A i \in 1..Len(q) : q[i].type = "binary" => q[i].id \in Binary

Alone(A) == \A b \in A \cap Binary : A = {b}

(* While nothing was mixed: a binary call is alone on its side, the socket in use
   carries calls of its own, the draining one calls that are being drained. *)
Clean(S) ==
  /\ OneDrain(S)
  /\ Alone(InUse(S.c)) /\ Alone(DrainedCalls(S))
  /\ Elems(S.c.queue) \subseteq InUse(S.c) /\ Once(S.c.queue)
  /\ \A s \in Socket : S.handler[s] # "off" => Orderly(S.out[s], S.inn[s])
  /\ \A s \in Socket : S.handler[s] = "live" => Carries(S.out[s], S.inn[s]) \subseteq InUse(S.c)
  /\ \A s \in Socket : S.handler[s] = "drain" =>
        /\ DrainedCalls(S) # {} => Carries(S.out[s], S.inn[s]) \subseteq DrainedCalls(S)
        /\ DrainedCalls(S) \subseteq S.c.drainOf[s]
        /\ S.c.drainOf[s] \subseteq S.c.draining
  /\ NoDrain(S) => DrainedCalls(S) = {}

(* While the socket in use has not ended with calls being drained: a draining
   socket has calls left, all of them pending. *)
Calm(S) ==
  /\ OneDrain(S)
  /\ \A s \in Socket : S.handler[s] = "drain" =>
        S.c.drainOf[s] # {} /\ S.c.drainOf[s] \subseteq DrainedCalls(S)

LEMMA NothingCarried == Carries(<<>>, <<>>) = {} /\ Orderly(<<>>, <<>>)
BY ElemsEmpty DEF Carries, Answered, Orderly, Once

LEMMA LessCarried ==
    ASSUME NEW o
    PROVE  Carries(o, <<>>) \subseteq Elems(o)
BY DEF Carries, Answered

LEMMA OpenedStruct ==
    ASSUME NEW S \in States, NEW T \in States, NEW n, NEW tk \in Token, NEW K,
           Opened(S, T, n, tk), Struct(S, K)
    PROVE  Struct(T, K)
<1>1. Sockets(T)
  <2>1. T.c.ws = n /\ T.c.connToken = tk /\ n \in Socket /\ n # S.c.ws
    BY DEF Opened, Struct, Sockets, States, Clients
  <2>2. Sockets(S)
    BY DEF Struct
  <2> QED BY <2>1, <2>2 DEF Opened, Sockets
<1>2. QueueWaits(T)
  BY DEF Opened, QueueWaits, States, Clients
<1>3. \A s \in Socket : T.out[s] = S.out[s] /\ (T.inn[s] = S.inn[s] \/ T.inn[s] = <<>>)
  BY DEF Opened
<1>4. \A s \in Socket : Carries(T.out[s], T.inn[s]) \subseteq Carries(S.out[s], S.inn[s])
  BY <1>3, LessCarried DEF Carries
<1>5. /\ T.c.pending = S.c.pending /\ T.c.draining = S.c.draining
      /\ T.c.queue = S.c.queue /\ T.c.drainOf = S.c.drainOf
  BY DEF Opened, States, Clients
<1>6. Issued(T, K)
  BY <1>4, <1>5 DEF Issued, Struct
<1>7. \A s \in Socket : T.handler[s] = "live" =>
         S.handler[s] = "live" \/ Carries(T.out[s], T.inn[s]) = {}
  BY NothingCarried DEF Opened
<1>8. Apart(T)
  BY <1>4, <1>5, <1>7 DEF Apart, Struct
<1> QED BY <1>1, <1>2, <1>5, <1>6, <1>8 DEF Struct

LEMMA OpenedAccount ==
    ASSUME NEW S \in States, NEW T \in States, NEW n, NEW tk \in Token, NEW iss,
           Opened(S, T, n, tk), Account(S, iss, tk)
    PROVE  Account(T, iss, tk)
<1>1. T.c.queue = S.c.queue /\ T.c.connToken = tk
  BY DEF Opened, States, Clients
<1>2. \A s \in Socket : T.out[s] = S.out[s]
  BY DEF Opened
<1>3. \A s \in Socket : T.boundTo[s] = S.boundTo[s] \/ T.out[s] = <<>>
  BY DEF Opened
<1> QED BY <1>1, <1>2, <1>3, ElemsEmpty DEF Account

LEMMA OpenedClean ==
    ASSUME NEW S \in States, NEW T \in States, NEW n, NEW tk \in Token,
           Opened(S, T, n, tk), Sockets(S), Clean(S)
    PROVE  Clean(T)
<1>1. /\ T.c.pending = S.c.pending /\ T.c.draining = S.c.draining
      /\ T.c.queue = S.c.queue /\ T.c.drainOf = S.c.drainOf
  BY DEF Opened, States, Clients
<1>2. \A s \in Socket : T.handler[s] = "drain" <=> S.handler[s] = "drain"
  BY DEF Opened, Sockets
<1>3. InUse(T.c) = InUse(S.c) /\ DrainedCalls(T) = DrainedCalls(S)
  BY <1>1 DEF InUse, DrainedCalls
<1>4. \A s \in Socket : s = n \/ s = S.c.ws \/ (T.out[s] = S.out[s] /\ T.inn[s] = S.inn[s]
                                                 /\ T.handler[s] = S.handler[s])
  BY DEF Opened
<1>5. T.handler[n] = "live" /\ T.out[n] = <<>> /\ T.inn[n] = <<>> /\ n \in Socket
  BY DEF Opened
<1>6. S.c.ws # n /\ (S.c.ws \in Socket => T.handler[S.c.ws] = "off")
  BY DEF Opened, Sockets
<1>7. \A s \in Socket : T.handler[s] # "off" => Orderly(T.out[s], T.inn[s])
  BY <1>4, <1>5, <1>6, NothingCarried DEF Clean
<1>8. \A s \in Socket : T.handler[s] = "live" => Carries(T.out[s], T.inn[s]) \subseteq InUse(T.c)
  BY <1>3, <1>4, <1>5, <1>6, NothingCarried DEF Clean
<1>9. \A s \in Socket : T.handler[s] = "drain" => T.out[s] = S.out[s] /\ T.inn[s] = S.inn[s]
  BY <1>4, <1>5, <1>6
<1>10. OneDrain(T) /\ (NoDrain(T) <=> NoDrain(S))
  BY <1>2 DEF OneDrain, NoDrain, Clean
<1> QED BY <1>1, <1>2, <1>3, <1>7, <1>8, <1>9, <1>10 DEF Clean

LEMMA OpenedCalm ==
    ASSUME NEW S \in States, NEW T \in States, NEW n, NEW tk \in Token,
           Opened(S, T, n, tk), Sockets(S), Calm(S)
    PROVE  Calm(T)
<1>1. /\ T.c.pending = S.c.pending /\ T.c.draining = S.c.draining
      /\ T.c.drainOf = S.c.drainOf
  BY DEF Opened, States, Clients
<1>2. \A s \in Socket : T.handler[s] = "drain" <=> S.handler[s] = "drain"
  BY DEF Opened, Sockets
<1> QED BY <1>1, <1>2 DEF Calm, OneDrain, DrainedCalls

LEMMA DroppedStruct ==
    ASSUME NEW S \in States, NEW T \in States, NEW K, Dropped(S, T), Struct(S, K)
    PROVE  Struct(T, K)
<1>1. /\ T.c.ws = 0 /\ T.c.pending = S.c.pending /\ T.c.draining = S.c.draining
      /\ T.c.queue = S.c.queue /\ T.c.drainOf = S.c.drainOf
      /\ S.c.ws \in Socket
  BY DEF Dropped, States, Clients
<1>2. Sockets(S) /\ Sockets(T)
  <2>1. Sockets(S)
    BY DEF Struct
  <2> QED BY <1>1, <2>1, SocketNumbers DEF Dropped, Sockets
<1>3. QueueWaits(T)
  BY <1>1 DEF QueueWaits
<1>4. \A s \in Socket : T.out[s] = S.out[s] /\ (T.inn[s] = S.inn[s] \/ T.inn[s] = <<>>)
  BY DEF Dropped
<1>5. \A s \in Socket : Carries(T.out[s], T.inn[s]) \subseteq Carries(S.out[s], S.inn[s])
  BY <1>4, LessCarried DEF Carries
<1>6. Issued(T, K)
  BY <1>1, <1>5 DEF Issued, Struct
<1>7. \A s \in Socket : T.handler[s] # "live"
  BY <1>1, <1>2, SocketNumbers DEF Sockets
<1>8. Apart(T)
  BY <1>1, <1>7 DEF Apart, Struct
<1> QED BY <1>1, <1>2, <1>3, <1>6, <1>8 DEF Struct

LEMMA DroppedAccount ==
    ASSUME NEW S \in States, NEW T \in States, NEW tk, NEW iss, Dropped(S, T), Account(S, iss, tk)
    PROVE  Account(T, iss, tk)
<1>1. T.c.ws = 0 /\ T.c.queue = S.c.queue
  BY DEF Dropped, States, Clients
<1> QED BY <1>1 DEF Account, Dropped

LEMMA DroppedClean ==
    ASSUME NEW S \in States, NEW T \in States, Dropped(S, T), Sockets(S), Clean(S)
    PROVE  Clean(T)
<1>1. /\ T.c.pending = S.c.pending /\ T.c.draining = S.c.draining
      /\ T.c.queue = S.c.queue /\ T.c.drainOf = S.c.drainOf
  BY DEF Dropped, States, Clients
<1>2. InUse(T.c) = InUse(S.c) /\ DrainedCalls(T) = DrainedCalls(S)
  BY <1>1 DEF InUse, DrainedCalls
<1>3. \A s \in Socket : T.handler[s] # "off" => /\ T.out[s] = S.out[s] /\ T.inn[s] = S.inn[s]
                                                /\ T.handler[s] = S.handler[s]
  BY DEF Dropped
<1>4. \A s \in Socket : T.handler[s] = "drain" <=> S.handler[s] = "drain"
  BY DEF Dropped, Sockets
<1>5. OneDrain(T) /\ (NoDrain(T) <=> NoDrain(S))
  BY <1>4 DEF OneDrain, NoDrain, Clean
<1> QED BY <1>1, <1>2, <1>3, <1>5 DEF Clean

LEMMA DroppedCalm ==
    ASSUME NEW S \in States, NEW T \in States, Dropped(S, T), Sockets(S), Calm(S)
    PROVE  Calm(T)
<1>1. /\ T.c.pending = S.c.pending /\ T.c.draining = S.c.draining
      /\ T.c.drainOf = S.c.drainOf
  BY DEF Dropped, States, Clients
<1>2. \A s \in Socket : T.handler[s] = "drain" <=> S.handler[s] = "drain"
  BY DEF Dropped, Sockets
<1> QED BY <1>1, <1>2 DEF Calm, OneDrain, DrainedCalls

LEMMA RotatedFields ==
    ASSUME NEW S \in States, NEW T \in States, Rotated(S, T)
    PROVE  /\ S.c.ws \in Socket /\ T.c.ws = 0
           /\ T.c.pending = S.c.pending /\ T.c.queue = S.c.queue
           /\ T.c.draining = S.c.draining \cup Elems(S.c.pending)
           /\ \A s \in Socket : T.c.drainOf[s] = IF s = S.c.ws THEN Elems(S.c.pending)
                                                 ELSE S.c.drainOf[s]
BY DEF Rotated, States, Clients

LEMMA RotatedStruct ==
    ASSUME NEW S \in States, NEW T \in States, NEW K, Rotated(S, T), Struct(S, K)
    PROVE  Struct(T, K)
<1>1. Sockets(T)
  <2>1. Sockets(S)
    BY DEF Struct
  <2>2. S.handler[S.c.ws] = "live" /\ S.c.ws \in Socket
    BY <2>1, RotatedFields DEF Sockets
  <2>3. S.ready[S.c.ws] \in {"open", "closing"}
    <3>1. S.ready[S.c.ws] \in {"connecting", "open", "closing", "closed"}
      BY <2>2, FieldsOf
    <3>2. S.ready[S.c.ws] # "closed"
      BY <2>1, <2>2 DEF Sockets
    <3> QED BY <3>1, <3>2 DEF Rotated
  <2>4. /\ T.ready = S.ready
        /\ \A s \in Socket : T.handler[s] = IF s = S.c.ws THEN "drain" ELSE S.handler[s]
    BY DEF Rotated
  <2>5. \A s \in Socket : T.c.ws # s
    BY RotatedFields, SocketNumbers
  <2> QED BY <2>1, <2>2, <2>3, <2>4, <2>5 DEF Sockets
<1>2. S.c.queue = <<>>
  BY RotatedFields DEF Rotated, Struct, QueueWaits
<1>3. QueueWaits(T) /\ Once(T.c.pending)
  BY RotatedFields DEF QueueWaits, Struct
<1>4. T.out = S.out /\ T.inn = S.inn
  BY DEF Rotated
<1>5. Issued(T, K)
  BY <1>4, RotatedFields DEF Issued, Struct
<1>6. \A s \in Socket : T.handler[s] # "live"
  BY <1>1, RotatedFields, SocketNumbers DEF Sockets
<1>7. Apart(T)
  BY <1>2, <1>6, RotatedFields, ElemsEmpty DEF Apart
<1> QED BY <1>1, <1>3, <1>5, <1>7 DEF Struct

LEMMA RotatedAccount ==
    ASSUME NEW S \in States, NEW T \in States, NEW tk, NEW iss, Rotated(S, T), Account(S, iss, tk)
    PROVE  Account(T, iss, tk)
<1>1. T.out = S.out /\ T.boundTo = S.boundTo
  BY DEF Rotated
<1> QED BY <1>1, RotatedFields DEF Account

LEMMA RotatedClean ==
    ASSUME NEW S \in States, NEW T \in States, NEW K, Rotated(S, T), Struct(S, K), Clean(S),
           NoDrain(S)
    PROVE  Clean(T)
<1>1. S.c.queue = <<>> /\ T.c.queue = <<>>
  BY RotatedFields DEF Rotated, Struct, QueueWaits
<1>2. DrainedCalls(S) = {} /\ InUse(S.c) = Elems(S.c.pending)
  BY DEF Clean, DrainedCalls, InUse
<1>3. DrainedCalls(T) = Elems(S.c.pending) /\ InUse(T.c) = {}
  BY RotatedFields DEF DrainedCalls, InUse
<1>4. T.out = S.out /\ T.inn = S.inn
  BY DEF Rotated
<1>5. \A s \in Socket : s # S.c.ws => T.handler[s] = "off"
  <2>1. \A s \in Socket : s # S.c.ws => S.handler[s] = "off"
    <3>1. \A s \in Socket : S.handler[s] \in {"live", "drain", "off"}
      BY FieldsOf
    <3> QED BY <3>1 DEF Struct, Sockets, NoDrain
  <2> QED BY <2>1 DEF Rotated
<1>6. S.handler[S.c.ws] = "live" /\ T.handler[S.c.ws] = "drain"
  BY RotatedFields DEF Rotated, Struct, Sockets
<1>7. OneDrain(T) /\ ~NoDrain(T)
  BY <1>5, <1>6, RotatedFields DEF OneDrain, NoDrain
<1>8. /\ Orderly(S.out[S.c.ws], S.inn[S.c.ws])
      /\ Carries(S.out[S.c.ws], S.inn[S.c.ws]) \subseteq DrainedCalls(T)
  BY <1>2, <1>3, <1>6, RotatedFields DEF Clean
<1>9. Alone(InUse(T.c)) /\ Alone(DrainedCalls(T))
  BY <1>2, <1>3 DEF Clean, Alone
<1>10. T.c.drainOf[S.c.ws] = DrainedCalls(T) /\ DrainedCalls(T) \subseteq T.c.draining
  BY <1>3, RotatedFields
<1>11. Elems(T.c.queue) \subseteq InUse(T.c) /\ Once(T.c.queue)
  BY <1>1, ElemsEmpty DEF Once
<1> QED BY <1>4, <1>5, <1>6, <1>7, <1>8, <1>9, <1>10, <1>11 DEF Clean

LEMMA RotatedCalm ==
    ASSUME NEW S \in States, NEW T \in States, Rotated(S, T), Sockets(S), Calm(S), NoDrain(S)
    PROVE  Calm(T)
<1>1. \A s \in Socket : T.handler[s] = "drain" => s = S.c.ws
  BY DEF Rotated, NoDrain
<1>2. Elems(S.c.pending) # {}
  <2>1. S.c.pending \in Seq(Rpc) /\ S.c.pending # <<>>
    BY DEF Rotated, States, Clients
  <2> QED BY <2>1, ElemsIn
<1>3. DrainedCalls(T) = Elems(S.c.pending)
  BY RotatedFields DEF DrainedCalls
<1> QED BY <1>1, <1>2, <1>3, RotatedFields DEF Calm, OneDrain

\* S and T differ in nothing the invariant is about.
Alike(S, T) ==
  /\ T.c.ws = S.c.ws /\ T.c.connToken = S.c.connToken /\ T.c.pending = S.c.pending
  /\ T.c.draining = S.c.draining /\ T.c.drainOf = S.c.drainOf /\ T.c.queue = S.c.queue
  /\ T.ready = S.ready /\ T.handler = S.handler /\ T.boundTo = S.boundTo
  /\ T.out = S.out /\ T.inn = S.inn

LEMMA AlikeKeeps ==
    ASSUME NEW S, NEW T, Alike(S, T), NEW K, NEW iss, NEW tk
    PROVE  /\ Struct(S, K) => Struct(T, K)
           /\ Account(S, iss, tk) => Account(T, iss, tk)
           /\ Clean(S) => Clean(T)
           /\ Calm(S) => Calm(T)
           /\ StillFree(S) => StillFree(T)
<1>1. Sockets(S) <=> Sockets(T)
  BY DEF Alike, Sockets
<1>2. QueueWaits(S) <=> QueueWaits(T)
  BY DEF Alike, QueueWaits
<1>3. Issued(S, K) <=> Issued(T, K)
  BY DEF Alike, Issued
<1>4. Apart(S) <=> Apart(T)
  BY DEF Alike, Apart
<1>5. InUse(S.c) = InUse(T.c) /\ DrainedCalls(S) = DrainedCalls(T)
  BY DEF Alike, InUse, DrainedCalls
<1>6. (OneDrain(S) <=> OneDrain(T)) /\ (NoDrain(S) <=> NoDrain(T))
  BY DEF Alike, OneDrain, NoDrain
<1>7. Struct(S, K) => Struct(T, K)
  BY <1>1, <1>2, <1>3, <1>4 DEF Struct, Alike
<1>8. Account(S, iss, tk) => Account(T, iss, tk)
  BY DEF Alike, Account
<1>9. Clean(S) => Clean(T)
  BY <1>5, <1>6 DEF Alike, Clean
<1>10. Calm(S) => Calm(T)
  BY <1>5, <1>6 DEF Alike, Calm
<1>11. StillFree(S) => StillFree(T)
  BY DEF Alike, StillFree
<1> QED BY <1>7, <1>8, <1>9, <1>10, <1>11

LEMMA DrainOf ==
    ASSUME NEW S \in States, S.c.ws # 0, Sockets(S)
    PROVE  Drain(S) \in States /\ (Dropped(S, Drain(S)) \/ Rotated(S, Drain(S)))
<1> DEFINE ids == Elems(S.c.pending)
           old == S.c.ws
           T   == [S EXCEPT !.c.ws = 0]
           D   == [T EXCEPT !.c.draining = @ \cup ids]
           R   == [D EXCEPT !.handler[old] = "drain", !.c.drainOf[old] = ids]
<1>1. old \in Socket /\ ids \subseteq Rpc /\ (ids = {} <=> S.c.pending = <<>>)
  <2>1. S.c.pending \in Seq(Rpc) /\ S.c.ws \in Socket \cup {0}
    BY DEF States, Clients
  <2>2. Elems(S.c.pending) \subseteq Rpc /\ (Elems(S.c.pending) = {} <=> S.c.pending = <<>>)
    BY <2>1, ElemsIn
  <2> QED BY <2>1, <2>2
<1>2. Drain(S) = IF S.ready[old] = "connecting" THEN Discard(T, old)
                 ELSE IF ids = {} THEN Discard(D, old)
                      ELSE Note(R, "twice", \E s \in Socket : S.handler[s] = "drain")
  <2>1. D.handler = S.handler /\ T.c.draining = S.c.draining
    BY DEF States, Clients
  <2> QED BY DEF Drain
<1> HIDE DEF ids
<1>3. /\ T \in States /\ T.c = [S.c EXCEPT !.ws = 0]
      /\ T.ready = S.ready /\ T.handler = S.handler /\ T.boundTo = S.boundTo
      /\ T.out = S.out /\ T.inn = S.inn /\ T.happened = S.happened
  BY DEF States, Clients
<1> HIDE DEF T
<1>4. /\ D \in States /\ D.c = [S.c EXCEPT !.ws = 0, !.draining = @ \cup ids]
      /\ D.ready = S.ready /\ D.handler = S.handler /\ D.boundTo = S.boundTo
      /\ D.out = S.out /\ D.inn = S.inn /\ D.happened = S.happened
  <2>1. T.c.draining \cup ids \in SUBSET Rpc
    BY <1>1, <1>3 DEF States, Clients
  <2> HIDE DEF ids
  <2> QED BY <1>3, <2>1 DEF States, Clients
<1> HIDE DEF D
<1>5. /\ R \in States /\ R.c = [S.c EXCEPT !.ws = 0, !.draining = @ \cup ids, !.drainOf[old] = ids]
      /\ R.ready = S.ready /\ R.handler = [S.handler EXCEPT ![old] = "drain"]
      /\ R.boundTo = S.boundTo
      /\ R.out = S.out /\ R.inn = S.inn /\ R.happened = S.happened
  BY <1>1, <1>4 DEF States, Clients
<1> HIDE DEF R
<1>6. \A U \in States :
        /\ Discard(U, old) \in States /\ Discard(U, old).c = U.c
        /\ Discard(U, old).boundTo = U.boundTo /\ Discard(U, old).out = U.out
        /\ Discard(U, old).happened = U.happened
        /\ \A s \in Socket :
             /\ Discard(U, old).ready[s] = IF s = old THEN "closed" ELSE U.ready[s]
             /\ Discard(U, old).handler[s] = IF s = old THEN "off" ELSE U.handler[s]
             /\ Discard(U, old).inn[s] = IF s = old THEN <<>> ELSE U.inn[s]
  <2> TAKE U \in States
  <2>1. <<>> \in Seq(Frame)
    OBVIOUS
  <2>2. /\ Discard(U, old) \in States /\ Discard(U, old).c = U.c
        /\ Discard(U, old).boundTo = U.boundTo /\ Discard(U, old).out = U.out
        /\ Discard(U, old).happened = U.happened
    BY <1>1, <2>1 DEF Discard, States
  <2>3. \A s \in Socket :
             /\ Discard(U, old).ready[s] = IF s = old THEN "closed" ELSE U.ready[s]
             /\ Discard(U, old).handler[s] = IF s = old THEN "off" ELSE U.handler[s]
             /\ Discard(U, old).inn[s] = IF s = old THEN <<>> ELSE U.inn[s]
    BY <1>1 DEF Discard, States
  <2> QED BY <2>2, <2>3
<1>7. CASE S.ready[old] = "connecting"
  <2>1. Drain(S) = Discard(T, old)
    BY <1>2, <1>7
  <2>2. Dropped(S, Discard(T, old))
    BY <1>3, <1>6, <1>7 DEF Dropped
  <2> QED BY <1>3, <1>6, <2>1, <2>2
<1>8. CASE S.ready[old] # "connecting" /\ ids = {}
  <2>1. Drain(S) = Discard(D, old)
    BY <1>2, <1>8
  <2>2. D.c = [S.c EXCEPT !.ws = 0]
    <3>1. S.c.draining \cup ids = S.c.draining
      BY <1>8
    <3> QED BY <1>4, <3>1 DEF States, Clients
  <2>3. Dropped(S, Discard(D, old))
    BY <1>1, <1>4, <1>6, <1>8, <2>2 DEF Dropped
  <2> QED BY <1>4, <1>6, <2>1, <2>3
<1>9. CASE S.ready[old] # "connecting" /\ ids # {}
  <2> DEFINE cond == \E s \in Socket : S.handler[s] = "drain"
             N == Note(R, "twice", cond)
  <2>1. Drain(S) = N
    BY <1>2, <1>9
  <2>2. "twice" \in Troubles
    BY DEF Troubles
  <2> HIDE DEF cond
  <2>3. /\ N \in States /\ N.c = R.c /\ N.ready = R.ready /\ N.handler = R.handler
        /\ N.boundTo = R.boundTo /\ N.out = R.out /\ N.inn = R.inn
        /\ R.happened \subseteq N.happened /\ (cond => "twice" \in N.happened)
    BY <1>5, <2>2 DEF Note, States
  <2> HIDE DEF N
  <2>4. \A s \in Socket : N.handler[s] = IF s = old THEN "drain" ELSE S.handler[s]
    BY <1>1, <1>5, <2>3 DEF States
  <2>5. N.c = [S.c EXCEPT !.ws = 0, !.draining = @ \cup ids, !.drainOf[old] = ids]
    BY <1>5, <2>3
  <2>6. Rotated(S, N)
    BY <1>1, <1>5, <1>9, <2>3, <2>4, <2>5 DEF Rotated, cond, ids
  <2> QED BY <2>1, <2>3, <2>6
<1> QED BY <1>7, <1>8, <1>9

(* The client is connecting while the socket in use is opening. *)
Opening(S) == S.c.connecting <=> (S.c.ws # 0 /\ S.ready[S.c.ws] = "connecting")

\* What a new socket guarantees to the function that asked for it.
LEMMA OpenedFields ==
    ASSUME NEW S \in States, NEW T \in States, NEW n, NEW tk \in Token, Opened(S, T, n, tk)
    PROVE  /\ Opening(T) /\ T.c.connecting /\ T.c.connToken = tk /\ T.c.ws # 0
           /\ T.c.pending = S.c.pending /\ T.c.boot = S.c.boot /\ T.c.queue = S.c.queue
           /\ S.happened \subseteq T.happened
<1>1. /\ T.c.connecting /\ T.c.connToken = tk /\ T.c.ws = n
      /\ T.c.pending = S.c.pending /\ T.c.boot = S.c.boot /\ T.c.queue = S.c.queue
  BY DEF Opened, States, Clients
<1>2. n # 0 /\ T.ready[n] = "connecting"
  BY SocketNumbers DEF Opened
<1> QED BY <1>1, <1>2 DEF Opened, Opening

LEMMA LetGo ==
    ASSUME NEW S \in States, NEW T \in States, NEW K, Dropped(S, T) \/ Rotated(S, T), Struct(S, K),
           StillFree(S)
    PROVE  /\ Struct(T, K) /\ StillFree(T)
           /\ \A iss, tk : Account(S, iss, tk) => Account(T, iss, tk)
           /\ Clean(S) => Clean(T) \/ "twice" \in T.happened
           /\ Calm(S) => Calm(T) \/ "twice" \in T.happened
           /\ S.happened \subseteq T.happened
           /\ T.c.ws = 0 /\ T.c.pending = S.c.pending /\ T.c.boot = S.c.boot
           /\ T.c.queue = S.c.queue
<1>0. Sockets(S)
  BY DEF Struct
<1>1. \A s \in Socket : Free(s) => s # S.c.ws
  BY <1>0 DEF StillFree, Sockets
<1>2. CASE Dropped(S, T)
  <2>1. StillFree(T)
    BY <1>1, <1>2 DEF StillFree, Dropped
  <2>2. /\ T.c.ws = 0 /\ T.c.pending = S.c.pending /\ T.c.boot = S.c.boot
        /\ T.c.queue = S.c.queue /\ S.happened \subseteq T.happened
    BY <1>2 DEF Dropped, States, Clients
  <2> QED BY <1>0, <1>2, <2>1, <2>2, DroppedStruct, DroppedAccount, DroppedClean, DroppedCalm
<1>3. CASE Rotated(S, T)
  <2>1. StillFree(T)
    BY <1>1, <1>3 DEF StillFree, Rotated
  <2>2. /\ T.c.ws = 0 /\ T.c.pending = S.c.pending /\ T.c.boot = S.c.boot
        /\ T.c.queue = S.c.queue /\ S.happened \subseteq T.happened
    BY <1>3 DEF Rotated, States, Clients
  <2>3. NoDrain(S) \/ "twice" \in T.happened
    BY <1>3 DEF Rotated, NoDrain
  <2>4. Clean(S) => Clean(T) \/ "twice" \in T.happened
    BY <1>3, <2>3, RotatedClean
  <2>5. Calm(S) => Calm(T) \/ "twice" \in T.happened
    BY <1>0, <1>3, <2>3, RotatedCalm
  <2> QED BY <1>3, <2>1, <2>2, <2>4, <2>5, RotatedStruct, RotatedAccount
<1> QED BY <1>2, <1>3

LEMMA EnsureAuthFreshOf ==
    ASSUME NEW S \in States, NEW K, token \in Token, Struct(S, K), Opening(S), StillFree(S),
           \E s \in Socket : Free(s)
    PROVE  /\ EnsureAuthFresh(S) \in States
           /\ Struct(EnsureAuthFresh(S), K) /\ Opening(EnsureAuthFresh(S))
           /\ EnsureAuthFresh(S).c.connToken = token
           /\ EnsureAuthFresh(S).c.pending = S.c.pending
           /\ EnsureAuthFresh(S) = S \/ (/\ EnsureAuthFresh(S).c.connecting
                                         /\ EnsureAuthFresh(S).c.ws # 0
                                         /\ EnsureAuthFresh(S).c.boot = 0)
           /\ \A iss : Account(S, iss, token) => Account(EnsureAuthFresh(S), iss, token)
           /\ Clean(S) => Clean(EnsureAuthFresh(S)) \/ "twice" \in EnsureAuthFresh(S).happened
           /\ Calm(S) => Calm(EnsureAuthFresh(S)) \/ "twice" \in EnsureAuthFresh(S).happened
           /\ S.happened \subseteq EnsureAuthFresh(S).happened
<1>1. CASE token = S.c.connToken
  <2>1. EnsureAuthFresh(S) = S
    BY <1>1 DEF EnsureAuthFresh
  <2> QED BY <1>1, <2>1
<1>2. CASE token # S.c.connToken
  <2> DEFINE B == [S EXCEPT !.c.boot = 0]
             D == IF B.c.ws = 0 THEN B ELSE Drain(B)
             E == [D EXCEPT !.c.connecting = FALSE]
             F == Connect(E)
  <2>1. EnsureAuthFresh(S) = F
    BY <1>2 DEF EnsureAuthFresh
  <2>2. /\ B \in States /\ Alike(S, B) /\ B.c.boot = 0 /\ B.happened = S.happened
    BY DEF States, Clients, Alike
  <2> HIDE DEF B
  <2>3. /\ Struct(B, K) /\ StillFree(B) /\ B.c.pending = S.c.pending
        /\ \A iss : Account(S, iss, token) => Account(B, iss, token)
        /\ Clean(S) => Clean(B)
        /\ Calm(S) => Calm(B)
    BY <2>2, AlikeKeeps DEF Alike
  <2>4. /\ D \in States /\ Struct(D, K) /\ StillFree(D)
        /\ \A iss : Account(B, iss, token) => Account(D, iss, token)
        /\ Clean(B) => Clean(D) \/ "twice" \in D.happened
        /\ Calm(B) => Calm(D) \/ "twice" \in D.happened
        /\ B.happened \subseteq D.happened
        /\ D.c.ws = 0 /\ D.c.pending = B.c.pending /\ D.c.boot = 0
    <3>1. CASE B.c.ws = 0
      <4>1. D = B
        BY <3>1
      <4> QED BY <2>2, <2>3, <3>1, <4>1
    <3>2. CASE B.c.ws # 0
      <4>1. D = Drain(B)
        BY <3>2
      <4>2. Sockets(B)
        BY <2>3 DEF Struct
      <4>3. D \in States /\ (Dropped(B, D) \/ Rotated(B, D))
        BY <2>2, <3>2, <4>1, <4>2, DrainOf
      <4> HIDE DEF D
      <4> QED BY <2>2, <2>3, <4>3, LetGo
    <3> QED BY <3>1, <3>2
  <2> HIDE DEF D
  <2>5. /\ E \in States /\ Alike(D, E) /\ E.c.boot = 0 /\ E.happened = D.happened
        /\ ~E.c.connecting
    BY <2>4 DEF States, Clients, Alike
  <2> HIDE DEF E
  <2>6. /\ Struct(E, K) /\ StillFree(E) /\ E.c.pending = D.c.pending /\ E.c.ws = 0
        /\ \A iss : Account(D, iss, token) => Account(E, iss, token)
        /\ Clean(D) => Clean(E)
        /\ Calm(D) => Calm(E)
    BY <2>4, <2>5, AlikeKeeps DEF Alike
  <2>7. Sockets(E)
    BY <2>6 DEF Struct
  <2>8. F \in States /\ \E n \in Socket : Opened(E, F, n, token)
    BY <2>5, <2>6, <2>7, ConnectOf
  <2> HIDE DEF F
  <2>9. PICK n \in Socket : Opened(E, F, n, token)
    BY <2>8
  <2>10. /\ Struct(F, K)
         /\ \A iss : Account(E, iss, token) => Account(F, iss, token)
         /\ Clean(E) => Clean(F)
         /\ Calm(E) => Calm(F)
    BY <2>5, <2>6, <2>7, <2>8, <2>9, OpenedStruct, OpenedAccount, OpenedClean, OpenedCalm
  <2>11. /\ Opening(F) /\ F.c.connecting /\ F.c.connToken = token /\ F.c.ws # 0
         /\ F.c.pending = E.c.pending /\ F.c.boot = E.c.boot
         /\ E.happened \subseteq F.happened
    BY <2>5, <2>8, <2>9, OpenedFields
  <2> QED BY <2>1, <2>2, <2>3, <2>4, <2>5, <2>6, <2>8, <2>10, <2>11
<1> QED BY <1>1, <1>2

\* Nothing has been sent or drained for the call yet.
Unsent(S, r) ==
  /\ r \notin S.c.draining /\ r \notin Elems(S.c.queue)
  /\ \A s \in Socket : r \notin Carries(S.out[s], S.inn[s])

\* The call is about to share its socket with another one, and one of them is binary.
WouldMix(A, r) == A # {} /\ (A \cup {r}) \cap Binary # {}

LEMMA CallAdded ==
    ASSUME NEW S \in States, NEW r \in Rpc, NEW K, r \notin K, Struct(S, K),
           NEW iss \in [Rpc -> Token \cup {0}], NEW tk
    PROVE  LET P == [S EXCEPT !.c.pending = Append(@, r)] IN
           /\ P \in States /\ Struct(P, K \cup {r}) /\ Unsent(P, r)
           /\ Account(S, iss, tk) => Account(P, [iss EXCEPT ![r] = tk], tk)
           /\ Clean(S) /\ ~WouldMix(InUse(S.c), r) => Clean(P)
           /\ Calm(S) => Calm(P)
           /\ r \in InUse(P.c)
           /\ StillFree(S) => StillFree(P)
           /\ Opening(S) => Opening(P)
<1> DEFINE P == [S EXCEPT !.c.pending = Append(@, r)]
<1>1. /\ S.c.pending \in Seq(Rpc) /\ S.out \in [Socket -> Seq(Rpc)]
      /\ S.c.queue \in Seq(Rpc)
  BY DEF States, Clients
<1>2. /\ Append(S.c.pending, r) \in Seq(Rpc)
      /\ Elems(Append(S.c.pending, r)) = Elems(S.c.pending) \cup {r}
      /\ Once(S.c.pending) /\ r \notin Elems(S.c.pending) => Once(Append(S.c.pending, r))
  BY <1>1, AppendOf
<1>3. /\ P \in States
      /\ P.c.pending = Append(S.c.pending, r)
      /\ P.c.ws = S.c.ws /\ P.c.connToken = S.c.connToken /\ P.c.connecting = S.c.connecting
      /\ P.c.draining = S.c.draining /\ P.c.drainOf = S.c.drainOf /\ P.c.queue = S.c.queue
      /\ P.ready = S.ready /\ P.handler = S.handler /\ P.boundTo = S.boundTo
      /\ P.out = S.out /\ P.inn = S.inn
  BY <1>2 DEF States, Clients
<1> HIDE DEF P
<1>4. Issued(S, K) /\ Sockets(S) /\ QueueWaits(S) /\ Apart(S) /\ Once(S.c.pending)
  BY DEF Struct
<1>5. Unsent(P, r)
  BY <1>3, <1>4 DEF Unsent, Issued
<1>6. Struct(P, K \cup {r})
  <2>1. Sockets(P)
    BY <1>3, <1>4 DEF Sockets
  <2>2. QueueWaits(P)
    BY <1>3, <1>4 DEF QueueWaits
  <2>3. Apart(P)
    BY <1>3, <1>4 DEF Apart
  <2>4. Issued(P, K \cup {r})
    BY <1>2, <1>3, <1>4 DEF Issued
  <2>5. Once(P.c.pending)
    BY <1>2, <1>3, <1>4 DEF Issued
  <2> QED BY <2>1, <2>2, <2>3, <2>4, <2>5 DEF Struct
<1>7. InUse(P.c) = InUse(S.c) \cup {r} /\ DrainedCalls(P) = DrainedCalls(S)
  BY <1>2, <1>3, <1>4 DEF InUse, DrainedCalls, Issued
<1>8. ASSUME Account(S, iss, tk) PROVE Account(P, [iss EXCEPT ![r] = tk], tk)
  <2> DEFINE iss2 == [iss EXCEPT ![r] = tk]
  <2>1. \A s \in Socket : \A x \in Elems(S.out[s]) : x # r /\ x \in Rpc
    <3>1. \A s \in Socket : Elems(S.out[s]) \subseteq Rpc
      BY <1>1, ElemsIn
    <3> QED BY <1>3, <1>5, <3>1 DEF Unsent, Carries
  <2>2. \A x \in Elems(S.c.queue) : x # r /\ x \in Rpc
    <3>1. Elems(S.c.queue) \subseteq Rpc
      BY <1>1, ElemsIn
    <3> QED BY <1>3, <1>5, <3>1 DEF Unsent
  <2>3. \A x \in Rpc : x # r => iss2[x] = iss[x]
    OBVIOUS
  <2> HIDE DEF iss2
  <2>4. Account(P, iss2, tk)
    BY <1>3, <1>8, <2>1, <2>2, <2>3 DEF Account
  <2> QED BY <2>4 DEF iss2
<1>9. ASSUME Clean(S), ~WouldMix(InUse(S.c), r) PROVE Clean(P)
  <2>1. Alone(InUse(P.c))
    BY <1>7, <1>9 DEF Clean, Alone, WouldMix
  <2>2. OneDrain(P) /\ (NoDrain(P) <=> NoDrain(S))
    BY <1>3, <1>9 DEF Clean, OneDrain, NoDrain
  <2> QED BY <1>3, <1>7, <1>9, <2>1, <2>2 DEF Clean
<1>10. Calm(S) => Calm(P)
  BY <1>3, <1>7 DEF Calm, OneDrain
<1>11. (StillFree(S) => StillFree(P)) /\ (Opening(S) => Opening(P))
  BY <1>3 DEF StillFree, Opening
<1>12. r \in InUse(P.c)
  BY <1>7
<1> QED BY <1>3, <1>5, <1>6, <1>8, <1>9, <1>10, <1>11, <1>12 DEF P

LEMMA AppendCarries ==
    ASSUME NEW o \in Seq(Rpc), NEW q, NEW r \in Rpc
    PROVE  /\ Carries(Append(o, r), q) = Carries(o, q) \cup {r}
           /\ Orderly(o, q) /\ r \notin Carries(o, q) => Orderly(Append(o, r), q)
<1>1. /\ Elems(Append(o, r)) = Elems(o) \cup {r}
      /\ Once(o) /\ r \notin Elems(o) => Once(Append(o, r))
  BY AppendOf
<1> QED BY <1>1 DEF Carries, Orderly

LEMMA SendOf ==
    ASSUME NEW S \in States, NEW r \in Rpc, NEW K, Struct(S, K), Unsent(S, r), r \in InUse(S.c),
           Opening(S), S.c.ws # 0, S.ready[S.c.ws] \in {"open", "connecting"},
           NEW iss, NEW tk, iss[r] = tk, S.c.connToken = tk
    PROVE  LET T == Send(S, r) IN
           /\ T \in States /\ Struct(T, K) /\ Opening(T)
           /\ Account(S, iss, tk) => Account(T, iss, tk)
           /\ Clean(S) => Clean(T)
           /\ Calm(S) => Calm(T)
           /\ T.c.ws # 0 /\ T.c.boot = S.c.boot /\ T.c.connToken = S.c.connToken
           /\ T.happened = S.happened
<1> DEFINE T == Send(S, r)
           w == S.c.ws
<1>1. /\ w \in Socket /\ S.c.queue \in Seq(Rpc) /\ S.out \in [Socket -> Seq(Rpc)]
      /\ S.out[w] \in Seq(Rpc)
  BY DEF States, Clients
<1>2. Issued(S, K) /\ Sockets(S) /\ QueueWaits(S) /\ Apart(S) /\ Once(S.c.pending)
  BY DEF Struct
<1>3. S.handler[w] = "live" /\ S.boundTo[w] = tk
  BY <1>1, <1>2 DEF Sockets
<1>4. r \in K
  BY <1>2 DEF InUse, Issued
<1>5. CASE S.ready[w] = "open"
  <2> DEFINE o == Append(S.out[w], r)
  <2>1. o \in Seq(Rpc) /\ Elems(o) = Elems(S.out[w]) \cup {r}
    BY <1>1, AppendOf
  <2>2. T = [S EXCEPT !.out[w] = o]
    BY <1>5 DEF Send
  <2> HIDE DEF T
  <2>3. \A q : /\ Carries(o, q) = Carries(S.out[w], q) \cup {r}
               /\ Orderly(S.out[w], q) /\ r \notin Carries(S.out[w], q) => Orderly(o, q)
    BY <1>1, AppendCarries
  <2> HIDE DEF o
  <2>4. /\ T \in States /\ T.c = S.c /\ T.ready = S.ready /\ T.handler = S.handler
        /\ T.boundTo = S.boundTo /\ T.inn = S.inn /\ T.happened = S.happened
    BY <1>1, <2>1, <2>2 DEF States
  <2>5. \A s \in Socket : T.out[s] = IF s = w THEN o ELSE S.out[s]
    BY <1>1, <2>1, <2>2 DEF States
  <2>6. \A s \in Socket :
           Carries(T.out[s], T.inn[s]) = IF s = w THEN Carries(S.out[s], S.inn[s]) \cup {r}
                                         ELSE Carries(S.out[s], S.inn[s])
    BY <2>3, <2>4, <2>5
  <2>7. Struct(T, K)
    <3>1. Sockets(T) /\ QueueWaits(T)
      BY <1>2, <2>4 DEF Sockets, QueueWaits
    <3>2. Issued(T, K)
      BY <1>2, <1>4, <2>4, <2>6 DEF Issued
    <3>3. Apart(T)
      BY <1>2, <2>4, <2>6 DEF Apart, Unsent
    <3> QED BY <1>2, <2>4, <3>1, <3>2, <3>3 DEF Struct
  <2>8. Account(S, iss, tk) => Account(T, iss, tk)
    BY <1>3, <2>1, <2>4, <2>5 DEF Account
  <2>9. ASSUME Clean(S) PROVE Clean(T)
    <3>1. InUse(T.c) = InUse(S.c) /\ DrainedCalls(T) = DrainedCalls(S)
      BY <2>4 DEF DrainedCalls
    <3>2. \A s \in Socket : T.handler[s] # "off" => Orderly(T.out[s], T.inn[s])
      BY <2>3, <2>4, <2>5, <2>9 DEF Clean, Unsent
    <3>3. \A s \in Socket : s # w => T.out[s] = S.out[s]
      BY <2>5
    <3>4. \A s \in Socket : T.handler[s] = "live" => Carries(T.out[s], T.inn[s]) \subseteq InUse(T.c)
      BY <2>4, <2>6, <2>9, <3>1 DEF Clean
    <3>5. OneDrain(T) /\ (NoDrain(T) <=> NoDrain(S))
      BY <2>4, <2>9 DEF Clean, OneDrain, NoDrain
    <3> QED BY <1>3, <2>4, <2>9, <3>1, <3>2, <3>3, <3>4, <3>5 DEF Clean
  <2>10. Calm(S) => Calm(T)
    BY <2>4 DEF Calm, OneDrain, DrainedCalls
  <2>11. Opening(T)
    BY <2>4 DEF Opening
  <2> QED BY <2>4, <2>7, <2>8, <2>9, <2>10, <2>11 DEF T
<1>6. CASE S.ready[w] = "connecting"
  <2> DEFINE o == Append(S.c.queue, r)
  <2>1. /\ o \in Seq(Rpc) /\ Elems(o) = Elems(S.c.queue) \cup {r}
        /\ Once(S.c.queue) /\ r \notin Elems(S.c.queue) => Once(o)
    BY <1>1, AppendOf
  <2>2. T = [S EXCEPT !.c.queue = o]
    BY <1>6 DEF Send
  <2> HIDE DEF T, o
  <2>3. /\ T \in States /\ T.c = [S.c EXCEPT !.queue = o] /\ T.ready = S.ready
        /\ T.handler = S.handler /\ T.out = S.out
        /\ T.boundTo = S.boundTo /\ T.inn = S.inn /\ T.happened = S.happened
    BY <2>1, <2>2 DEF States, Clients
  <2>4. /\ T.c.ws = S.c.ws /\ T.c.connToken = S.c.connToken /\ T.c.pending = S.c.pending
        /\ T.c.draining = S.c.draining /\ T.c.drainOf = S.c.drainOf /\ T.c.queue = o
        /\ T.c.connecting = S.c.connecting /\ T.c.boot = S.c.boot
    BY <2>3 DEF States, Clients
  <2>5. Struct(T, K)
    <3>1. Sockets(T)
      BY <1>2, <2>3, <2>4 DEF Sockets
    <3>2. QueueWaits(T)
      BY <1>6, <2>3, <2>4 DEF QueueWaits
    <3>3. Issued(T, K)
      BY <1>2, <1>4, <2>1, <2>3, <2>4 DEF Issued
    <3>4. Apart(T)
      BY <1>2, <2>1, <2>3, <2>4 DEF Apart, Unsent
    <3> QED BY <1>2, <2>4, <3>1, <3>2, <3>3, <3>4 DEF Struct
  <2>6. Account(S, iss, tk) => Account(T, iss, tk)
    BY <2>1, <2>3, <2>4 DEF Account
  <2>7. ASSUME Clean(S) PROVE Clean(T)
    <3>1. InUse(T.c) = InUse(S.c) /\ DrainedCalls(T) = DrainedCalls(S)
      BY <2>4 DEF DrainedCalls, InUse
    <3>2. Elems(T.c.queue) \subseteq InUse(T.c) /\ Once(T.c.queue)
      BY <2>1, <2>4, <2>7, <3>1 DEF Clean, Unsent
    <3>3. OneDrain(T) /\ (NoDrain(T) <=> NoDrain(S))
      BY <2>3, <2>7 DEF Clean, OneDrain, NoDrain
    <3> QED BY <2>3, <2>4, <2>7, <3>1, <3>2, <3>3 DEF Clean
  <2>8. Calm(S) => Calm(T)
    BY <2>3, <2>4 DEF Calm, OneDrain, DrainedCalls
  <2>9. Opening(T)
    BY <2>3, <2>4 DEF Opening
  <2> QED BY <2>3, <2>4, <2>5, <2>6, <2>7, <2>8, <2>9 DEF T
<1> QED BY <1>5, <1>6

LEMMA UnsentOpened ==
    ASSUME NEW S \in States, NEW T \in States, NEW n, NEW tk \in Token, NEW r,
           Opened(S, T, n, tk), Unsent(S, r)
    PROVE  Unsent(T, r)
<1>1. \A s \in Socket : T.out[s] = S.out[s] /\ (T.inn[s] = S.inn[s] \/ T.inn[s] = <<>>)
  BY DEF Opened
<1>2. \A s \in Socket : Carries(T.out[s], T.inn[s]) \subseteq Carries(S.out[s], S.inn[s])
  BY <1>1, LessCarried DEF Carries
<1>3. T.c.draining = S.c.draining /\ T.c.queue = S.c.queue
  BY DEF Opened, States, Clients
<1> QED BY <1>2, <1>3 DEF Unsent

LEMMA NoteOf ==
    ASSUME NEW S \in States, NEW e \in Troubles, NEW cond
    PROVE  LET T == Note(S, e, cond) IN
           /\ T \in States /\ Alike(S, T) /\ T.c = S.c /\ S.happened \subseteq T.happened
           /\ cond => e \in T.happened
           /\ T.happened \subseteq S.happened \cup {e}
           /\ ~cond => T.happened = S.happened
<1> DEFINE T == Note(S, e, cond)
<1>1. /\ T \in States /\ T.c = S.c /\ T.ready = S.ready /\ T.handler = S.handler
      /\ T.boundTo = S.boundTo /\ T.out = S.out /\ T.inn = S.inn
      /\ T.happened = IF cond THEN S.happened \cup {e} ELSE S.happened
  BY DEF Note, States
<1> HIDE DEF T
<1>2. Alike(S, T)
  BY <1>1 DEF Alike
<1> QED BY <1>1, <1>2 DEF T

LEMMA RequestOf ==
    ASSUME NEW S \in States, NEW K, NEW r \in Rpc, r \notin K, token \in Token, Struct(S, K),
           Opening(S), StillFree(S), \E s \in Socket : Free(s),
           NEW iss \in [Rpc -> Token \cup {0}]
    PROVE  LET F == EnsureAuthFresh(S)
               P == [F EXCEPT !.c.pending = Append(@, r)]
               N == Note(Send(Connect(P), r), "mixed", WouldMix(InUse(F.c), r))
           IN /\ N \in States /\ Struct(N, K \cup {r}) /\ Opening(N)
              /\ Account(S, iss, token) => Account(N, [iss EXCEPT ![r] = token], token)
              /\ Clean(S) => Clean(N) \/ "mixed" \in N.happened \/ "twice" \in N.happened
              /\ Calm(S) => Calm(N) \/ "twice" \in N.happened
              /\ N.c.ws # 0
              /\ N.c.boot = 0 \/ (N.c.boot = S.c.boot /\ N.c.connToken = S.c.connToken)
              /\ S.happened \subseteq N.happened
<1> DEFINE F == EnsureAuthFresh(S)
           P == [F EXCEPT !.c.pending = Append(@, r)]
           C == Connect(P)
           T == Send(C, r)
           mix == WouldMix(InUse(F.c), r)
           N == Note(T, "mixed", mix)
           iss2 == [iss EXCEPT ![r] = token]
           K2 == K \cup {r}
<1>1. /\ F \in States
      /\ Struct(F, K) /\ Opening(F)
      /\ F.c.connToken = token
      /\ F.c.pending = S.c.pending
      /\ F = S \/ (F.c.connecting /\ F.c.ws # 0 /\ F.c.boot = 0)
      /\ \A i : Account(S, i, token) => Account(F, i, token)
      /\ Clean(S) => Clean(F) \/ "twice" \in F.happened
      /\ Calm(S) => Calm(F) \/ "twice" \in F.happened
      /\ S.happened \subseteq F.happened
  BY EnsureAuthFreshOf
<1> HIDE DEF F
<1>2. /\ P \in States /\ Struct(P, K2) /\ Unsent(P, r)
      /\ Account(F, iss, token) => Account(P, iss2, token)
      /\ Clean(F) /\ ~WouldMix(InUse(F.c), r) => Clean(P)
      /\ Calm(F) => Calm(P)
      /\ r \in InUse(P.c)
      /\ StillFree(F) => StillFree(P)
      /\ Opening(F) => Opening(P)
  BY <1>1, CallAdded
<1>3. /\ P.c.connToken = token /\ P.c.boot = F.c.boot /\ P.c.connecting = F.c.connecting
      /\ P.happened = F.happened
  BY <1>1 DEF States, Clients
<1> HIDE DEF P, iss2, K2
<1>4. /\ C \in States
      /\ \/ C = P /\ (P.c.connecting \/ (P.c.ws # 0 /\ P.ready[P.c.ws] \in {"open", "connecting"}))
         \/ \E n \in Socket : Opened(P, C, n, token)
  <2>1. CASE F = S
    <3>1. StillFree(P) /\ Sockets(P)
      BY <1>2, <2>1 DEF Struct
    <3> QED BY <1>2, <3>1, ConnectOf
  <2>2. CASE F # S
    <3>1. P.c.connecting
      BY <1>1, <1>3, <2>2
    <3>2. C = P
      BY <3>1 DEF Connect
    <3> QED BY <1>2, <3>1, <3>2
  <2> QED BY <2>1, <2>2
<1> HIDE DEF C
<1>5. /\ Struct(C, K2) /\ Unsent(C, r) /\ r \in InUse(C.c) /\ Opening(C)
      /\ Account(P, iss2, token) => Account(C, iss2, token)
      /\ Clean(P) => Clean(C)
      /\ Calm(P) => Calm(C)
      /\ C.c.ws # 0 /\ C.ready[C.c.ws] \in {"open", "connecting"}
      /\ C.c.connToken = token /\ C.c.boot = P.c.boot /\ P.happened \subseteq C.happened
  <2>1. CASE C = P /\ (P.c.connecting \/ (P.c.ws # 0 /\ P.ready[P.c.ws] \in {"open", "connecting"}))
    <3>1. P.c.ws # 0 /\ P.ready[P.c.ws] \in {"open", "connecting"}
      BY <1>1, <1>2, <2>1 DEF Opening
    <3> QED BY <1>1, <1>2, <1>3, <2>1, <3>1
  <2>2. CASE \E n \in Socket : Opened(P, C, n, token)
    <3>1. PICK n \in Socket : Opened(P, C, n, token)
      BY <2>2
    <3>2. Sockets(P)
      BY <1>2 DEF Struct
    <3>3. /\ Struct(C, K2) /\ Unsent(C, r)
          /\ Account(P, iss2, token) => Account(C, iss2, token)
          /\ Clean(P) => Clean(C)
          /\ Calm(P) => Calm(C)
      BY <1>2, <1>4, <3>1, <3>2, OpenedStruct, OpenedAccount, OpenedClean, OpenedCalm, UnsentOpened
    <3>4. /\ Opening(C) /\ C.c.connecting /\ C.c.connToken = token /\ C.c.ws # 0
          /\ C.c.boot = P.c.boot /\ P.happened \subseteq C.happened
      BY <1>2, <1>4, <3>1, OpenedFields
    <3>5. InUse(C.c) = InUse(P.c)
      <4>1. C.c.pending = P.c.pending /\ C.c.draining = P.c.draining
        BY <1>2, <3>1 DEF Opened, States, Clients
      <4> QED BY <4>1 DEF InUse
    <3>6. C.ready[C.c.ws] = "connecting"
      BY <3>4 DEF Opening
    <3> QED BY <1>2, <3>3, <3>4, <3>5, <3>6
  <2> QED BY <1>4, <2>1, <2>2
<1>6. iss2[r] = token
  BY DEF iss2
<1>7. /\ T \in States /\ Struct(T, K2) /\ Opening(T)
      /\ Account(C, iss2, token) => Account(T, iss2, token)
      /\ Clean(C) => Clean(T)
      /\ Calm(C) => Calm(T)
      /\ T.c.ws # 0 /\ T.c.boot = C.c.boot /\ T.c.connToken = C.c.connToken
      /\ T.happened = C.happened
  BY <1>4, <1>5, <1>6, SendOf
<1> HIDE DEF T, mix
<1>8. /\ N \in States /\ Alike(T, N) /\ N.c = T.c /\ T.happened \subseteq N.happened
      /\ mix => "mixed" \in N.happened
  <2>1. "mixed" \in Troubles
    BY DEF Troubles
  <2> QED BY <1>7, <2>1, NoteOf
<1> HIDE DEF N
<1>9. /\ Struct(N, K2) /\ Opening(N)
      /\ Account(T, iss2, token) => Account(N, iss2, token)
      /\ Clean(T) => Clean(N)
      /\ Calm(T) => Calm(N)
  <2>1. Opening(N)
    BY <1>7, <1>8 DEF Opening, Alike
  <2> QED BY <1>7, <1>8, <2>1, AlikeKeeps
<1>10. mix <=> WouldMix(InUse(F.c), r)
  BY DEF mix
<1>11. Clean(S) => Clean(N) \/ "mixed" \in N.happened \/ "twice" \in N.happened
  BY <1>1, <1>2, <1>3, <1>5, <1>7, <1>8, <1>9, <1>10
<1>12. Calm(S) => Calm(N) \/ "twice" \in N.happened
  BY <1>1, <1>2, <1>3, <1>5, <1>7, <1>8, <1>9
<1>13. N.c.boot = 0 \/ (N.c.boot = S.c.boot /\ N.c.connToken = S.c.connToken)
  BY <1>1, <1>3, <1>5, <1>7, <1>8
<1>14. S.happened \subseteq N.happened
  BY <1>1, <1>3, <1>5, <1>7, <1>8
<1>15. Account(S, iss, token) => Account(N, iss2, token)
  BY <1>1, <1>2, <1>5, <1>7, <1>9
<1>16. N.c.ws # 0
  BY <1>7, <1>8
<1> QED BY <1>8, <1>9, <1>11, <1>12, <1>13, <1>14, <1>15, <1>16 DEF N, T, C, P, F, mix, iss2, K2

LEMMA AnsweredOf ==
    ASSUME NEW q, NEW r
    PROVE  r \in Answered(q) <=> \E i \in 1..Len(q) : Answer(q[i]) /\ q[i].id = r
BY DEF Answered

LEMMA FirstOfIn ==
    ASSUME NEW q \in Seq(Rpc), NEW A, A \cap Elems(q) # {}
    PROVE  FirstOf(q, A) \in A \cap Elems(q)
<1> DEFINE I == {i \in 1..Len(q) : q[i] \in A}
<1>1. I \in SUBSET Nat /\ I # {}
  BY DEF Elems
<1>2. PICK m \in I : \A n \in I : m <= n
  BY <1>1, LeastElement
<1>3. m \in 1..Len(q) /\ q[m] \in A /\ Len(q) \in Nat
  OBVIOUS
<1>4. \A j \in 1..(m - 1) : q[j] \notin A
  <2> SUFFICES ASSUME NEW j \in 1..(m - 1), q[j] \in A PROVE FALSE
    OBVIOUS
  <2>1. j \in I /\ ~(m <= j)
    BY <1>3
  <2> HIDE DEF I
  <2> QED BY <1>2, <2>1
<1> HIDE DEF I
<1>5. \E i \in 1..Len(q) : q[i] \in A /\ \A j \in 1..(i - 1) : q[j] \notin A
  BY <1>3, <1>4
<1>6. PICK i \in 1..Len(q) : q[i] \in A /\ FirstOf(q, A) = q[i]
  BY <1>5 DEF FirstOf
<1> QED BY <1>6 DEF Elems

\* The state without the first frame of a socket.
Taken(S, s) ==
  [S EXCEPT !.inn[s] = Tail(@)]

\* The first frame of a socket is taken off.
LEMMA FrameTaken ==
    ASSUME NEW S \in States, NEW s \in Socket, S.inn[s] # <<>>, NEW K, Struct(S, K)
    PROVE  LET U == Taken(S, s)
               m == Head(S.inn[s])
           IN /\ U \in States /\ Struct(U, K)
              /\ U.c = S.c /\ U.ready = S.ready /\ U.handler = S.handler
              /\ U.boundTo = S.boundTo /\ U.happened = S.happened
              /\ \A iss, tk : Account(S, iss, tk) => Account(U, iss, tk)
              /\ Clean(S) => Clean(U)
              /\ Calm(S) => Calm(U)
              /\ m \in Frame
              /\ Answer(m) => m.id \in Carries(S.out[s], S.inn[s])
              /\ Clean(S) /\ S.handler[s] # "off" =>
                    /\ Answer(m) => m.id \notin Carries(U.out[s], U.inn[s])
                    /\ m.type = "binary" => m.id \in Binary
<1> USE DEF Taken
<1> DEFINE U == Taken(S, s)
           m == Head(S.inn[s])
           q == S.inn[s]
           p == Tail(S.inn[s])
<1>1. q \in Seq(Frame)
  BY DEF States
<1>2. /\ p \in Seq(Frame) /\ m \in Frame
      /\ Len(q) \in Nat \ {0} /\ Len(p) = Len(q) - 1 /\ m = q[1]
      /\ \A i \in 1..Len(p) : i + 1 \in 1..Len(q) /\ p[i] = q[i + 1]
  BY <1>1, TailOf
<1>3. 1 \in 1..Len(q)
  BY <1>2
<1>4. /\ U \in States /\ U.c = S.c /\ U.ready = S.ready /\ U.handler = S.handler
      /\ U.boundTo = S.boundTo /\ U.happened = S.happened /\ U.out = S.out
      /\ \A t \in Socket : U.inn[t] = IF t = s THEN p ELSE S.inn[t]
  BY <1>2 DEF States
<1> HIDE DEF U, m, q, p
<1>5. Answered(p) \subseteq Answered(q)
  BY <1>2, AnsweredOf
<1>6. S.inn[s] = q
  BY DEF q
<1>7. \A t \in Socket : Carries(U.out[t], U.inn[t]) \subseteq Carries(S.out[t], S.inn[t])
  BY <1>4, <1>5, <1>6 DEF Carries
<1>8. Issued(S, K) /\ Sockets(S) /\ QueueWaits(S) /\ Apart(S) /\ Once(S.c.pending)
  BY DEF Struct
<1>9. Struct(U, K)
  <2>1. Sockets(U) /\ QueueWaits(U)
    BY <1>4, <1>8 DEF Sockets, QueueWaits
  <2>2. Issued(U, K)
    BY <1>4, <1>7, <1>8 DEF Issued
  <2>3. Apart(U)
    BY <1>4, <1>7, <1>8 DEF Apart
  <2> QED BY <1>4, <1>8, <2>1, <2>2, <2>3 DEF Struct
<1>10. \A iss, tk : Account(S, iss, tk) => Account(U, iss, tk)
  BY <1>4 DEF Account
<1>11. \A o : Orderly(o, q) => Orderly(o, p)
  <2> SUFFICES ASSUME NEW o, Orderly(o, q) PROVE Orderly(o, p)
    OBVIOUS
  <2>1. Elems(o) \cap Answered(p) = {}
    BY <1>5 DEF Orderly
  <2>2. ASSUME NEW i \in 1..Len(p), NEW j \in 1..Len(p), Answer(p[i]), Answer(p[j]), p[i].id = p[j].id
        PROVE  i = j
    <3>1. i + 1 = j + 1
      BY <1>2, <2>2 DEF Orderly
    <3> QED BY <3>1, <1>2
  <2>3. \A i \in 1..Len(p) : p[i].type = "binary" => p[i].id \in Binary
    BY <1>2 DEF Orderly
  <2> QED BY <2>1, <2>2, <2>3 DEF Orderly
<1>12. ASSUME Clean(S) PROVE Clean(U)
  <2>1. InUse(U.c) = InUse(S.c) /\ DrainedCalls(U) = DrainedCalls(S)
    BY <1>4 DEF DrainedCalls
  <2>2. OneDrain(U) /\ (NoDrain(U) <=> NoDrain(S))
    BY <1>4, <1>12 DEF Clean, OneDrain, NoDrain
  <2>3. \A t \in Socket : U.handler[t] # "off" => Orderly(U.out[t], U.inn[t])
    BY <1>4, <1>6, <1>11, <1>12 DEF Clean
  <2> QED BY <1>4, <1>7, <1>12, <2>1, <2>2, <2>3 DEF Clean
<1>13. Calm(S) => Calm(U)
  BY <1>4 DEF Calm, OneDrain, DrainedCalls
<1>14. Answer(m) => m.id \in Answered(q)
  BY <1>2, <1>3, AnsweredOf
<1>15. ASSUME Clean(S), S.handler[s] # "off"
       PROVE  /\ Answer(m) => m.id \notin Carries(U.out[s], U.inn[s])
              /\ m.type = "binary" => m.id \in Binary
  <2>1. Orderly(S.out[s], q)
    BY <1>6, <1>15 DEF Clean
  <2>2. ASSUME Answer(m), m.id \in Answered(p) PROVE FALSE
    <3>1. PICK i \in 1..Len(p) : Answer(p[i]) /\ p[i].id = m.id
      BY <2>2, AnsweredOf
    <3>2. i + 1 = 1
      BY <1>2, <1>3, <2>1, <2>2, <3>1 DEF Orderly
    <3> QED BY <3>2, <1>2
  <2>3. Answer(m) => m.id \notin Elems(S.out[s])
    BY <1>14, <2>1 DEF Orderly
  <2>4. m.type = "binary" => m.id \in Binary
    BY <1>2, <1>3, <2>1 DEF Orderly
  <2> QED BY <1>4, <2>2, <2>3, <2>4 DEF Carries
<1>16. Answer(m) => m.id \in Carries(S.out[s], S.inn[s])
  BY <1>6, <1>14 DEF Carries
<1> QED BY <1>2, <1>4, <1>9, <1>10, <1>12, <1>13, <1>15, <1>16 DEF U, m

\* The header of a binary answer: the call moves to the end of those pending.
LEMMA Reordered ==
    ASSUME NEW S \in States, NEW p \in Seq(Rpc), Elems(p) = Elems(S.c.pending), Once(p),
           NEW K, Struct(S, K)
    PROVE  LET T == [S EXCEPT !.c.pending = p] IN
           /\ T \in States /\ Struct(T, K)
           /\ T.c.ws = S.c.ws /\ T.c.queue = S.c.queue /\ T.c.boot = S.c.boot
           /\ T.c.connToken = S.c.connToken /\ T.c.connecting = S.c.connecting
           /\ T.ready = S.ready /\ T.happened = S.happened
           /\ \A iss, tk : Account(S, iss, tk) => Account(T, iss, tk)
           /\ Clean(S) => Clean(T)
           /\ Calm(S) => Calm(T)
<1> DEFINE T == [S EXCEPT !.c.pending = p]
<1>1. /\ T \in States /\ T.c.pending = p
      /\ T.c.ws = S.c.ws /\ T.c.connToken = S.c.connToken /\ T.c.boot = S.c.boot
      /\ T.c.draining = S.c.draining /\ T.c.drainOf = S.c.drainOf /\ T.c.queue = S.c.queue
      /\ T.c.connecting = S.c.connecting
      /\ T.ready = S.ready /\ T.handler = S.handler /\ T.boundTo = S.boundTo
      /\ T.out = S.out /\ T.inn = S.inn /\ T.happened = S.happened
  BY DEF States, Clients
<1> HIDE DEF T
<1>2. InUse(T.c) = InUse(S.c) /\ DrainedCalls(T) = DrainedCalls(S)
  BY <1>1 DEF InUse, DrainedCalls
<1>3. Struct(T, K)
  <2>1. Sockets(T) /\ QueueWaits(T) /\ Apart(T)
    BY <1>1 DEF Struct, Sockets, QueueWaits, Apart
  <2>2. Issued(T, K)
    BY <1>1 DEF Struct, Issued
  <2> QED BY <1>1, <2>1, <2>2 DEF Struct
<1>4. \A iss, tk : Account(S, iss, tk) => Account(T, iss, tk)
  BY <1>1 DEF Account
<1>5. OneDrain(S) <=> OneDrain(T)
  BY <1>1 DEF OneDrain
<1>6. NoDrain(S) <=> NoDrain(T)
  BY <1>1 DEF NoDrain
<1>7. Clean(S) => Clean(T)
  BY <1>1, <1>2, <1>5, <1>6 DEF Clean
<1>8. Calm(S) => Calm(T)
  BY <1>1, <1>2, <1>5 DEF Calm
<1> QED BY <1>1, <1>3, <1>4, <1>7, <1>8 DEF T

\* The client's part of a finished call, on the socket in use.
LEMMA FinishLive ==
    ASSUME NEW S \in States, NEW s \in Socket, NEW r, S.handler = handler,
           S.handler[s] = "live", S.ready[s] = "open", r \in InUse(S.c), NEW K, Struct(S, K)
    PROVE  LET T == Finish(S, s, r) IN
           /\ T \in States /\ Struct(T, K)
           /\ Opening(S) => Opening(T)
           /\ T.c.ws = S.c.ws /\ T.c.queue = S.c.queue /\ T.c.boot = S.c.boot
           /\ T.c.connToken = S.c.connToken
           /\ T.happened = S.happened
           /\ \A iss, tk : Account(S, iss, tk) => Account(T, iss, tk)
           /\ Clean(S) /\ r \notin Carries(S.out[s], S.inn[s]) => Clean(T)
           /\ Calm(S) => Calm(T)
<1> DEFINE T == Finish(S, s, r)
           p == Without(S.c.pending, {r})
<1>1. S.c.pending \in Seq(Rpc)
  BY DEF States, Clients
<1>2. /\ p \in Seq(Rpc) /\ Elems(p) = Elems(S.c.pending) \ {r}
      /\ Once(S.c.pending) => Once(p)
  BY <1>1, WithoutOf
<1> HIDE DEF p
<1>3. T = [S EXCEPT !.c.pending = p]
  BY DEF Finish, p
<1> HIDE DEF T
<1>4. /\ T \in States /\ T.c.pending = p
      /\ T.c.ws = S.c.ws /\ T.c.connToken = S.c.connToken /\ T.c.boot = S.c.boot
      /\ T.c.draining = S.c.draining /\ T.c.drainOf = S.c.drainOf /\ T.c.queue = S.c.queue
      /\ T.c.connecting = S.c.connecting
      /\ T.ready = S.ready /\ T.handler = S.handler /\ T.boundTo = S.boundTo
      /\ T.out = S.out /\ T.inn = S.inn /\ T.happened = S.happened
  BY <1>2, <1>3 DEF States, Clients
<1>5. InUse(T.c) = InUse(S.c) \ {r} /\ DrainedCalls(T) = DrainedCalls(S)
  BY <1>2, <1>4 DEF InUse, DrainedCalls
<1>6. Struct(T, K)
  <2>1. Sockets(T) /\ QueueWaits(T) /\ Apart(T)
    BY <1>4 DEF Struct, Sockets, QueueWaits, Apart
  <2>2. Issued(T, K)
    BY <1>2, <1>4 DEF Struct, Issued
  <2> QED BY <1>2, <1>4, <2>1, <2>2 DEF Struct
<1>7. S.c.ws = s /\ S.c.queue = <<>>
  <2>1. S.c.ws = s
    BY DEF Struct, Sockets
  <2> QED BY <2>1, SocketNumbers DEF Struct, QueueWaits
<1>8. \A iss, tk : Account(S, iss, tk) => Account(T, iss, tk)
  BY <1>4 DEF Account
<1>9. ASSUME Clean(S), r \notin Carries(S.out[s], S.inn[s]) PROVE Clean(T)
  <2>1. \A t \in Socket : T.handler[t] = "live" => t = s
    BY <1>4, <1>7 DEF Struct, Sockets
  <2>2. OneDrain(T) /\ (NoDrain(T) <=> NoDrain(S))
    BY <1>4, <1>9 DEF Clean, OneDrain, NoDrain
  <2>3. Alone(InUse(T.c)) /\ Alone(DrainedCalls(T))
    BY <1>5, <1>9 DEF Clean, Alone
  <2>4. Elems(T.c.queue) \subseteq InUse(T.c) /\ Once(T.c.queue)
    BY <1>4, <1>7, ElemsEmpty DEF Once
  <2>5. Carries(T.out[s], T.inn[s]) \subseteq InUse(T.c)
    BY <1>4, <1>5, <1>9 DEF Clean
  <2> QED BY <1>4, <1>5, <1>9, <2>1, <2>2, <2>3, <2>4, <2>5 DEF Clean
<1>10. ASSUME Calm(S) PROVE Calm(T)
  BY <1>4, <1>5, <1>10 DEF Calm, OneDrain
<1>11. Opening(S) => Opening(T)
  BY <1>4 DEF Opening
<1> QED BY <1>4, <1>6, <1>8, <1>9, <1>10, <1>11 DEF T

\* The same on a draining socket, which its last call closes.
LEMMA FinishDrain ==
    ASSUME NEW S \in States, NEW s \in Socket, NEW r, S.handler = handler,
           S.handler[s] = "drain", r \in DrainedCalls(S), NEW K, Struct(S, K)
    PROVE  LET T == Finish(S, s, r) IN
           /\ T \in States /\ Struct(T, K)
           /\ Opening(S) => Opening(T)
           /\ T.c.ws = S.c.ws /\ T.c.queue = S.c.queue /\ T.c.boot = S.c.boot
           /\ T.c.connToken = S.c.connToken
           /\ T.happened = S.happened
           /\ \A iss, tk : Account(S, iss, tk) => Account(T, iss, tk)
           /\ Clean(S) /\ r \notin Carries(S.out[s], S.inn[s]) => Clean(T)
           /\ Calm(S) => Calm(T)
<1> DEFINE T == Finish(S, s, r)
           p == Without(S.c.pending, {r})
           left == S.c.drainOf[s] \ {r}
           V == [S EXCEPT !.c.pending = p, !.c.draining = @ \ {r}, !.c.drainOf[s] = left]
<1>1. S.c.pending \in Seq(Rpc) /\ S.c.drainOf \in [Socket -> SUBSET Rpc]
  BY DEF States, Clients
<1>2. /\ p \in Seq(Rpc) /\ Elems(p) = Elems(S.c.pending) \ {r}
      /\ Once(S.c.pending) => Once(p)
  BY <1>1, WithoutOf
<1>3. left \in SUBSET Rpc /\ left \subseteq S.c.drainOf[s]
  BY <1>1
<1> HIDE DEF p
<1>4. T = IF left = {} THEN Discard(V, s) ELSE V
  <2>1. DEFINE Q == [S EXCEPT !.c.pending = p]
  <2>2. Q.c.drainOf = S.c.drainOf /\ Q.c.draining = S.c.draining
    BY DEF States, Clients
  <2>3. T = DrainComplete(Q, s, r)
    BY DEF Finish, p
  <2>4. [Q EXCEPT !.c.draining = @ \ {r}, !.c.drainOf[s] = left] = V
    BY <1>2 DEF States, Clients
  <2> QED BY <2>2, <2>3, <2>4 DEF DrainComplete
<1> HIDE DEF left
<1>5. /\ V \in States /\ V.c.pending = p
      /\ V.c.ws = S.c.ws /\ V.c.connToken = S.c.connToken /\ V.c.boot = S.c.boot
      /\ V.c.draining = S.c.draining \ {r}
      /\ V.c.queue = S.c.queue /\ V.c.connecting = S.c.connecting
      /\ V.ready = S.ready /\ V.handler = S.handler /\ V.boundTo = S.boundTo
      /\ V.out = S.out /\ V.inn = S.inn /\ V.happened = S.happened
  <2>1. S.c.draining \ {r} \in SUBSET Rpc
    BY DEF States, Clients
  <2> QED BY <1>2, <1>3, <2>1 DEF States, Clients
<1>6. \A t \in Socket : V.c.drainOf[t] = IF t = s THEN left ELSE S.c.drainOf[t]
  BY <1>1, <1>3 DEF States, Clients
<1> HIDE DEF V
<1>7. /\ T \in States /\ T.c = V.c /\ T.boundTo = S.boundTo /\ T.out = S.out
      /\ T.happened = S.happened
      /\ \A t \in Socket :
           /\ T.ready[t] = IF t = s /\ left = {} THEN "closed" ELSE S.ready[t]
           /\ T.handler[t] = IF t = s /\ left = {} THEN "off" ELSE S.handler[t]
           /\ T.inn[t] = IF t = s /\ left = {} THEN <<>> ELSE S.inn[t]
  <2>1. <<>> \in Seq(Frame)
    OBVIOUS
  <2>2. /\ Discard(V, s) \in States /\ Discard(V, s).c = V.c
        /\ Discard(V, s).boundTo = V.boundTo /\ Discard(V, s).out = V.out
        /\ Discard(V, s).happened = V.happened
    BY <1>5, <2>1 DEF Discard, States
  <2>3. \A t \in Socket :
             /\ Discard(V, s).ready[t] = IF t = s THEN "closed" ELSE V.ready[t]
             /\ Discard(V, s).handler[t] = IF t = s THEN "off" ELSE V.handler[t]
             /\ Discard(V, s).inn[t] = IF t = s THEN <<>> ELSE V.inn[t]
    BY <1>5 DEF Discard, States
  <2>4. CASE left = {}
    <3>1. T = Discard(V, s)
      BY <1>4, <2>4
    <3> HIDE DEF T
    <3> QED BY <1>5, <2>2, <2>3, <2>4, <3>1
  <2>5. CASE left # {}
    <3>1. T = V
      BY <1>4, <2>5
    <3> HIDE DEF T
    <3> QED BY <1>5, <2>5, <3>1
  <2> QED BY <2>4, <2>5
<1> HIDE DEF T
<1>8. /\ InUse(T.c) = InUse(S.c) /\ DrainedCalls(T) = DrainedCalls(S) \ {r}
      /\ r \in S.c.draining
  BY <1>2, <1>5, <1>7 DEF InUse, DrainedCalls
<1>9. s # S.c.ws
  BY DEF Struct, Sockets
<1>10. \A t \in Socket : Carries(T.out[t], T.inn[t]) \subseteq Carries(S.out[t], S.inn[t])
  BY <1>7, LessCarried DEF Carries
<1>11. Struct(T, K)
  <2>1. Sockets(T)
    BY <1>5, <1>7, <1>9 DEF Struct, Sockets
  <2>2. QueueWaits(T)
    <3>1. S.c.ws \in Socket \cup {0}
      BY DEF States, Clients
    <3> QED BY <1>5, <1>7, <1>9, <3>1 DEF Struct, QueueWaits
  <2>3. Apart(T)
    BY <1>5, <1>7, <1>10 DEF Struct, Apart
  <2>4. Issued(T, K)
    <3>1. Issued(S, K)
      BY DEF Struct
    <3> QED BY <1>2, <1>3, <1>5, <1>6, <1>7, <1>10, <3>1 DEF Issued
  <2> QED BY <1>2, <1>5, <1>7, <2>1, <2>2, <2>3, <2>4 DEF Struct
<1>12. \A iss, tk : Account(S, iss, tk) => Account(T, iss, tk)
  BY <1>5, <1>7 DEF Account
<1>13. \A t \in Socket : T.handler[t] = "drain" => (t = s /\ left # {}) \/ ~OneDrain(S)
  BY <1>7 DEF OneDrain
<1>14. OneDrain(S) => OneDrain(T)
  BY <1>7 DEF OneDrain
<1>15. ASSUME Clean(S), r \notin Carries(S.out[s], S.inn[s]) PROVE Clean(T)
  <2>1. \A t \in Socket : T.handler[t] = "drain" => t = s /\ left # {}
    BY <1>13, <1>15 DEF Clean
  <2>2. Alone(InUse(T.c)) /\ Alone(DrainedCalls(T))
    BY <1>8, <1>15 DEF Clean, Alone
  <2>3. DrainedCalls(T) \subseteq left
    BY <1>8, <1>15 DEF Clean, left
  <2>4. left \subseteq T.c.draining
    BY <1>5, <1>7, <1>15 DEF Clean, left
  <2>5. NoDrain(T) => DrainedCalls(T) = {}
    <3>1. NoDrain(T) => left = {}
      BY <1>7 DEF NoDrain
    <3> QED BY <2>3, <3>1
  <2>6. Carries(S.out[s], S.inn[s]) \subseteq DrainedCalls(T)
    BY <1>8, <1>15 DEF Clean
  <2>7. \A t \in Socket : T.handler[t] # "off" =>
           T.out[t] = S.out[t] /\ T.inn[t] = S.inn[t] /\ T.handler[t] = S.handler[t]
    BY <1>7
  <2>8. T.c.drainOf[s] = left /\ T.c.queue = S.c.queue
    BY <1>5, <1>6, <1>7
  <2>9. OneDrain(T)
    BY <1>14, <1>15 DEF Clean
  <2>10. \A t \in Socket : T.handler[t] = "live" => Carries(T.out[t], T.inn[t]) \subseteq InUse(T.c)
    BY <1>8, <1>15, <2>7 DEF Clean
  <2>11. \A t \in Socket : T.handler[t] # "off" => Orderly(T.out[t], T.inn[t])
    BY <1>15, <2>7 DEF Clean
  <2>12. Elems(T.c.queue) \subseteq InUse(T.c) /\ Once(T.c.queue)
    BY <1>8, <1>15, <2>8 DEF Clean
  <2>13. \A t \in Socket : T.handler[t] = "drain" =>
            /\ Carries(T.out[t], T.inn[t]) \subseteq DrainedCalls(T)
            /\ DrainedCalls(T) \subseteq T.c.drainOf[t]
            /\ T.c.drainOf[t] \subseteq T.c.draining
    BY <2>1, <2>3, <2>4, <2>6, <2>7, <2>8
  <2> QED BY <2>2, <2>5, <2>9, <2>10, <2>11, <2>12, <2>13 DEF Clean
<1>16. ASSUME Calm(S) PROVE Calm(T)
  <2>1. \A t \in Socket : T.handler[t] = "drain" => t = s /\ left # {}
    BY <1>13, <1>16 DEF Calm
  <2>2. left \subseteq DrainedCalls(T) /\ T.c.drainOf[s] = left
    BY <1>6, <1>7, <1>8, <1>16 DEF Calm, left
  <2> QED BY <1>14, <1>16, <2>1, <2>2 DEF Calm
<1>17. Opening(S) => Opening(T)
  <2>1. S.c.ws \in Socket \cup {0}
    BY DEF States, Clients
  <2> QED BY <1>5, <1>7, <1>9, <2>1 DEF Opening
<1> QED BY <1>5, <1>7, <1>11, <1>12, <1>15, <1>16, <1>17 DEF T

\* What the server may push to a socket that opens.
Pushes == {<<>>, <<[type |-> "bootstrap"]>>}

\* The state after Opens.
HasOpened(S, s, q) ==
  [S EXCEPT !.ready[s] = "open", !.c.connecting = FALSE, !.c.queue = <<>>,
            !.out[s] = S.c.queue, !.inn[s] = q]

\* The socket in use opens: the queue goes out, the bootstrap payload may be pushed.
LEMMA OpensOf ==
    ASSUME NEW S \in States, NEW s \in Socket, S.ready[s] = "connecting", NEW K, Struct(S, K),
           NEW q \in Pushes
    PROVE  LET T == HasOpened(S, s, q) IN
           /\ T \in States /\ Struct(T, K) /\ Opening(T)
           /\ T.happened = S.happened
           /\ T.c.queue = <<>> /\ T.c.boot = S.c.boot /\ T.c.connToken = S.c.connToken
           /\ \A iss, tk : Account(S, iss, tk) => Account(T, iss, tk)
           /\ Clean(S) => Clean(T)
           /\ Calm(S) => Calm(T)
<1> USE DEF HasOpened, Pushes
<1> DEFINE T == HasOpened(S, s, q)
<1>1. q \in Seq(Frame) /\ S.c.queue \in Seq(Rpc) /\ <<>> \in Seq(Rpc)
  <2>1. [type |-> "bootstrap"] \in Frame
    BY DEF Frame
  <2>2. S.c.queue \in Seq(Rpc)
    BY DEF States, Clients
  <2>3. \A F, f : f \in F => <<>> \in Seq(F) /\ <<f>> \in Seq(F)
    OBVIOUS
  <2>4. q = <<>> \/ q = <<[type |-> "bootstrap"]>>
    OBVIOUS
  <2> HIDE DEF Frame
  <2>5. q \in Seq(Frame)
    BY <2>1, <2>3, <2>4, Zenon
  <2> QED BY <2>2, <2>5
<1>2. Answered(q) = {} /\ \A i \in 1..Len(q) : q[i].type # "binary" /\ ~Answer(q[i])
  <2>1. \A i \in 1..Len(q) : q[i].type = "bootstrap"
    <3>1. CASE q = <<>>
      BY <3>1
    <3>2. CASE q = <<[type |-> "bootstrap"]>>
      <4>1. Len(q) = 1 /\ q[1].type = "bootstrap"
        BY <3>2
      <4> QED BY <4>1
    <3> QED BY <3>1, <3>2
  <2>2. \A i \in 1..Len(q) : q[i].type # "binary" /\ ~Answer(q[i])
    BY <2>1 DEF Answer
  <2> QED BY <2>2, AnsweredOf
<1>3. /\ T \in States
      /\ T.c = [S.c EXCEPT !.connecting = FALSE, !.queue = <<>>]
      /\ T.ready = [S.ready EXCEPT ![s] = "open"] /\ T.handler = S.handler
      /\ T.boundTo = S.boundTo /\ T.out = [S.out EXCEPT ![s] = S.c.queue]
      /\ T.inn = [S.inn EXCEPT ![s] = q] /\ T.happened = S.happened
  BY <1>1 DEF States, Clients
<1> HIDE DEF T
<1>4. /\ ~T.c.connecting /\ T.c.queue = <<>>
      /\ T.c.ws = S.c.ws /\ T.c.connToken = S.c.connToken /\ T.c.boot = S.c.boot
      /\ T.c.pending = S.c.pending /\ T.c.draining = S.c.draining /\ T.c.drainOf = S.c.drainOf
  BY <1>1, <1>3 DEF States, Clients
<1>5. \A t \in Socket : /\ T.ready[t] = IF t = s THEN "open" ELSE S.ready[t]
                        /\ T.out[t] = IF t = s THEN S.c.queue ELSE S.out[t]
                        /\ T.inn[t] = IF t = s THEN q ELSE S.inn[t]
  BY <1>3 DEF States
<1>6. Issued(S, K) /\ Sockets(S) /\ QueueWaits(S) /\ Apart(S) /\ Once(S.c.pending)
  BY DEF Struct
<1>7. S.handler[s] = "live" /\ S.c.ws = s
  <2>1. S.handler[s] \in {"live", "drain", "off"}
    BY DEF States
  <2> QED BY <1>6, <2>1 DEF Sockets
<1>8. \A o : Carries(o, q) = Elems(o)
  BY <1>2 DEF Carries
<1>9. Struct(T, K)
  <2>1. Sockets(T)
    BY <1>3, <1>4, <1>5, <1>6, <1>7 DEF Sockets
  <2>2. QueueWaits(T)
    BY <1>4 DEF QueueWaits
  <2>3. Apart(T)
    BY <1>3, <1>4, <1>5, <1>6, <1>8, ElemsEmpty DEF Apart
  <2>4. Issued(T, K)
    BY <1>3, <1>4, <1>5, <1>6, <1>8, ElemsEmpty DEF Issued
  <2> QED BY <1>4, <1>6, <2>1, <2>2, <2>3, <2>4 DEF Struct
<1>10. \A iss, tk : Account(S, iss, tk) => Account(T, iss, tk)
  <2> SUFFICES ASSUME NEW iss, NEW tk, Account(S, iss, tk) PROVE Account(T, iss, tk)
    OBVIOUS
  <2>1. S.c.queue # <<>> => S.boundTo[s] = tk
    BY <1>6, <1>7, SocketNumbers DEF Account, Sockets
  <2>2. \A r \in Elems(S.c.queue) : iss[r] = tk /\ S.c.queue # <<>>
    BY ElemsEmpty DEF Account
  <2>3. T.boundTo = S.boundTo
    BY <1>3
  <2> QED BY <1>4, <1>5, <2>1, <2>2, <2>3, ElemsEmpty DEF Account
<1>11. ASSUME Clean(S) PROVE Clean(T)
  <2>1. InUse(T.c) = InUse(S.c) /\ DrainedCalls(T) = DrainedCalls(S)
    BY <1>4 DEF InUse, DrainedCalls
  <2>2. OneDrain(T) /\ (NoDrain(T) <=> NoDrain(S))
    BY <1>3, <1>11 DEF Clean, OneDrain, NoDrain
  <2>3. Orderly(S.c.queue, q)
    BY <1>2, <1>11 DEF Clean, Orderly
  <2>4. \A t \in Socket : T.handler[t] # "off" => Orderly(T.out[t], T.inn[t])
    BY <1>3, <1>5, <1>11, <2>3 DEF Clean
  <2>5. \A t \in Socket : T.handler[t] = "live" => Carries(T.out[t], T.inn[t]) \subseteq InUse(T.c)
    BY <1>3, <1>5, <1>8, <1>11, <2>1 DEF Clean
  <2>6. Elems(T.c.queue) \subseteq InUse(T.c) /\ Once(T.c.queue)
    BY <1>4, ElemsEmpty DEF Once
  <2>7. \A t \in Socket : T.handler[t] = "drain" => T.out[t] = S.out[t] /\ T.inn[t] = S.inn[t]
    BY <1>3, <1>5, <1>7
  <2> QED BY <1>3, <1>4, <1>11, <2>1, <2>2, <2>4, <2>5, <2>6, <2>7 DEF Clean
<1>12. Calm(S) => Calm(T)
  BY <1>3, <1>4 DEF Calm, OneDrain, DrainedCalls
<1>13. Opening(T)
  BY <1>4, <1>5, <1>7 DEF Opening
<1> QED BY <1>3, <1>4, <1>9, <1>10, <1>11, <1>12, <1>13 DEF T

LEMMA ConcatOf ==
    ASSUME NEW F, NEW x \in Seq(F), NEW y \in Seq(F)
    PROVE  /\ x \o y \in Seq(F) /\ Len(x) \in Nat /\ Len(x \o y) = Len(x) + Len(y)
           /\ \A i \in 1..Len(x) : (x \o y)[i] = x[i]
           /\ \A i \in 1..Len(y) : (x \o y)[Len(x) + i] = y[i]
OBVIOUS

\* The server answers one call: not twice, and in a binary frame a binary call only.
LEMMA AnswersOf ==
    ASSUME NEW r \in Rpc, NEW a \in Answers(r), NEW q \in Seq(Frame)
    PROVE  /\ q \o a \in Seq(Frame)
           /\ Answered(q \o a) = Answered(q) \cup {r}
           /\ \A o \in Seq(Rpc), p \in Seq(Rpc) :
                Orderly(o, q) /\ Once(p) /\ Elems(p) = Elems(o) \ {r} /\ r \in Elems(o)
                  => Orderly(p, q \o a)
<1> DEFINE p2 == q \o a
<1>1. /\ a \in Seq(Frame) /\ (Len(a) = 1 \/ Len(a) = 2)
      /\ \A i \in 1..Len(a) : /\ a[i].id = r /\ (Answer(a[i]) <=> i = Len(a))
                              /\ a[i].type = "binary" => r \in Binary
  <2>1. /\ [type |-> "json", id |-> r] \in Frame /\ [type |-> "header", id |-> r] \in Frame
        /\ [type |-> "binary", id |-> r] \in Frame
    BY DEF Frame
  <2>2. CASE a = <<[type |-> "json", id |-> r]>>
    <3>1. a \in Seq(Frame)
      <4> HIDE DEF Frame
      <4> QED BY <2>1, <2>2
    <3>2. Len(a) = 1 /\ a[1] = [type |-> "json", id |-> r]
      BY <2>2
    <3> QED BY <3>1, <3>2 DEF Answer
  <2>3. CASE r \in Binary /\ a = <<[type |-> "header", id |-> r], [type |-> "binary", id |-> r]>>
    <3>1. a \in Seq(Frame)
      <4> HIDE DEF Frame
      <4> QED BY <2>1, <2>3
    <3>2. /\ Len(a) = 2 /\ a[1] = [type |-> "header", id |-> r]
          /\ a[2] = [type |-> "binary", id |-> r]
      BY <2>3
    <3>3. 1..Len(a) = {1, 2}
      BY <3>2
    <3> QED BY <2>3, <3>1, <3>2, <3>3 DEF Answer
  <2> QED BY <2>2, <2>3 DEF Answers
<1>2. /\ p2 \in Seq(Frame) /\ Len(q) \in Nat /\ Len(a) \in Nat \ {0} /\ Len(p2) = Len(q) + Len(a)
      /\ \A i \in 1..Len(q) : p2[i] = q[i]
      /\ \A i \in 1..Len(a) : p2[Len(q) + i] = a[i]
  <2>1. a \in Seq(Frame)
    BY <1>1
  <2>2. Len(a) = 1 \/ Len(a) = 2
    BY <1>1, Zenon
  <2>3. Len(a) \in Nat \ {0}
    BY <2>2
  <2>4. /\ p2 \in Seq(Frame) /\ Len(q) \in Nat /\ Len(p2) = Len(q) + Len(a)
        /\ \A i \in 1..Len(q) : p2[i] = q[i]
        /\ \A i \in 1..Len(a) : p2[Len(q) + i] = a[i]
    BY <2>1, ConcatOf
  <2> QED BY <2>3, <2>4
<1> HIDE DEF p2
<1>3. \A i \in 1..Len(p2) : i \in 1..Len(q) \/ (i - Len(q) \in 1..Len(a) /\ i = Len(q) + (i - Len(q)))
  BY <1>2
<1>4. 1..Len(q) \subseteq 1..Len(p2) /\ \A i \in 1..Len(a) : Len(q) + i \in 1..Len(p2)
  BY <1>2
<1>5. Answered(p2) = Answered(q) \cup {r}
  <2>1. ASSUME NEW x \in Answered(p2) PROVE x \in Answered(q) \cup {r}
    <3>1. PICK i \in 1..Len(p2) : Answer(p2[i]) /\ p2[i].id = x
      BY AnsweredOf
    <3>2. CASE i \in 1..Len(q)
      BY <1>2, <3>1, <3>2, AnsweredOf
    <3>3. CASE i - Len(q) \in 1..Len(a) /\ i = Len(q) + (i - Len(q))
      <4>1. p2[i] = a[i - Len(q)]
        BY <1>2, <3>3
      <4> QED BY <1>1, <3>1, <3>3, <4>1
    <3> QED BY <1>3, <3>2, <3>3
  <2>2. r \in Answered(p2)
    <3>0. Len(a) \in 1..Len(a)
      BY <1>2
    <3>1. Len(a) \in 1..Len(a) /\ Answer(a[Len(a)]) /\ a[Len(a)].id = r
      BY <1>1, <3>0
    <3>2. p2[Len(q) + Len(a)] = a[Len(a)] /\ Len(q) + Len(a) \in 1..Len(p2)
      BY <1>2, <1>4, <3>1
    <3> QED BY <3>1, <3>2, AnsweredOf
  <2>3. \A x \in Answered(q) : x \in Answered(p2)
    BY <1>2, <1>4, AnsweredOf
  <2> QED BY <2>1, <2>2, <2>3
<1>6. ASSUME NEW o \in Seq(Rpc), NEW p \in Seq(Rpc),
             Orderly(o, q), Once(p), Elems(p) = Elems(o) \ {r}, r \in Elems(o)
      PROVE  Orderly(p, p2)
  <2>1. Elems(p) \cap Answered(p2) = {}
    BY <1>5, <1>6 DEF Orderly
  <2>2. ASSUME NEW i \in 1..Len(q), Answer(q[i]) PROVE q[i].id # r
    <3>1. q[i].id \in Answered(q)
      BY <2>2, AnsweredOf
    <3> QED BY <1>6, <3>1 DEF Orderly
  <2>3. ASSUME NEW i \in 1..Len(p2), NEW j \in 1..Len(p2), Answer(p2[i]), Answer(p2[j]),
               p2[i].id = p2[j].id
        PROVE  i = j
    <3>1. CASE i \in 1..Len(q) /\ j \in 1..Len(q)
      BY <1>2, <1>6, <2>3, <3>1 DEF Orderly
    <3>2. ASSUME NEW k \in 1..Len(p2), k \notin 1..Len(q), Answer(p2[k])
          PROVE  p2[k].id = r /\ k = Len(q) + Len(a)
      <4>1. k - Len(q) \in 1..Len(a) /\ p2[k] = a[k - Len(q)]
        BY <1>2, <1>3, <3>2
      <4>2. k - Len(q) = Len(a) /\ p2[k].id = r
        BY <1>1, <3>2, <4>1
      <4> QED BY <1>2, <4>2
    <3>3. ASSUME NEW k \in 1..Len(q), Answer(p2[k]) PROVE p2[k].id # r
      BY <1>2, <2>2, <3>3
    <3> QED BY <2>3, <3>1, <3>2, <3>3
  <2>4. ASSUME NEW i \in 1..Len(p2), p2[i].type = "binary" PROVE p2[i].id \in Binary
    <3>1. CASE i \in 1..Len(q)
      BY <1>2, <1>6, <2>4, <3>1 DEF Orderly
    <3>2. CASE i - Len(q) \in 1..Len(a) /\ i = Len(q) + (i - Len(q))
      <4>1. p2[i] = a[i - Len(q)]
        BY <1>2, <3>2
      <4> QED BY <1>1, <2>4, <3>2, <4>1
    <3> QED BY <1>3, <3>1, <3>2
  <2> QED BY <1>6, <2>1, <2>3, <2>4 DEF Orderly
<1> QED BY <1>2, <1>5, <1>6 DEF p2

\* The state after ServerRuns.
HasRun(S, s, a) ==
  [S EXCEPT !.out[s] = Tail(@), !.inn[s] = IF S.ready[s] = "open" THEN @ \o a ELSE @]

\* The server runs the first call a socket brought, and answers it on that socket
\* while it is open.
LEMMA ServerRunsOf ==
    ASSUME NEW S \in States, NEW s \in Socket, S.out[s] # <<>>, NEW K, Struct(S, K),
           NEW a \in Answers(Head(S.out[s]))
    PROVE  LET T == HasRun(S, s, a) IN
           /\ T \in States /\ Struct(T, K)
           /\ T.c = S.c /\ T.ready = S.ready /\ T.handler = S.handler
           /\ T.boundTo = S.boundTo /\ T.happened = S.happened
           /\ \A iss, tk : Account(S, iss, tk) =>
                 Account(T, iss, tk) /\ S.boundTo[s] = iss[Head(S.out[s])]
           /\ Clean(S) => Clean(T)
           /\ Calm(S) => Calm(T)
           /\ Head(S.out[s]) \in K /\ Head(S.out[s]) \in Rpc
<1> DEFINE o == S.out[s]
           p == Tail(S.out[s])
           r == Head(S.out[s])
           q == S.inn[s]
           u == IF S.ready[s] = "open" THEN S.inn[s] \o a ELSE S.inn[s]
           T == HasRun(S, s, a)
<1> USE DEF HasRun
<1>1. o \in Seq(Rpc) /\ q \in Seq(Frame)
  BY DEF States
<1>2. /\ p \in Seq(Rpc) /\ r \in Rpc /\ r \in Elems(o) /\ Elems(p) \subseteq Elems(o)
      /\ Once(o) => Once(p) /\ Elems(p) = Elems(o) \ {r}
  BY <1>1, TailOf
<1>3. /\ u \in Seq(Frame) /\ Answered(u) \subseteq Answered(q) \cup {r}
      /\ Orderly(o, q) => Orderly(p, u)
  <2>1. CASE S.ready[s] = "open"
    <3>1. u = q \o a
      BY <2>1
    <3>2. /\ q \o a \in Seq(Frame)
          /\ Answered(q \o a) = Answered(q) \cup {r}
          /\ Orderly(o, q) /\ Once(p) /\ Elems(p) = Elems(o) \ {r} /\ r \in Elems(o)
                  => Orderly(p, q \o a)
      BY <1>1, <1>2, AnswersOf
    <3>3. Orderly(o, q) => Once(o)
      BY DEF Orderly
    <3> HIDE DEF u, o, p, r, q
    <3> QED BY <1>2, <3>1, <3>2, <3>3
  <2>2. CASE S.ready[s] # "open"
    <3>1. u = q
      BY <2>2
    <3>2. Orderly(o, q) => Orderly(p, q)
      BY <1>2 DEF Orderly
    <3> HIDE DEF u, o, p, r, q
    <3> QED BY <1>1, <3>1, <3>2
  <2> QED BY <2>1, <2>2
<1>4. /\ S.inn[s] = q /\ S.out[s] = o
  OBVIOUS
<1>5. T = [S EXCEPT !.out[s] = p, !.inn[s] = u]
  BY DEF States
<1> HIDE DEF o, p, r, q, u, T
<1>6. /\ T \in States /\ T.c = S.c /\ T.ready = S.ready /\ T.handler = S.handler
      /\ T.boundTo = S.boundTo /\ T.happened = S.happened
      /\ T.out = [S.out EXCEPT ![s] = p]
      /\ T.inn = [S.inn EXCEPT ![s] = u]
  BY <1>2, <1>3, <1>5 DEF States
<1>7. \A t \in Socket : /\ T.out[t] = IF t = s THEN p ELSE S.out[t]
                        /\ T.inn[t] = IF t = s THEN u ELSE S.inn[t]
  BY <1>6 DEF States
<1>8. \A t \in Socket : Carries(T.out[t], T.inn[t]) \subseteq Carries(S.out[t], S.inn[t])
  BY <1>2, <1>3, <1>4, <1>7 DEF Carries
<1>9. Issued(S, K) /\ Sockets(S) /\ QueueWaits(S) /\ Apart(S) /\ Once(S.c.pending)
  BY DEF Struct
<1>10. Struct(T, K)
  <2>1. Sockets(T) /\ QueueWaits(T)
    BY <1>6, <1>9 DEF Sockets, QueueWaits
  <2>2. Issued(T, K)
    BY <1>6, <1>8, <1>9 DEF Issued
  <2>3. Apart(T)
    BY <1>6, <1>8, <1>9 DEF Apart
  <2> QED BY <1>6, <1>9, <2>1, <2>2, <2>3 DEF Struct
<1>11. \A iss, tk : Account(S, iss, tk) => Account(T, iss, tk) /\ S.boundTo[s] = iss[r]
  <2> SUFFICES ASSUME NEW iss, NEW tk, Account(S, iss, tk)
               PROVE  Account(T, iss, tk) /\ S.boundTo[s] = iss[r]
    OBVIOUS
  <2>1. S.boundTo[s] = iss[r]
    BY <1>2, <1>4 DEF Account
  <2>2. \A t \in Socket : Elems(T.out[t]) \subseteq Elems(S.out[t])
    BY <1>2, <1>4, <1>7
  <2> QED BY <1>6, <2>1, <2>2 DEF Account
<1>12. ASSUME Clean(S) PROVE Clean(T)
  <2>1. InUse(T.c) = InUse(S.c) /\ DrainedCalls(T) = DrainedCalls(S)
    BY <1>6 DEF DrainedCalls
  <2>2. OneDrain(T) /\ (NoDrain(T) <=> NoDrain(S))
    BY <1>6, <1>12 DEF Clean, OneDrain, NoDrain
  <2>3. \A t \in Socket : T.handler[t] # "off" => Orderly(T.out[t], T.inn[t])
    BY <1>3, <1>4, <1>6, <1>7, <1>12 DEF Clean
  <2> QED BY <1>6, <1>8, <1>12, <2>1, <2>2, <2>3 DEF Clean
<1>13. Calm(S) => Calm(T)
  BY <1>6 DEF Calm, OneDrain, DrainedCalls
<1>14. r \in K
  BY <1>2, <1>4, <1>9 DEF Issued, Carries
<1> QED BY <1>2, <1>6, <1>10, <1>11, <1>12, <1>13, <1>14 DEF T, r, p, u

\* The state after ServerCloses.
IsClosing(S, s) ==
  [S EXCEPT !.ready[s] = "closing"]

\* The server closes a socket.
LEMMA ServerClosesOf ==
    ASSUME NEW S \in States, NEW s \in Socket, S.ready[s] = "open", NEW K, Struct(S, K)
    PROVE  LET T == IsClosing(S, s) IN
           /\ T \in States /\ Struct(T, K)
           /\ Opening(S) => Opening(T)
           /\ T.c = S.c /\ T.happened = S.happened
           /\ \A iss, tk : Account(S, iss, tk) => Account(T, iss, tk)
           /\ Clean(S) => Clean(T)
           /\ Calm(S) => Calm(T)
<1> USE DEF IsClosing
<1> DEFINE T == IsClosing(S, s)
<1>1. /\ T \in States
      /\ T.c = S.c /\ T.ready = [S.ready EXCEPT ![s] = "closing"] /\ T.handler = S.handler
      /\ T.boundTo = S.boundTo /\ T.out = S.out /\ T.inn = S.inn /\ T.happened = S.happened
  BY DEF States
<1> HIDE DEF T
<1>2. \A t \in Socket : T.ready[t] = IF t = s THEN "closing" ELSE S.ready[t]
  BY <1>1 DEF States
<1>3. Issued(S, K) /\ Sockets(S) /\ QueueWaits(S) /\ Apart(S) /\ Once(S.c.pending)
  BY DEF Struct
<1>4. S.c.ws \in Socket \cup {0}
  BY DEF States, Clients
<1>5. Sockets(T)
  BY <1>1, <1>2, <1>3 DEF Sockets
<1>6. QueueWaits(T)
  BY <1>1, <1>2, <1>3, <1>4 DEF QueueWaits
<1>7. Issued(T, K) /\ Apart(T)
  BY <1>1, <1>3 DEF Issued, Apart
<1>8. Opening(S) => Opening(T)
  BY <1>1, <1>2, <1>4 DEF Opening
<1>9. Struct(T, K)
  BY <1>1, <1>3, <1>5, <1>6, <1>7 DEF Struct
<1>10. \A iss, tk : Account(S, iss, tk) => Account(T, iss, tk)
  BY <1>1 DEF Account
<1>11. InUse(T.c) = InUse(S.c) /\ DrainedCalls(T) = DrainedCalls(S)
  BY <1>1 DEF DrainedCalls
<1>12. (OneDrain(T) <=> OneDrain(S)) /\ (NoDrain(T) <=> NoDrain(S))
  BY <1>1 DEF OneDrain, NoDrain
<1>13. Clean(S) => Clean(T)
  BY <1>1, <1>11, <1>12 DEF Clean
<1>14. Calm(S) => Calm(T)
  BY <1>1, <1>11, <1>12 DEF Calm
<1> QED BY <1>1, <1>8, <1>9, <1>10, <1>13, <1>14 DEF T

\* A socket has ended, and the calls of gone are rejected.
Ended(S, U, s, gone) ==
  /\ Elems(U.c.pending) = Elems(S.c.pending) \ gone
  /\ Once(S.c.pending) => Once(U.c.pending)
  /\ U.c.queue = S.c.queue /\ U.c.connToken = S.c.connToken /\ U.c.boot = S.c.boot
  /\ U.boundTo = S.boundTo
  /\ \A t \in Socket : /\ U.ready[t] = IF t = s THEN "closed" ELSE S.ready[t]
                       /\ U.handler[t] = IF t = s THEN "off" ELSE S.handler[t]
                       /\ U.out[t] = IF t = s THEN <<>> ELSE S.out[t]
                       /\ U.inn[t] = IF t = s THEN <<>> ELSE S.inn[t]
  /\ S.happened \subseteq U.happened
  /\ gone \cap Elems(S.c.queue) # {} => "ghost" \in U.happened

\* The state after the part of Closes that both kinds of sockets share.
HasEnded(S, s, gone) ==
  LET G == Note(S, "ghost", gone \cap Elems(S.c.queue) # {})
  IN [G EXCEPT !.ready[s] = "closed", !.handler[s] = "off",
               !.out[s] = <<>>, !.inn[s] = <<>>, !.c.pending = Without(@, gone)]

LEMMA EndedOf ==
    ASSUME NEW S \in States, NEW s \in Socket, NEW gone
    PROVE  LET U == HasEnded(S, s, gone) IN
           /\ U \in States /\ Ended(S, U, s, gone)
           /\ U.c.ws = S.c.ws /\ U.c.connecting = S.c.connecting
           /\ U.c.draining = S.c.draining /\ U.c.drainOf = S.c.drainOf
<1> DEFINE cond == gone \cap Elems(S.c.queue) # {}
           G == Note(S, "ghost", cond)
           p == Without(S.c.pending, gone)
           U == HasEnded(S, s, gone)
<1>1. S.c.pending \in Seq(Rpc)
  BY DEF States, Clients
<1>2. /\ p \in Seq(Rpc) /\ Elems(p) = Elems(S.c.pending) \ gone
      /\ Once(S.c.pending) => Once(p)
  BY <1>1, WithoutOf
<1>3. /\ G \in States /\ G.c = S.c /\ S.happened \subseteq G.happened
      /\ cond => "ghost" \in G.happened
      /\ G.ready = S.ready /\ G.handler = S.handler /\ G.boundTo = S.boundTo
      /\ G.out = S.out /\ G.inn = S.inn
  <2>1. "ghost" \in Troubles
    BY DEF Troubles
  <2> HIDE DEF cond
  <2> QED BY <2>1 DEF Note, States
<1> HIDE DEF cond, G
<1>4. U = [G EXCEPT !.ready[s] = "closed", !.handler[s] = "off",
                    !.out[s] = <<>>, !.inn[s] = <<>>, !.c.pending = p]
  BY <1>3 DEF G, cond, HasEnded
<1> HIDE DEF p, U
<1>5. <<>> \in Seq(Rpc) /\ <<>> \in Seq(Frame)
  OBVIOUS
<1>6. U.c = [S.c EXCEPT !.pending = p] /\ U.boundTo = S.boundTo /\ U.happened = G.happened
  BY <1>3, <1>4 DEF States
<1>7. U.c \in Clients
  BY <1>2, <1>6 DEF States, Clients
<1>8. U \in States
  <2>1. \A a, b, d, e, f : /\ a \in Clients
                             /\ b \in [Socket -> {"connecting", "open", "closing", "closed"}]
                             /\ d \in [Socket -> {"live", "drain", "off"}]
                             /\ e \in [Socket -> Seq(Rpc)] /\ f \in [Socket -> Seq(Frame)]
            => [G EXCEPT !.c = a, !.ready = b, !.handler = d, !.out = e, !.inn = f] \in States
    BY <1>3 DEF States
  <2>2. U = [G EXCEPT !.c = [S.c EXCEPT !.pending = p], !.ready = [S.ready EXCEPT ![s] = "closed"],
                      !.handler = [S.handler EXCEPT ![s] = "off"],
                      !.out = [S.out EXCEPT ![s] = <<>>], !.inn = [S.inn EXCEPT ![s] = <<>>]]
    BY <1>3, <1>4 DEF States
  <2>3. /\ [S.ready EXCEPT ![s] = "closed"] \in
                 [Socket -> {"connecting", "open", "closing", "closed"}]
        /\ [S.handler EXCEPT ![s] = "off"] \in [Socket -> {"live", "drain", "off"}]
        /\ [S.out EXCEPT ![s] = <<>>] \in [Socket -> Seq(Rpc)]
        /\ [S.inn EXCEPT ![s] = <<>>] \in [Socket -> Seq(Frame)]
    BY <1>5, FieldsOf
  <2> QED BY <1>6, <1>7, <2>1, <2>2, <2>3
<1>9. /\ U.c.pending = p /\ U.c.queue = S.c.queue /\ U.c.connToken = S.c.connToken
      /\ U.c.boot = S.c.boot /\ U.c.ws = S.c.ws /\ U.c.connecting = S.c.connecting
      /\ U.c.draining = S.c.draining /\ U.c.drainOf = S.c.drainOf
  BY <1>2, <1>6 DEF States, Clients
<1>10. \A t \in Socket : /\ U.ready[t] = IF t = s THEN "closed" ELSE S.ready[t]
                         /\ U.handler[t] = IF t = s THEN "off" ELSE S.handler[t]
                         /\ U.out[t] = IF t = s THEN <<>> ELSE S.out[t]
                         /\ U.inn[t] = IF t = s THEN <<>> ELSE S.inn[t]
  BY <1>3, <1>4 DEF States
<1>11. Ended(S, U, s, gone)
  BY <1>2, <1>3, <1>6, <1>9, <1>10 DEF Ended, cond
<1> QED BY <1>8, <1>9, <1>11 DEF U

\* The socket in use ends: every pending call is rejected.
LEMMA ClosesLive ==
    ASSUME NEW S \in States, NEW T \in States, NEW s \in Socket, S.handler[s] = "live",
           NEW K, Struct(S, K),
           Ended(S, T, s, Elems(S.c.pending)),
           T.c.ws = 0, ~T.c.connecting, T.c.draining = S.c.draining, T.c.drainOf = S.c.drainOf,
           DrainedCalls(S) # {} => "dropped" \in T.happened
    PROVE  /\ Struct(T, K) /\ Opening(T)
           /\ \A iss, tk : Account(S, iss, tk) => Account(T, iss, tk)
           /\ Clean(S) => "ghost" \in T.happened \/ (Clean(T) /\ T.c.queue = <<>>)
           /\ Calm(S) => Calm(T) \/ "dropped" \in T.happened
<1>1. Issued(S, K) /\ Sockets(S) /\ QueueWaits(S) /\ Apart(S) /\ Once(S.c.pending)
  BY DEF Struct
<1>2. S.c.ws = s
  BY <1>1 DEF Sockets
<1>3. /\ Elems(T.c.pending) = {} /\ Once(T.c.pending) /\ T.c.queue = S.c.queue
      /\ T.boundTo = S.boundTo /\ T.c.connToken = S.c.connToken
      /\ \A t \in Socket : /\ T.ready[t] = IF t = s THEN "closed" ELSE S.ready[t]
                           /\ T.handler[t] = IF t = s THEN "off" ELSE S.handler[t]
                           /\ T.out[t] = IF t = s THEN <<>> ELSE S.out[t]
                           /\ T.inn[t] = IF t = s THEN <<>> ELSE S.inn[t]
  BY <1>1 DEF Ended
<1>4. \A t \in Socket : Carries(T.out[t], T.inn[t]) \subseteq Carries(S.out[t], S.inn[t])
  BY <1>3, NothingCarried
<1>5. Sockets(T)
  BY <1>1, <1>2, <1>3, SocketNumbers DEF Sockets
<1>6. QueueWaits(T) /\ Opening(T)
  BY DEF QueueWaits, Opening
<1>7. Issued(T, K)
  BY <1>1, <1>3, <1>4 DEF Issued
<1>8. Apart(T)
  BY <1>1, <1>3, <1>4 DEF Apart
<1>9. Struct(T, K)
  BY <1>3, <1>5, <1>6, <1>7, <1>8 DEF Struct
<1>10. \A iss, tk : Account(S, iss, tk) => Account(T, iss, tk)
  BY <1>3, ElemsEmpty DEF Account
<1>11. InUse(T.c) = {} /\ DrainedCalls(T) = {}
  BY <1>3 DEF InUse, DrainedCalls
<1>12. \A t \in Socket : T.handler[t] # "off" =>
         T.out[t] = S.out[t] /\ T.inn[t] = S.inn[t] /\ T.handler[t] = S.handler[t] /\ t # s
  BY <1>3
<1>13. ASSUME Clean(S), "ghost" \notin T.happened PROVE Clean(T) /\ T.c.queue = <<>>
  <2>1. Elems(S.c.queue) \subseteq Elems(S.c.pending)
    BY <1>13 DEF Clean, InUse
  <2>2. Elems(S.c.queue) = {}
    BY <1>13, <2>1 DEF Ended
  <2>3. T.c.queue = <<>>
    <3>1. S.c.queue \in Seq(Rpc)
      BY DEF States, Clients
    <3> QED BY <1>3, <2>2, <3>1, ElemsIn
  <2>4. OneDrain(T)
    BY <1>12, <1>13 DEF Clean, OneDrain
  <2>5. \A t \in Socket : T.handler[t] # "live"
    BY <1>1, <1>2, <1>12 DEF Sockets
  <2>6. Alone(InUse(T.c)) /\ Alone(DrainedCalls(T))
    BY <1>11 DEF Alone
  <2>7. \A t \in Socket : T.handler[t] # "off" => Orderly(T.out[t], T.inn[t])
    BY <1>12, <1>13 DEF Clean
  <2>8. \A t \in Socket : T.handler[t] = "drain" => T.c.drainOf[t] \subseteq T.c.draining
    BY <1>12, <1>13 DEF Clean
  <2>9. Elems(T.c.queue) \subseteq InUse(T.c) /\ Once(T.c.queue)
    BY <2>3, ElemsEmpty DEF Once
  <2> QED BY <1>11, <2>3, <2>4, <2>5, <2>6, <2>7, <2>8, <2>9 DEF Clean
<1>14. ASSUME Calm(S), "dropped" \notin T.happened PROVE Calm(T)
  <2>1. NoDrain(S)
    BY <1>14 DEF Calm, NoDrain
  <2>2. NoDrain(T)
    BY <1>3, <2>1 DEF NoDrain
  <2> QED BY <2>2 DEF Calm, NoDrain, OneDrain
<1> QED BY <1>6, <1>9, <1>10, <1>13, <1>14

\* A draining socket ends: its own calls are rejected.
LEMMA ClosesDrain ==
    ASSUME NEW S \in States, NEW T \in States, NEW s \in Socket, S.handler[s] = "drain",
           NEW K, Struct(S, K),
           Ended(S, T, s, S.c.drainOf[s] \cap Elems(S.c.pending)),
           T.c.ws = S.c.ws, T.c.connecting = S.c.connecting,
           T.c.draining = S.c.draining \ S.c.drainOf[s],
           \A t \in Socket : T.c.drainOf[t] = IF t = s THEN {} ELSE S.c.drainOf[t]
    PROVE  /\ Struct(T, K) /\ (Opening(S) => Opening(T))
           /\ \A iss, tk : Account(S, iss, tk) => Account(T, iss, tk)
           /\ Clean(S) => Clean(T)
           /\ Calm(S) => Calm(T)
<1> DEFINE gone == S.c.drainOf[s] \cap Elems(S.c.pending)
<1>1. Issued(S, K) /\ Sockets(S) /\ QueueWaits(S) /\ Apart(S) /\ Once(S.c.pending)
  BY DEF Struct
<1>2. S.c.ws # s /\ S.c.ws \in Socket \cup {0}
  BY <1>1 DEF Sockets, States, Clients
<1>3. /\ Elems(T.c.pending) = Elems(S.c.pending) \ gone /\ Once(T.c.pending)
      /\ T.c.queue = S.c.queue
      /\ T.boundTo = S.boundTo /\ T.c.connToken = S.c.connToken
      /\ \A t \in Socket : /\ T.ready[t] = IF t = s THEN "closed" ELSE S.ready[t]
                           /\ T.handler[t] = IF t = s THEN "off" ELSE S.handler[t]
                           /\ T.out[t] = IF t = s THEN <<>> ELSE S.out[t]
                           /\ T.inn[t] = IF t = s THEN <<>> ELSE S.inn[t]
  BY <1>1 DEF Ended
<1>4. \A t \in Socket : Carries(T.out[t], T.inn[t]) \subseteq Carries(S.out[t], S.inn[t])
  BY <1>3, NothingCarried
<1>5. Sockets(T)
  BY <1>1, <1>2, <1>3 DEF Sockets
<1>6. QueueWaits(T) /\ (Opening(S) => Opening(T))
  BY <1>1, <1>2, <1>3 DEF QueueWaits, Opening
<1>7. Issued(T, K)
  BY <1>1, <1>3, <1>4 DEF Issued
<1>8. Apart(T)
  BY <1>1, <1>3, <1>4 DEF Apart
<1>9. Struct(T, K)
  BY <1>3, <1>5, <1>6, <1>7, <1>8 DEF Struct
<1>10. \A iss, tk : Account(S, iss, tk) => Account(T, iss, tk)
  BY <1>3, ElemsEmpty DEF Account
<1>11. \A t \in Socket : T.handler[t] # "off" =>
         T.out[t] = S.out[t] /\ T.inn[t] = S.inn[t] /\ T.handler[t] = S.handler[t] /\ t # s
  BY <1>3
<1>12. OneDrain(S) => NoDrain(T)
  BY <1>11 DEF OneDrain, NoDrain
<1>13. ASSUME Clean(S) PROVE Clean(T)
  <2>1. NoDrain(T) /\ OneDrain(T)
    BY <1>12, <1>13 DEF Clean, NoDrain, OneDrain
  <2>2. DrainedCalls(T) = {}
    BY <1>3, <1>13 DEF Clean, DrainedCalls
  <2>3. InUse(T.c) = InUse(S.c)
    <3>1. S.c.drainOf[s] \subseteq S.c.draining
      BY <1>13 DEF Clean
    <3> QED BY <1>3, <3>1 DEF InUse
  <2>4. \A t \in Socket : T.handler[t] # "off" => Orderly(T.out[t], T.inn[t])
    BY <1>11, <1>13 DEF Clean
  <2>5. \A t \in Socket : T.handler[t] = "live" => Carries(T.out[t], T.inn[t]) \subseteq InUse(T.c)
    BY <1>11, <1>13, <2>3 DEF Clean
  <2>6. Alone(InUse(T.c)) /\ Alone(DrainedCalls(T))
    BY <1>13, <2>2, <2>3 DEF Clean, Alone
  <2> QED BY <1>3, <1>13, <2>1, <2>2, <2>3, <2>4, <2>5, <2>6 DEF Clean, NoDrain
<1>14. ASSUME Calm(S) PROVE Calm(T)
  BY <1>12, <1>14 DEF Calm, NoDrain, OneDrain
<1> QED BY <1>6, <1>9, <1>10, <1>13, <1>14

(* Part 4.  The invariant of the specification, action by action. *)

Heard == {r \in Rpc : result[r] # "none"}

TypeInv ==
  /\ State \in States /\ token \in Token
  /\ result \in [Rpc -> {"none", "waiting", "own", "other", "rejected"}]
  /\ issuedAs \in [Rpc -> Token \cup {0}] /\ ranAs \in [Rpc -> Token \cup {0}]
  /\ ends \in 0..MaxEnds

(* No two calls, sockets or tables disagree on where a call is. *)
StructInv == Struct(State, Heard) /\ Opening(State) /\ \A r \in Rpc : result[r] = "none" => ranAs[r] = 0

AccountInv ==
  "carried" \in happened
    \/ (Account(State, issuedAs, token) /\ \A r \in Rpc : ranAs[r] \in {0, issuedAs[r]})

BootInv == BootstrapIsOurs

CleanInv ==
  happened \cap {"mixed", "twice", "ghost"} # {}
    \/ (Clean(State) /\ (client.queue # <<>> => client.ws # 0) /\ \A r \in Rpc : result[r] # "other")

CalmInv == happened \cap {"twice", "dropped"} # {} \/ Calm(State)

Inv == TypeInv /\ StructInv /\ AccountInv /\ BootInv /\ CleanInv /\ CalmInv

\* The next state, when an action makes the state S of the internal functions it.
LEMMA Reached ==
    ASSUME NEW T \in States,
           client' = T.c, ready' = T.ready, handler' = T.handler, boundTo' = T.boundTo,
           out' = T.out, inn' = T.inn, happened' = T.happened
    PROVE  State' = T
BY FieldsOf DEF State

LEMMA Steady ==
    ASSUME Inv, NEW T \in States, State' = T, ends' \in 0..MaxEnds,
           UNCHANGED <<token, calls>>, Struct(T, Heard), Opening(T),
           T.c.boot \in {0, T.c.connToken} \/ "reused" \in T.happened,
           happened \subseteq T.happened,
           Account(State, issuedAs, token) => Account(T, issuedAs, token),
           Clean(State) => Clean(T) \/ T.happened \cap {"mixed", "twice", "ghost"} # {},
           T.c.queue # <<>> => T.c.ws # 0 \/ (T.c.queue = client.queue /\ T.c.ws = client.ws),
           Calm(State) => Calm(T) \/ T.happened \cap {"twice", "dropped"} # {}
    PROVE  Inv'
<1>1. /\ client' = T.c /\ happened' = T.happened
      /\ token' = token /\ result' = result /\ issuedAs' = issuedAs /\ ranAs' = ranAs
  BY DEF State, calls
<1>2. Heard' = Heard
  BY <1>1 DEF Heard
<1>3. TypeInv'
  BY <1>1 DEF Inv, TypeInv
<1>4. StructInv'
  BY <1>1, <1>2 DEF Inv, StructInv
<1>5. AccountInv'
  BY <1>1 DEF Inv, AccountInv
<1>6. BootInv'
  BY <1>1 DEF BootInv, BootstrapIsOurs
<1>7. CleanInv'
  BY <1>1 DEF Inv, CleanInv
<1>8. CalmInv'
  BY <1>1 DEF Inv, CalmInv
<1> QED BY <1>3, <1>4, <1>5, <1>6, <1>7, <1>8 DEF Inv

LEMMA StateFields ==
    /\ State.c = client /\ State.ready = ready /\ State.handler = handler
    /\ State.boundTo = boundTo /\ State.out = out /\ State.inn = inn
    /\ State.happened = happened
BY DEF State

LEMMA InvFacts ==
    ASSUME Inv
    PROVE  /\ State \in States /\ token \in Token /\ Struct(State, Heard) /\ Opening(State)
           /\ client \in Clients /\ StillFree(State) /\ ends \in 0..MaxEnds
           /\ client.boot \in {0, client.connToken} \/ "reused" \in happened
<1>1. client \in Clients
  BY FieldsOf, StateFields DEF Inv, TypeInv
<1>2. StillFree(State)
  BY StateFields DEF StillFree, Free
<1> QED BY <1>1, <1>2 DEF Inv, TypeInv, StructInv, BootInv, BootstrapIsOurs

LEMMA InitInv ==
    ASSUME Init
    PROVE  Inv
<1> USE DEF Init
<1>1. 1 \in Socket /\ 1 \in Token
  BY ClientAssumption DEF Socket, Token
<1>2. State \in States
  <2>1. <<>> \in Seq(Rpc) /\ <<>> \in Seq(Frame) /\ {} \in SUBSET Rpc /\ {} \in SUBSET Troubles
    OBVIOUS
  <2>2. client \in Clients
    BY <1>1, <2>1 DEF Clients
  <2>3. /\ ready \in [Socket -> {"connecting", "open", "closing", "closed"}]
        /\ handler \in [Socket -> {"live", "drain", "off"}] /\ boundTo \in [Socket -> Token]
        /\ out \in [Socket -> Seq(Rpc)] /\ inn \in [Socket -> Seq(Frame)]
        /\ happened \in SUBSET Troubles
    BY <1>1, <2>1
  <2> QED BY <2>2, <2>3 DEF State, States
<1>3. TypeInv
  BY <1>1, <1>2, ClientAssumption DEF TypeInv
<1>4. /\ client.ws = 1 /\ client.connecting /\ client.connToken = 1 /\ client.pending = <<>>
      /\ client.draining = {} /\ client.queue = <<>> /\ client.boot = 0
      /\ \A s \in Socket : client.drainOf[s] = {}
  OBVIOUS
<1>5. \A s \in Socket : /\ ready[s] = IF s = 1 THEN "connecting" ELSE "closed"
                        /\ handler[s] = IF s = 1 THEN "live" ELSE "off"
                        /\ boundTo[s] = 1 /\ out[s] = <<>> /\ inn[s] = <<>>
  OBVIOUS
<1>6. \A r \in Rpc : result[r] = "none" /\ ranAs[r] = 0 /\ issuedAs[r] = 0
  OBVIOUS
<1>7. StructInv
  <2>1. Sockets(State)
    BY <1>4, <1>5, StateFields DEF Sockets
  <2>2. QueueWaits(State)
    BY <1>4, StateFields DEF QueueWaits
  <2>3. Issued(State, Heard) /\ Apart(State)
    BY <1>4, <1>5, StateFields, ElemsEmpty, NothingCarried DEF Issued, Apart
  <2>4. Opening(State)
    BY <1>1, <1>4, <1>5, StateFields DEF Opening
  <2>5. Once(State.c.pending)
    BY <1>4, StateFields DEF Once
  <2> QED BY <1>6, <2>1, <2>2, <2>3, <2>4, <2>5 DEF StructInv, Struct
<1>8. AccountInv
  BY <1>4, <1>5, <1>6, StateFields, ElemsEmpty DEF AccountInv, Account
<1>9. InUse(client) = {} /\ DrainedCalls(State) = {}
  BY <1>4, StateFields, ElemsEmpty DEF InUse, DrainedCalls
<1>10. NoDrain(State) /\ OneDrain(State)
  BY <1>5, StateFields DEF NoDrain, OneDrain
<1>11. Clean(State)
  <2>1. \A s \in Socket : /\ Orderly(State.out[s], State.inn[s])
                           /\ Carries(State.out[s], State.inn[s]) = {}
                           /\ State.handler[s] # "drain"
    BY <1>5, StateFields, NothingCarried
  <2>2. InUse(State.c) = {} /\ DrainedCalls(State) = {}
    BY <1>9, StateFields
  <2>3. Elems(State.c.queue) = {} /\ Once(State.c.queue)
    BY <1>4, StateFields, ElemsEmpty DEF Once
  <2>4. Alone({})
    BY DEF Alone
  <2> QED BY <1>10, <2>1, <2>2, <2>3, <2>4 DEF Clean
<1>12. CleanInv /\ CalmInv /\ BootInv
  BY <1>4, <1>6, <1>10, <1>11, StateFields
     DEF CleanInv, CalmInv, BootInv, BootstrapIsOurs, Calm, NoDrain
<1> QED BY <1>3, <1>7, <1>8, <1>12 DEF Inv

LEMMA ChangeTokenInv ==
    ASSUME Inv, ChangeToken
    PROVE  Inv'
<1> DEFINE T == Note(State, "carried", client.queue # <<>>)
<1>1. /\ T \in States /\ Alike(State, T) /\ T.c = client /\ happened \subseteq T.happened
      /\ client.queue # <<>> => "carried" \in T.happened
  <2>1. "carried" \in Troubles
    BY DEF Troubles
  <2> DEFINE cond == client.queue # <<>>
  <2> HIDE DEF cond
  <2>2. LET U == Note(State, "carried", cond) IN
           /\ U \in States /\ Alike(State, U) /\ U.c = State.c /\ State.happened \subseteq U.happened
           /\ cond => "carried" \in U.happened
    BY <2>1, InvFacts, NoteOf
  <2> QED BY <2>2, StateFields DEF cond
<1>2. T.happened = IF client.queue # <<>> THEN happened \cup {"carried"} ELSE happened
  BY StateFields DEF Note, State
<1> HIDE DEF T
<1>3. State' = T
  BY <1>1, <1>2, Reached, StateFields DEF ChangeToken, Alike
<1>4. token' \in Token /\ token' = token + 1
  BY InvFacts, ClientAssumption DEF ChangeToken, Token
<1>5. /\ client' = client /\ result' = result /\ issuedAs' = issuedAs /\ ranAs' = ranAs
      /\ ends' = ends /\ happened' = T.happened
  BY <1>2, StateFields DEF ChangeToken, calls
<1>6. Heard' = Heard
  BY <1>5 DEF Heard
<1>7. /\ Struct(T, Heard) /\ Opening(T)
      /\ Account(State, issuedAs, token) => Account(T, issuedAs, token)
      /\ Clean(State) => Clean(T)
      /\ Calm(State) => Calm(T)
  <2>1. Struct(State, Heard) /\ Opening(State)
    BY InvFacts
  <2>2. Opening(T)
    BY <1>1, <2>1, StateFields DEF Alike, Opening
  <2>3. Alike(State, T)
    BY <1>1
  <2>4. /\ Struct(State, Heard) => Struct(T, Heard)
        /\ Account(State, issuedAs, token) => Account(T, issuedAs, token)
        /\ Clean(State) => Clean(T)
        /\ Calm(State) => Calm(T)
    BY <2>3, AlikeKeeps
  <2> QED BY <2>1, <2>2, <2>4
<1>8. TypeInv'
  BY <1>1, <1>3, <1>4, <1>5 DEF Inv, TypeInv
<1>9. StructInv'
  BY <1>3, <1>5, <1>6, <1>7 DEF Inv, StructInv
<1>10. AccountInv'
  <2>1. CASE client.queue # <<>> \/ "carried" \in happened
    BY <1>1, <1>5, <2>1 DEF AccountInv
  <2>2. CASE client.queue = <<>> /\ "carried" \notin happened
    <3>1. Account(T, issuedAs, token) /\ \A r \in Rpc : ranAs[r] \in {0, issuedAs[r]}
      BY <1>7, <2>2 DEF Inv, AccountInv
    <3>2. Account(T, issuedAs, token')
      BY <1>1, <2>2, <3>1, ElemsEmpty DEF Account
    <3> QED BY <1>3, <1>5, <3>1, <3>2 DEF AccountInv
  <2> QED BY <2>1, <2>2
<1>11. BootInv'
  BY <1>1, <1>5 DEF Inv, BootInv, BootstrapIsOurs
<1>12. CleanInv'
  BY <1>1, <1>3, <1>5, <1>7 DEF Inv, CleanInv
<1>13. CalmInv'
  BY <1>1, <1>3, <1>5, <1>7 DEF Inv, CalmInv
<1> QED BY <1>8, <1>9, <1>10, <1>11, <1>12, <1>13 DEF Inv

LEMMA TimerFiresInv ==
    ASSUME Inv, TimerFires
    PROVE  Inv'
<1> DEFINE S == [State EXCEPT !.c.timer = FALSE]
           C == Connect(S)
           cond == C.c.connToken # client.connToken /\ client.boot # 0
           T == Note(C, "reused", cond)
<1>1. S \in States /\ Alike(State, S) /\ S.c.connecting = client.connecting /\ S.c.boot = client.boot
      /\ S.happened = happened
  BY InvFacts, StateFields DEF States, Clients, Alike
<1> HIDE DEF S
<1>2. /\ Struct(S, Heard) /\ StillFree(S) /\ Opening(S)
      /\ Account(State, issuedAs, token) => Account(S, issuedAs, token)
      /\ Clean(State) => Clean(S)
      /\ Calm(State) => Calm(S)
  <2>1. Opening(S)
    BY <1>1, InvFacts, StateFields DEF Alike, Opening
  <2> QED BY <1>1, <2>1, InvFacts, AlikeKeeps
<1>3. C \in States /\ (C = S \/ \E n \in Socket : Opened(S, C, n, token))
  <2>1. Sockets(S)
    BY <1>2 DEF Struct
  <2> QED BY <1>1, <1>2, <2>1, InvFacts, ConnectOf DEF TimerFires
<1> HIDE DEF C
<1>4. /\ Struct(C, Heard) /\ Opening(C)
      /\ Account(S, issuedAs, token) => Account(C, issuedAs, token)
      /\ Clean(S) => Clean(C)
      /\ Calm(S) => Calm(C)
      /\ C.c.boot = client.boot /\ S.happened \subseteq C.happened
      /\ C.c.ws # 0 \/ (C.c.queue = client.queue /\ C.c.ws = client.ws)
  <2>1. CASE C = S
    BY <1>1, <1>2, <2>1, StateFields DEF Alike
  <2>2. CASE \E n \in Socket : Opened(S, C, n, token)
    <3>1. PICK tk \in Token : tk = token
      BY InvFacts
    <3>2. PICK n \in Socket : Opened(S, C, n, tk)
      BY <2>2, <3>1
    <3>3. Sockets(S)
      BY <1>2 DEF Struct
    <3>4. /\ Struct(C, Heard)
          /\ Account(S, issuedAs, tk) => Account(C, issuedAs, tk)
          /\ Clean(S) => Clean(C)
          /\ Calm(S) => Calm(C)
      BY <1>1, <1>2, <1>3, <3>2, <3>3, OpenedStruct, OpenedAccount, OpenedClean, OpenedCalm
    <3>5. /\ Opening(C) /\ C.c.ws # 0 /\ C.c.boot = S.c.boot /\ S.happened \subseteq C.happened
      BY <1>1, <1>3, <3>2, OpenedFields
    <3> QED BY <1>1, <3>1, <3>4, <3>5
  <2> QED BY <1>3, <2>1, <2>2
<1> HIDE DEF cond
<1>5. /\ T \in States /\ Alike(C, T) /\ T.c = C.c /\ C.happened \subseteq T.happened
      /\ cond => "reused" \in T.happened
  <2>1. "reused" \in Troubles
    BY DEF Troubles
  <2> QED BY <1>3, <2>1, NoteOf
<1>6. Becomes(T) /\ UNCHANGED <<token, calls, ends>>
  BY DEF TimerFires, T, cond, C, S
<1> HIDE DEF T
<1>7. State' = T
  BY <1>5, <1>6, Reached DEF Becomes
<1>8. /\ Struct(T, Heard) /\ Opening(T)
      /\ Account(C, issuedAs, token) => Account(T, issuedAs, token)
      /\ Clean(C) => Clean(T)
      /\ Calm(C) => Calm(T)
  <2>1. Opening(T)
    BY <1>4, <1>5 DEF Alike, Opening
  <2> QED BY <1>4, <1>5, <2>1, AlikeKeeps
<1>9. T.c.boot \in {0, T.c.connToken} \/ "reused" \in T.happened
  BY <1>1, <1>4, <1>5, InvFacts DEF cond
<1>10. happened \subseteq T.happened /\ ends' \in 0..MaxEnds
  BY <1>1, <1>4, <1>5, <1>6, InvFacts
<1>11. T.c.queue # <<>> => T.c.ws # 0 \/ (T.c.queue = client.queue /\ T.c.ws = client.ws)
  BY <1>4, <1>5
<1>12. /\ Account(State, issuedAs, token) => Account(T, issuedAs, token)
       /\ Clean(State) => Clean(T)
       /\ Calm(State) => Calm(T)
  BY <1>2, <1>4, <1>8
<1> QED BY <1>5, <1>6, <1>7, <1>8, <1>9, <1>10, <1>11, <1>12, Steady

LEMMA RequestInv ==
    ASSUME Inv, NEW r \in Rpc, Request(r)
    PROVE  Inv'
<1> DEFINE F == EnsureAuthFresh(State)
           P == [F EXCEPT !.c.pending = Append(@, r)]
           N == Note(Send(Connect(P), r), "mixed", WouldMix(InUse(F.c), r))
           iss == [issuedAs EXCEPT ![r] = token]
<1>1. r \notin Heard /\ \E s \in Socket : Free(s)
  BY DEF Request, Heard
<1>2. issuedAs \in [Rpc -> Token \cup {0}] /\ ranAs \in [Rpc -> Token \cup {0}]
      /\ result \in [Rpc -> {"none", "waiting", "own", "other", "rejected"}]
  BY DEF Inv, TypeInv
<1>3. /\ N \in States /\ Struct(N, Heard \cup {r}) /\ Opening(N)
      /\ Account(State, issuedAs, token) => Account(N, iss, token)
      /\ Clean(State) => Clean(N) \/ "mixed" \in N.happened \/ "twice" \in N.happened
      /\ Calm(State) => Calm(N) \/ "twice" \in N.happened
      /\ N.c.ws # 0
      /\ N.c.boot = 0 \/ (N.c.boot = State.c.boot /\ N.c.connToken = State.c.connToken)
      /\ State.happened \subseteq N.happened
  BY <1>1, <1>2, InvFacts, RequestOf
<1>4. /\ Becomes(N) /\ result' = [result EXCEPT ![r] = "waiting"] /\ issuedAs' = iss
      /\ token' = token /\ ranAs' = ranAs /\ ends' = ends
  BY DEF Request, WouldMix
<1> HIDE DEF N
<1>5. State' = N /\ client' = N.c /\ happened' = N.happened
  <2>1. /\ client' = N.c /\ ready' = N.ready /\ handler' = N.handler /\ boundTo' = N.boundTo
        /\ out' = N.out /\ inn' = N.inn /\ happened' = N.happened
    BY <1>4 DEF Becomes
  <2> QED BY <1>3, <2>1, Reached
<1>6. Heard' = Heard \cup {r}
  BY <1>2, <1>4 DEF Heard
<1>7. \A q \in Rpc : /\ result'[q] = IF q = r THEN "waiting" ELSE result[q]
                     /\ iss[q] = IF q = r THEN token ELSE issuedAs[q]
  BY <1>2, <1>4
<1>8. TypeInv'
  <2>1. iss \in [Rpc -> Token \cup {0}]
    BY <1>2, InvFacts
  <2> QED BY <1>2, <1>3, <1>4, <1>5, <2>1, InvFacts DEF TypeInv
<1> HIDE DEF iss
<1>9. StructInv'
  BY <1>3, <1>4, <1>5, <1>6, <1>7 DEF Inv, StructInv
<1>10. AccountInv'
  <2>1. CASE "carried" \in happened
    BY <1>3, <1>5, <2>1, StateFields DEF AccountInv
  <2>2. CASE "carried" \notin happened
    <3>1. Account(State, issuedAs, token) /\ \A q \in Rpc : ranAs[q] \in {0, issuedAs[q]}
      BY <2>2 DEF Inv, AccountInv
    <3>2. \A q \in Rpc : ranAs[q] \in {0, iss[q]}
      BY <1>7, <3>1 DEF Inv, StructInv, Request
    <3> QED BY <1>3, <1>4, <1>5, <3>1, <3>2 DEF AccountInv
  <2> QED BY <2>1, <2>2
<1>11. BootInv'
  BY <1>3, <1>5, StateFields DEF Inv, BootInv, BootstrapIsOurs
<1>12. CleanInv'
  <2>1. CASE happened \cap {"mixed", "twice", "ghost"} # {}
    BY <1>3, <1>5, <2>1, StateFields DEF CleanInv
  <2>2. CASE happened \cap {"mixed", "twice", "ghost"} = {}
    <3>1. Clean(State) /\ \A q \in Rpc : result[q] # "other"
      BY <2>2 DEF Inv, CleanInv
    <3>2. \A q \in Rpc : result'[q] # "other"
      BY <1>7, <3>1
    <3> QED BY <1>3, <1>5, <3>1, <3>2 DEF CleanInv
  <2> QED BY <2>1, <2>2
<1>13. CalmInv'
  BY <1>3, <1>5, StateFields DEF Inv, CalmInv
<1> QED BY <1>8, <1>9, <1>10, <1>11, <1>12, <1>13 DEF Inv

LEMMA OpensInv ==
    ASSUME Inv, NEW s \in Socket, Opens(s)
    PROVE  Inv'
<1>1. PICK q \in Pushes : inn' = [inn EXCEPT ![s] = q]
  BY DEF Opens, Pushes
<1> DEFINE T == HasOpened(State, s, q)
<1>2. State \in States /\ Struct(State, Heard) /\ State.ready[s] = "connecting"
  BY InvFacts, StateFields DEF Opens
<1>3. /\ T \in States /\ Struct(T, Heard) /\ Opening(T)
      /\ T.c.queue = <<>> /\ T.c.boot = State.c.boot /\ T.c.connToken = State.c.connToken
      /\ T.happened = State.happened
      /\ Account(State, issuedAs, token) => Account(T, issuedAs, token)
      /\ Clean(State) => Clean(T)
      /\ Calm(State) => Calm(T)
  BY <1>1, <1>2, OpensOf
<1>4. State' = T
  <2>1. /\ T.c = [State.c EXCEPT !.connecting = FALSE, !.queue = <<>>]
        /\ T.ready = [State.ready EXCEPT ![s] = "open"] /\ T.handler = State.handler
        /\ T.boundTo = State.boundTo /\ T.out = [State.out EXCEPT ![s] = State.c.queue]
        /\ T.inn = [State.inn EXCEPT ![s] = q] /\ T.happened = State.happened
    BY <1>2 DEF HasOpened, States
  <2> HIDE DEF T
  <2> QED BY <1>1, <1>3, <2>1, Reached, StateFields DEF Opens
<1> HIDE DEF T
<1>5. UNCHANGED <<token, calls>> /\ ends' \in 0..MaxEnds
  BY InvFacts DEF Opens
<1>6. T.c.boot \in {0, T.c.connToken} \/ "reused" \in T.happened
  BY <1>3, InvFacts, StateFields
<1>7. happened \subseteq T.happened
  BY <1>3, StateFields
<1> QED BY <1>3, <1>4, <1>5, <1>6, <1>7, Steady

LEMMA ServerRunsInv ==
    ASSUME Inv, NEW s \in Socket, ServerRuns(s)
    PROVE  Inv'
<1> DEFINE r == Head(out[s])
<1>1. PICK a \in Answers(r) :
         inn' = [inn EXCEPT ![s] = IF ready[s] = "open" THEN @ \o a ELSE @]
  BY DEF ServerRuns
<1> DEFINE T == HasRun(State, s, a)
<1>2. State \in States /\ Struct(State, Heard) /\ State.out[s] # <<>> /\ r = Head(State.out[s])
  BY InvFacts, StateFields DEF ServerRuns
<1>3. /\ T \in States /\ Struct(T, Heard)
      /\ T.c = State.c /\ T.ready = State.ready /\ T.handler = State.handler
      /\ T.boundTo = State.boundTo /\ T.happened = State.happened
      /\ Account(State, issuedAs, token) =>
           Account(T, issuedAs, token) /\ State.boundTo[s] = issuedAs[r]
      /\ Clean(State) => Clean(T)
      /\ Calm(State) => Calm(T)
      /\ r \in Heard /\ r \in Rpc
  BY <1>1, <1>2, ServerRunsOf
<1>4. State' = T
  <2>1. T.out = [State.out EXCEPT ![s] = Tail(@)]
        /\ T.inn = [State.inn EXCEPT ![s] = IF State.ready[s] = "open" THEN @ \o a ELSE @]
    BY <1>2 DEF HasRun, States
  <2> HIDE DEF T
  <2> QED BY <1>1, <1>3, <2>1, Reached, StateFields DEF ServerRuns
<1> HIDE DEF T
<1>5. /\ ranAs' = [ranAs EXCEPT ![r] = boundTo[s]] /\ token' = token /\ ends' = ends
      /\ result' = result /\ issuedAs' = issuedAs
  BY DEF ServerRuns
<1>6. Heard' = Heard
  BY <1>5 DEF Heard
<1>7. client' = client /\ happened' = happened
  BY DEF ServerRuns
<1>8. /\ ranAs \in [Rpc -> Token \cup {0}] /\ boundTo \in [Socket -> Token]
      /\ issuedAs \in [Rpc -> Token \cup {0}]
  BY FieldsOf, StateFields DEF Inv, TypeInv
<1> HIDE DEF r
<1>9. \A q \in Rpc : ranAs'[q] = IF q = r THEN boundTo[s] ELSE ranAs[q]
  BY <1>5, <1>8
<1>10. TypeInv'
  <2>1. ranAs' \in [Rpc -> Token \cup {0}]
    BY <1>5, <1>8
  <2> QED BY <1>3, <1>4, <1>5, <2>1 DEF Inv, TypeInv
<1>11. Opening(T)
  BY <1>3, InvFacts DEF Opening
<1>12. StructInv'
  <2>1. \A q \in Rpc : result[q] = "none" => ranAs'[q] = 0
    BY <1>3, <1>9 DEF Inv, StructInv, Heard
  <2> QED BY <1>3, <1>4, <1>5, <1>6, <1>11, <2>1 DEF StructInv
<1>13. AccountInv'
  <2>1. CASE "carried" \in happened
    BY <1>7, <2>1 DEF AccountInv
  <2>2. CASE "carried" \notin happened
    <3>1. Account(State, issuedAs, token) /\ \A q \in Rpc : ranAs[q] \in {0, issuedAs[q]}
      BY <2>2 DEF Inv, AccountInv
    <3>2. \A q \in Rpc : ranAs'[q] \in {0, issuedAs[q]}
      BY <1>3, <1>9, <3>1, StateFields
    <3> QED BY <1>3, <1>4, <1>5, <3>1, <3>2 DEF AccountInv
  <2> QED BY <2>1, <2>2
<1>14. BootInv'
  BY <1>7 DEF Inv, BootInv, BootstrapIsOurs
<1>15. CleanInv'
  BY <1>3, <1>4, <1>5, <1>7 DEF Inv, CleanInv
<1>16. CalmInv'
  BY <1>3, <1>4, <1>7 DEF Inv, CalmInv
<1> QED BY <1>10, <1>12, <1>13, <1>14, <1>15, <1>16 DEF Inv

LEMMA ServerClosesInv ==
    ASSUME Inv, NEW s \in Socket, ServerCloses(s)
    PROVE  Inv'
<1> DEFINE T == IsClosing(State, s)
<1>1. State \in States /\ Struct(State, Heard) /\ Opening(State) /\ State.ready[s] = "open"
  BY InvFacts, StateFields DEF ServerCloses
<1>2. /\ T \in States /\ Struct(T, Heard) /\ Opening(T)
      /\ T.c = State.c /\ T.happened = State.happened
      /\ Account(State, issuedAs, token) => Account(T, issuedAs, token)
      /\ Clean(State) => Clean(T)
      /\ Calm(State) => Calm(T)
  BY <1>1, ServerClosesOf
<1>3. State' = T
  <2>1. /\ T.ready = [State.ready EXCEPT ![s] = "closing"] /\ T.handler = State.handler
        /\ T.boundTo = State.boundTo /\ T.out = State.out /\ T.inn = State.inn
    BY <1>1 DEF IsClosing, States
  <2> HIDE DEF T
  <2> QED BY <1>2, <2>1, Reached, StateFields DEF ServerCloses
<1> HIDE DEF T
<1>4. UNCHANGED <<token, calls>> /\ ends' \in 0..MaxEnds
  <2>1. ends \in Nat /\ MaxEnds \in Nat /\ ends < MaxEnds /\ ends' = ends + 1
    BY InvFacts, ClientAssumption DEF ServerCloses
  <2> QED BY <2>1 DEF ServerCloses
<1>5. T.c.boot \in {0, T.c.connToken} \/ "reused" \in T.happened
  BY <1>2, InvFacts, StateFields
<1>6. happened \subseteq T.happened /\ T.c.queue = client.queue /\ T.c.ws = client.ws
  BY <1>2, StateFields
<1> QED BY <1>2, <1>3, <1>4, <1>5, <1>6, Steady

\* The state after a draining socket has ended, and after the socket in use has.
DrainEnds(U, s) ==
  [U EXCEPT !.c.draining = @ \ client.drainOf[s], !.c.drainOf[s] = {},
            !.c.timer = @ \/ (client.ws = 0 /\ ~client.connecting)]
LiveEnds(U, gone) ==
  Note([U EXCEPT !.c.connecting = FALSE, !.c.ws = 0, !.c.timer = TRUE],
       "dropped", gone \cap client.draining # {})

LEMMA DrainEndsOf ==
    ASSUME NEW U \in States, NEW s \in Socket, client \in Clients
    PROVE  LET T == DrainEnds(U, s) IN
           /\ T \in States
           /\ T.c.ws = U.c.ws /\ T.c.connecting = U.c.connecting /\ T.c.pending = U.c.pending
           /\ T.c.draining = U.c.draining \ client.drainOf[s]
           /\ \A t \in Socket : T.c.drainOf[t] = IF t = s THEN {} ELSE U.c.drainOf[t]
           /\ T.c.queue = U.c.queue /\ T.c.connToken = U.c.connToken /\ T.c.boot = U.c.boot
           /\ T.ready = U.ready /\ T.handler = U.handler /\ T.boundTo = U.boundTo
           /\ T.out = U.out /\ T.inn = U.inn /\ T.happened = U.happened
<1> DEFINE T == DrainEnds(U, s)
           gone == client.drainOf[s]
           more == client.ws = 0 /\ ~client.connecting
<1> HIDE DEF gone, more
<1>1. T = [U EXCEPT !.c.draining = @ \ gone, !.c.drainOf[s] = {}, !.c.timer = @ \/ more]
  BY DEF DrainEnds, gone, more
<1> HIDE DEF T
<1>2. U.c \in Clients
  BY FieldsOf
<1>3. T.c = [U.c EXCEPT !.draining = @ \ gone, !.drainOf[s] = {}, !.timer = @ \/ more]
  BY <1>1 DEF States
<1>4. T.c \in Clients
  <2>1. PICK a \in SUBSET Rpc : a = U.c.draining \ gone
    BY <1>2 DEF Clients
  <2>2. PICK b \in BOOLEAN : b = (U.c.timer \/ more)
    BY <1>2 DEF Clients, more
  <2>3. PICK d \in [Socket -> SUBSET Rpc] : d = [U.c.drainOf EXCEPT ![s] = {}]
    BY <1>2 DEF Clients
  <2>4. T.c = [U.c EXCEPT !.draining = a, !.drainOf = d, !.timer = b]
    BY <1>2, <1>3, <2>1, <2>2, <2>3 DEF Clients
  <2> QED BY <1>2, <2>4 DEF Clients
<1>5. T = [U EXCEPT !.c = T.c]
  BY <1>1, <1>3 DEF States
<1>6. T \in States
  BY <1>4, <1>5 DEF States
<1>7. /\ T.ready = U.ready /\ T.handler = U.handler /\ T.boundTo = U.boundTo
      /\ T.out = U.out /\ T.inn = U.inn /\ T.happened = U.happened
  BY <1>5 DEF States
<1>8. /\ T.c.ws = U.c.ws /\ T.c.connecting = U.c.connecting /\ T.c.pending = U.c.pending
      /\ T.c.draining = U.c.draining \ gone
      /\ T.c.drainOf = [U.c.drainOf EXCEPT ![s] = {}]
      /\ T.c.queue = U.c.queue /\ T.c.connToken = U.c.connToken /\ T.c.boot = U.c.boot
  BY <1>2, <1>3 DEF Clients
<1>9. \A t \in Socket : T.c.drainOf[t] = IF t = s THEN {} ELSE U.c.drainOf[t]
  BY <1>2, <1>8 DEF Clients
<1> QED BY <1>6, <1>7, <1>8, <1>9 DEF T, gone

LEMMA LiveEndsOf ==
    ASSUME NEW U \in States, NEW gone
    PROVE  LET T == LiveEnds(U, gone) IN
           /\ T \in States
           /\ T.c.ws = 0 /\ ~T.c.connecting /\ T.c.pending = U.c.pending
           /\ T.c.draining = U.c.draining /\ T.c.drainOf = U.c.drainOf
           /\ T.c.queue = U.c.queue /\ T.c.connToken = U.c.connToken /\ T.c.boot = U.c.boot
           /\ T.ready = U.ready /\ T.handler = U.handler /\ T.boundTo = U.boundTo
           /\ T.out = U.out /\ T.inn = U.inn /\ U.happened \subseteq T.happened
           /\ gone \cap client.draining # {} => "dropped" \in T.happened
<1> DEFINE V == [U EXCEPT !.c.connecting = FALSE, !.c.ws = 0, !.c.timer = TRUE]
           cond == gone \cap client.draining # {}
           T == Note(V, "dropped", cond)
<1>1. /\ V.c = [U.c EXCEPT !.connecting = FALSE, !.ws = 0, !.timer = TRUE]
      /\ V.ready = U.ready /\ V.handler = U.handler /\ V.boundTo = U.boundTo
      /\ V.out = U.out /\ V.inn = U.inn /\ U.happened = V.happened
      /\ V = [U EXCEPT !.c = V.c]
  BY DEF States
<1> HIDE DEF V, cond
<1>2. /\ V.c.ws = 0 /\ ~V.c.connecting /\ V.c.pending = U.c.pending
      /\ V.c.draining = U.c.draining /\ V.c.drainOf = U.c.drainOf
      /\ V.c.queue = U.c.queue /\ V.c.connToken = U.c.connToken /\ V.c.boot = U.c.boot
      /\ V.c \in Clients
  BY <1>1 DEF States, Clients
<1>3. V \in States
  BY <1>1, <1>2 DEF States
<1>4. /\ T \in States /\ Alike(V, T) /\ T.c = V.c /\ V.happened \subseteq T.happened
      /\ cond => "dropped" \in T.happened
  <2>1. "dropped" \in Troubles
    BY DEF Troubles
  <2> QED BY <1>3, <2>1, NoteOf
<1>5. T = LiveEnds(U, gone)
  BY DEF LiveEnds, V, cond
<1> HIDE DEF T
<1>6. /\ T.ready = V.ready /\ T.handler = V.handler /\ T.boundTo = V.boundTo
      /\ T.out = V.out /\ T.inn = V.inn
  BY <1>4 DEF Alike
<1> QED BY <1>1, <1>2, <1>4, <1>5, <1>6 DEF cond

\* The same, for an action that settles promises.
LEMMA Settling ==
    ASSUME Inv, NEW T \in States, State' = T, ends' \in 0..MaxEnds,
           token' = token, issuedAs' = issuedAs, ranAs' = ranAs, Heard' = Heard,
           result' \in [Rpc -> {"none", "waiting", "own", "other", "rejected"}],
           Struct(T, Heard), Opening(T),
           T.c.boot \in {0, T.c.connToken} \/ "reused" \in T.happened,
           happened \subseteq T.happened,
           Account(State, issuedAs, token) => Account(T, issuedAs, token),
           Clean(State) =>
              \/ T.happened \cap {"mixed", "twice", "ghost"} # {}
              \/ /\ Clean(T)
                 /\ T.c.queue # <<>> => T.c.ws # 0 \/ (T.c.queue = client.queue /\ T.c.ws = client.ws)
                 /\ \A r \in Rpc : result'[r] = "other" => result[r] = "other",
           Calm(State) => Calm(T) \/ T.happened \cap {"twice", "dropped"} # {}
    PROVE  Inv'
<1>1. client' = T.c /\ happened' = T.happened
  BY DEF State
<1>2. TypeInv'
  BY DEF Inv, TypeInv
<1>3. StructInv'
  <2>1. \A r \in Rpc : result'[r] = "none" => result[r] = "none"
    BY DEF Heard
  <2> QED BY <1>1, <2>1 DEF Inv, StructInv
<1>4. AccountInv'
  BY <1>1 DEF Inv, AccountInv
<1>5. BootInv'
  BY <1>1 DEF BootInv, BootstrapIsOurs
<1>6. CleanInv'
  <2>1. CASE happened \cap {"mixed", "twice", "ghost"} # {}
    BY <1>1, <2>1 DEF CleanInv
  <2>2. CASE happened \cap {"mixed", "twice", "ghost"} = {}
    <3>1. Clean(State) /\ (client.queue # <<>> => client.ws # 0) /\ \A r \in Rpc : result[r] # "other"
      BY <2>2 DEF Inv, CleanInv
    <3> QED BY <1>1, <3>1 DEF CleanInv
  <2> QED BY <2>1, <2>2
<1>7. CalmInv'
  BY <1>1 DEF Inv, CalmInv
<1> QED BY <1>2, <1>3, <1>4, <1>5, <1>6, <1>7 DEF Inv

LEMMA ClosesInv ==
    ASSUME Inv, NEW s \in Socket, Closes(s)
    PROVE  Inv'
<1> DEFINE gone == Rejected(s)
           U == HasEnded(State, s, gone)
           T == IF handler[s] = "drain" THEN DrainEnds(U, s) ELSE LiveEnds(U, gone)
<1>1. /\ State \in States /\ Struct(State, Heard) /\ Opening(State)
      /\ client \in Clients /\ ends \in 0..MaxEnds
      /\ client.boot \in {0, client.connToken} \/ "reused" \in happened
  BY InvFacts
<1>2. Sockets(State)
  BY <1>1 DEF Struct
<1>3. handler[s] \in {"live", "drain"}
  <2>1. ready[s] # "closed"
    BY DEF Closes
  <2>2. handler[s] \in {"live", "drain", "off"}
    BY <1>1, FieldsOf, StateFields
  <2> QED BY <1>2, <2>1, <2>2, StateFields DEF Sockets
<1>4. /\ U \in States /\ Ended(State, U, s, gone)
      /\ U.c.ws = State.c.ws /\ U.c.connecting = State.c.connecting
      /\ U.c.draining = State.c.draining /\ U.c.drainOf = State.c.drainOf
  BY <1>1, EndedOf
<1>5. U = [Note(State, "ghost", gone \cap Elems(client.queue) # {}) EXCEPT
             !.ready[s] = "closed", !.handler[s] = "off",
             !.out[s] = <<>>, !.inn[s] = <<>>, !.c.pending = Without(@, gone)]
  BY StateFields DEF HasEnded
<1>6. Becomes(T)
  BY <1>5 DEF Closes, DrainEnds, LiveEnds
<1>7. /\ result' = [r \in Rpc |-> IF r \in gone THEN "rejected" ELSE result[r]]
      /\ token' = token /\ issuedAs' = issuedAs /\ ranAs' = ranAs
  BY DEF Closes
<1>8. ends' \in 0..MaxEnds
  <2>1. MaxEnds \in Nat
    BY ClientAssumption
  <2>2. ends' = ends \/ (ends < MaxEnds /\ ends' = ends + 1)
    BY DEF Closes
  <2> QED BY <1>1, <2>1, <2>2
<1>9. gone \subseteq Elems(client.pending)
  BY DEF Rejected
<1>10. Elems(client.pending) \subseteq Heard
  BY <1>1, StateFields DEF Struct, Issued
<1>11. result \in [Rpc -> {"none", "waiting", "own", "other", "rejected"}]
  BY DEF Inv, TypeInv
<1>12. result' \in [Rpc -> {"none", "waiting", "own", "other", "rejected"}]
       /\ \A r \in Rpc : result'[r] = IF r \in gone THEN "rejected" ELSE result[r]
  BY <1>7, <1>11
<1>13. Heard' = Heard /\ \A r \in Rpc : result'[r] = "other" => result[r] = "other"
  BY <1>9, <1>10, <1>12 DEF Heard
<1> HIDE DEF gone, U
<1>14. /\ T \in States /\ T.c.boot = client.boot /\ T.c.connToken = client.connToken
       /\ T.c.queue = client.queue /\ happened \subseteq T.happened /\ Ended(State, T, s, gone)
       /\ handler[s] = "drain" =>
            /\ T.c.ws = client.ws /\ T.c.connecting = client.connecting
            /\ T.c.draining = client.draining \ client.drainOf[s]
            /\ \A t \in Socket : T.c.drainOf[t] = IF t = s THEN {} ELSE client.drainOf[t]
       /\ handler[s] = "live" =>
            /\ T.c.ws = 0 /\ ~T.c.connecting
            /\ T.c.draining = client.draining /\ T.c.drainOf = client.drainOf
            /\ gone \cap client.draining # {} => "dropped" \in T.happened
  <2>1. CASE handler[s] = "drain"
    <3>1. PICK V : V = DrainEnds(U, s)
      OBVIOUS
    <3>2. /\ V \in States
          /\ V.c.ws = U.c.ws /\ V.c.connecting = U.c.connecting /\ V.c.pending = U.c.pending
          /\ V.c.draining = U.c.draining \ client.drainOf[s]
          /\ \A t \in Socket : V.c.drainOf[t] = IF t = s THEN {} ELSE U.c.drainOf[t]
          /\ V.c.queue = U.c.queue /\ V.c.connToken = U.c.connToken /\ V.c.boot = U.c.boot
          /\ V.ready = U.ready /\ V.handler = U.handler /\ V.boundTo = U.boundTo
          /\ V.out = U.out /\ V.inn = U.inn /\ V.happened = U.happened
      BY <1>1, <1>4, <3>1, DrainEndsOf
    <3>3. T = V
      BY <2>1, <3>1
    <3> HIDE DEF T
    <3>4. Ended(State, T, s, gone)
      BY <1>4, <3>2, <3>3 DEF Ended
    <3> QED BY <1>4, <2>1, <3>2, <3>3, <3>4, StateFields DEF Ended
  <2>2. CASE handler[s] = "live"
    <3>1. PICK V : V = LiveEnds(U, gone)
      OBVIOUS
    <3>2. /\ V \in States
          /\ V.c.ws = 0 /\ ~V.c.connecting /\ V.c.pending = U.c.pending
          /\ V.c.draining = U.c.draining /\ V.c.drainOf = U.c.drainOf
          /\ V.c.queue = U.c.queue /\ V.c.connToken = U.c.connToken /\ V.c.boot = U.c.boot
          /\ V.ready = U.ready /\ V.handler = U.handler /\ V.boundTo = U.boundTo
          /\ V.out = U.out /\ V.inn = U.inn /\ U.happened \subseteq V.happened
          /\ gone \cap client.draining # {} => "dropped" \in V.happened
      BY <1>4, <3>1, LiveEndsOf
    <3>3. T = V
      BY <2>2, <3>1
    <3> HIDE DEF T
    <3>4. Ended(State, T, s, gone)
      BY <1>4, <3>2, <3>3 DEF Ended
    <3> QED BY <1>4, <2>2, <3>2, <3>3, <3>4, StateFields DEF Ended
  <2> QED BY <1>3, <2>1, <2>2
<1> HIDE DEF T
<1>15. State' = T
  BY <1>6, <1>14, Reached DEF Becomes
<1>16. /\ Struct(T, Heard) /\ Opening(T)
       /\ Account(State, issuedAs, token) => Account(T, issuedAs, token)
       /\ Clean(State) => "ghost" \in T.happened \/ (Clean(T) /\ (T.c.queue = <<>> \/ T.c.ws = client.ws))
       /\ Calm(State) => Calm(T) \/ "dropped" \in T.happened
  <2>1. CASE handler[s] = "drain"
    <3>1. gone = State.c.drainOf[s] \cap Elems(State.c.pending)
      BY <2>1, StateFields DEF gone, Rejected
    <3>2. /\ Struct(T, Heard) /\ Opening(T)
          /\ Account(State, issuedAs, token) => Account(T, issuedAs, token)
          /\ Clean(State) => Clean(T)
          /\ Calm(State) => Calm(T)
      BY <1>1, <1>14, <2>1, <3>1, StateFields, ClosesDrain
    <3> QED BY <1>14, <2>1, <3>2
  <2>2. CASE handler[s] = "live"
    <3>1. gone = Elems(State.c.pending)
      BY <2>2, StateFields DEF gone, Rejected
    <3>2. DrainedCalls(State) # {} => "dropped" \in T.happened
      BY <1>14, <2>2, <3>1, StateFields DEF DrainedCalls
    <3>3. /\ Struct(T, Heard) /\ Opening(T)
          /\ Account(State, issuedAs, token) => Account(T, issuedAs, token)
          /\ Clean(State) => "ghost" \in T.happened \/ (Clean(T) /\ T.c.queue = <<>>)
          /\ Calm(State) => Calm(T) \/ "dropped" \in T.happened
      BY <1>1, <1>14, <2>2, <3>1, <3>2, StateFields, ClosesLive
    <3> QED BY <3>3
  <2> QED BY <1>3, <2>1, <2>2
<1>17. Clean(State) =>
         \/ T.happened \cap {"mixed", "twice", "ghost"} # {}
         \/ /\ Clean(T)
            /\ T.c.queue # <<>> => T.c.ws # 0 \/ (T.c.queue = client.queue /\ T.c.ws = client.ws)
            /\ \A r \in Rpc : result'[r] = "other" => result[r] = "other"
  BY <1>13, <1>14, <1>16
<1>18. T.c.boot \in {0, T.c.connToken} \/ "reused" \in T.happened
  BY <1>1, <1>14
<1>19. Calm(State) => Calm(T) \/ T.happened \cap {"twice", "dropped"} # {}
  BY <1>16
<1> QED BY <1>7, <1>8, <1>12, <1>13, <1>14, <1>15, <1>16, <1>17, <1>18, <1>19, Settling

\* A call a socket's frame settles is taken off its side, and was not another's.
LEMMA FinishOf ==
    ASSUME NEW S \in States, NEW s \in Socket, NEW r, S.handler = handler, S.ready[s] = "open",
           handler[s] # "off", NEW K, Struct(S, K), r \in Elems(S.c.pending),
           r \in S.c.draining <=> handler[s] = "drain"
    PROVE  LET T == Finish(S, s, r) IN
           /\ T \in States /\ Struct(T, K)
           /\ Opening(S) => Opening(T)
           /\ T.c.ws = S.c.ws /\ T.c.queue = S.c.queue /\ T.c.boot = S.c.boot
           /\ T.c.connToken = S.c.connToken
           /\ T.happened = S.happened
           /\ \A iss, tk : Account(S, iss, tk) => Account(T, iss, tk)
           /\ Clean(S) /\ r \notin Carries(S.out[s], S.inn[s]) => Clean(T)
           /\ Calm(S) => Calm(T)
<1>1. handler[s] \in {"live", "drain", "off"}
  BY FieldsOf
<1>2. CASE handler[s] = "live"
  <2>1. r \in InUse(S.c)
    BY <1>2 DEF InUse
  <2> QED BY <1>2, <2>1, FinishLive
<1>3. CASE handler[s] = "drain"
  <2>1. r \in DrainedCalls(S)
    BY <1>3 DEF DrainedCalls
  <2> QED BY <1>3, <2>1, FinishDrain
<1> QED BY <1>1, <1>2, <1>3

\* While nothing was mixed, the call a binary frame settles is the frame's own.
LEMMA FrameIsOwn ==
    ASSUME NEW S \in States, NEW s \in Socket, NEW K, Struct(S, K), Clean(S), NEW m,
           m \in Frame, Answer(m), m.type = "binary", m.id \in Binary,
           m.id \in Carries(S.out[s], S.inn[s]), S.handler[s] # "off",
           NEW r, r \in Elems(S.c.pending), r \in S.c.draining <=> S.handler[s] = "drain"
    PROVE  r = m.id
<1>1. S.handler[s] \in {"live", "drain", "off"}
  BY FieldsOf
<1>2. CASE S.handler[s] = "live"
  <2>1. r \in InUse(S.c) /\ m.id \in InUse(S.c)
    BY <1>2 DEF InUse, Clean
  <2> QED BY <2>1 DEF Clean, Alone
<1>3. CASE S.handler[s] = "drain"
  <2>1. r \in DrainedCalls(S)
    BY <1>3 DEF DrainedCalls
  <2>2. m.id \in DrainedCalls(S)
    BY <1>3, <2>1 DEF Clean
  <2> QED BY <2>1, <2>2 DEF Clean, Alone
<1> QED BY <1>1, <1>2, <1>3

LEMMA TakenFacts ==
    ASSUME Inv, NEW s \in Socket, ready[s] = "open", inn[s] # <<>>
    PROVE  LET S == Taken(State, s)
               m == Head(inn[s])
           IN /\ S \in States /\ Struct(S, Heard) /\ Opening(S) /\ S.c = client
              /\ S.handler = handler /\ S.ready = ready /\ S.boundTo = boundTo
              /\ S.happened = happened /\ handler[s] # "off"
              /\ Account(State, issuedAs, token) => Account(S, issuedAs, token)
              /\ Clean(State) => Clean(S)
              /\ Calm(State) => Calm(S)
              /\ m \in Frame
              /\ Answer(m) => m.id \in Carries(out[s], inn[s])
              /\ Answer(m) /\ handler[s] = "live" => m.id \notin client.draining
              /\ Clean(State) =>
                    /\ Answer(m) => m.id \notin Carries(S.out[s], S.inn[s])
                    /\ m.type = "binary" => m.id \in Binary
<1> DEFINE S == Taken(State, s)
           m == Head(inn[s])
<1>1. State \in States /\ Struct(State, Heard) /\ Opening(State) /\ State.inn[s] # <<>>
  BY InvFacts, StateFields
<1>2. m = Head(State.inn[s])
  BY StateFields
<1>3. handler[s] # "off"
  BY <1>1, StateFields DEF Struct, Sockets
<1> HIDE DEF m
<1>4. /\ S \in States /\ Struct(S, Heard)
      /\ S.c = State.c /\ S.ready = State.ready /\ S.handler = State.handler
      /\ S.boundTo = State.boundTo /\ S.happened = State.happened
      /\ Account(State, issuedAs, token) => Account(S, issuedAs, token)
      /\ Clean(State) => Clean(S)
      /\ Calm(State) => Calm(S)
      /\ m \in Frame
      /\ Answer(m) => m.id \in Carries(State.out[s], State.inn[s])
      /\ Clean(State) /\ State.handler[s] # "off" =>
            /\ Answer(m) => m.id \notin Carries(S.out[s], S.inn[s])
            /\ m.type = "binary" => m.id \in Binary
  BY <1>1, <1>2, FrameTaken
<1> HIDE DEF S
<1>5. Opening(S)
  BY <1>1, <1>4 DEF Opening
<1>6. Answer(m) /\ handler[s] = "live" => m.id \notin client.draining
  BY <1>1, <1>4, StateFields DEF Struct, Apart
<1> QED BY <1>3, <1>4, <1>5, <1>6, StateFields DEF S, m

\* A frame settles the promise of the call r.
LEMMA SettlesInv ==
    ASSUME Inv, NEW s \in Socket, ready[s] = "open", inn[s] # <<>>,
           NEW r, r \in Elems(client.pending), r \in client.draining <=> handler[s] = "drain",
           Answer(Head(inn[s])),
           r = Head(inn[s]).id \/ Head(inn[s]).type = "binary",
           Becomes(Finish(Taken(State, s), s, r)),
           Settles(r, Head(inn[s]).id),
           token' = token, issuedAs' = issuedAs, ranAs' = ranAs, ends' = ends
    PROVE  Inv'
<1> DEFINE S == Taken(State, s)
           m == Head(inn[s])
           T == Finish(S, s, r)
<1>1. /\ S \in States /\ Struct(S, Heard) /\ Opening(S) /\ S.c = client
      /\ S.handler = handler /\ S.ready = ready /\ S.boundTo = boundTo
      /\ S.happened = happened /\ handler[s] # "off"
      /\ Account(State, issuedAs, token) => Account(S, issuedAs, token)
      /\ Clean(State) => Clean(S)
      /\ Calm(State) => Calm(S)
      /\ m \in Frame
      /\ m.id \in Carries(out[s], inn[s])
      /\ Clean(State) =>
            /\ m.id \notin Carries(S.out[s], S.inn[s])
            /\ m.type = "binary" => m.id \in Binary
  BY TakenFacts
<1>2. Becomes(T) /\ Answer(m) /\ (r = m.id \/ m.type = "binary")
      /\ result' = [result EXCEPT ![r] = IF r = m.id THEN "own" ELSE "other"]
  BY DEF Settles
<1> HIDE DEF S, m
<1>3. /\ T \in States /\ Struct(T, Heard) /\ Opening(T)
      /\ T.c.ws = S.c.ws /\ T.c.queue = S.c.queue /\ T.c.boot = S.c.boot
      /\ T.c.connToken = S.c.connToken
      /\ T.happened = S.happened
      /\ Account(S, issuedAs, token) => Account(T, issuedAs, token)
      /\ Clean(S) /\ r \notin Carries(S.out[s], S.inn[s]) => Clean(T)
      /\ Calm(S) => Calm(T)
  BY <1>1, FinishOf
<1> HIDE DEF T
<1>4. State' = T
  BY <1>2, <1>3, Reached DEF Becomes
<1>5. Clean(State) => r = m.id
  <2>1. SUFFICES ASSUME Clean(State), m.type = "binary" PROVE r = m.id
    BY <1>2
  <2>2. State \in States /\ Struct(State, Heard)
    BY InvFacts
  <2>3. m.id \in Carries(State.out[s], State.inn[s]) /\ m.id \in Binary
    BY <1>1, <2>1, StateFields
  <2>4. r \in Elems(State.c.pending) /\ (r \in State.c.draining <=> State.handler[s] = "drain")
        /\ State.handler[s] # "off"
    BY <1>1, StateFields
  <2> QED BY <1>1, <1>2, <2>1, <2>2, <2>3, <2>4, FrameIsOwn
<1>6. client \in Clients /\ ends \in 0..MaxEnds
      /\ (client.boot \in {0, client.connToken} \/ "reused" \in happened)
  BY InvFacts
<1>7. r \in Rpc /\ r \in Heard
  <2>1. client.pending \in Seq(Rpc)
    BY <1>6 DEF Clients
  <2>2. Elems(client.pending) \subseteq Rpc
    BY <2>1, ElemsIn
  <2>3. Elems(client.pending) \subseteq Heard
    BY <1>1 DEF Struct, Issued
  <2> QED BY <2>2, <2>3
<1>8. result \in [Rpc -> {"none", "waiting", "own", "other", "rejected"}]
  BY DEF Inv, TypeInv
<1>9. /\ result' \in [Rpc -> {"none", "waiting", "own", "other", "rejected"}]
      /\ \A q \in Rpc : result'[q] = IF q = r THEN (IF r = m.id THEN "own" ELSE "other") ELSE result[q]
  BY <1>2, <1>7, <1>8
<1>10. Heard' = Heard
  BY <1>7, <1>9 DEF Heard
<1>11. Clean(State) =>
         \/ T.happened \cap {"mixed", "twice", "ghost"} # {}
         \/ /\ Clean(T)
            /\ T.c.queue # <<>> => T.c.ws # 0 \/ (T.c.queue = client.queue /\ T.c.ws = client.ws)
            /\ \A q \in Rpc : result'[q] = "other" => result[q] = "other"
  BY <1>1, <1>3, <1>5, <1>9
<1>12. T.c.boot \in {0, T.c.connToken} \/ "reused" \in T.happened
  BY <1>1, <1>3, <1>6
<1>13. /\ happened \subseteq T.happened /\ ends' \in 0..MaxEnds
       /\ Account(State, issuedAs, token) => Account(T, issuedAs, token)
       /\ Calm(State) => Calm(T) \/ T.happened \cap {"twice", "dropped"} # {}
  BY <1>1, <1>3, <1>6
<1> QED BY <1>3, <1>4, <1>9, <1>10, <1>11, <1>12, <1>13, Settling

\* A frame settles nothing: the payload is kept, a header puts its call last, or
\* the frame is ignored.
LEMMA KeepsInv ==
    ASSUME Inv, NEW s \in Socket, ready[s] = "open", inn[s] # <<>>,
           NEW T \in States, Becomes(T), UNCHANGED <<token, calls, ends>>,
           Struct(T, Heard), Opening(T),
           T.c.ws = client.ws, T.c.queue = client.queue, T.c.connToken = client.connToken,
           T.c.boot \in {client.boot, client.connToken}, T.happened = happened,
           Account(Taken(State, s), issuedAs, token) => Account(T, issuedAs, token),
           Clean(Taken(State, s)) => Clean(T),
           Calm(Taken(State, s)) => Calm(T)
    PROVE  Inv'
<1>1. State' = T
  BY Reached DEF Becomes
<1>2. /\ Account(State, issuedAs, token) => Account(T, issuedAs, token)
      /\ Clean(State) => Clean(T)
      /\ Calm(State) => Calm(T)
  BY TakenFacts
<1>3. ends' \in 0..MaxEnds /\ (T.c.boot \in {0, T.c.connToken} \/ "reused" \in T.happened)
  BY InvFacts
<1> QED BY <1>1, <1>2, <1>3, Steady

LEMMA ReceivesInv ==
    ASSUME Inv, NEW s \in Socket, Receives(s)
    PROVE  Inv'
<1> DEFINE m == Head(inn[s])
           S == Taken(State, s)
           known == m.type \in {"json", "header"} /\ m.id \in Elems(client.pending)
                     /\ (handler[s] = "drain" => m.id \in client.draining)
           takers == TakesBinary(s)
           first == FirstOf(client.pending, takers)
<1>1. ready[s] = "open" /\ inn[s] # <<>>
      /\ token' = token /\ issuedAs' = issuedAs /\ ranAs' = ranAs /\ ends' = ends
  BY DEF Receives
<1>2. S = [State EXCEPT !.inn[s] = Tail(@)]
  BY DEF Taken
<1>3. \/ /\ m.type = "bootstrap"
         /\ Becomes(IF handler[s] = "live" THEN [S EXCEPT !.c.boot = boundTo[s]] ELSE S)
         /\ UNCHANGED result
      \/ /\ m.type = "json" /\ known
         /\ Settles(m.id, m.id) /\ Becomes(Finish(S, s, m.id))
      \/ /\ m.type = "header" /\ known
         /\ Becomes([S EXCEPT !.c.pending = Append(Without(@, {m.id}), m.id)])
         /\ UNCHANGED result
      \/ /\ m.type = "binary" /\ takers # {}
         /\ Settles(first, m.id) /\ Becomes(Finish(S, s, first))
      \/ Becomes(S) /\ UNCHANGED result
  BY <1>2 DEF Receives
<1>4. /\ S \in States /\ Struct(S, Heard) /\ Opening(S) /\ S.c = client
      /\ S.handler = handler /\ S.ready = ready /\ S.boundTo = boundTo
      /\ S.happened = happened /\ handler[s] # "off"
      /\ m \in Frame
      /\ Answer(m) /\ handler[s] = "live" => m.id \notin client.draining
  BY <1>1, TakenFacts
<1>5. client \in Clients /\ client.pending \in Seq(Rpc)
  BY InvFacts DEF Clients
<1>6. handler[s] \in {"live", "drain"}
  <2>1. S.handler[s] \in {"live", "drain", "off"}
    BY <1>4, FieldsOf
  <2> QED BY <1>4, <2>1
<1> HIDE DEF S, m
<1>7. CASE m.type = "bootstrap" /\ handler[s] = "live"
           /\ Becomes([S EXCEPT !.c.boot = boundTo[s]]) /\ UNCHANGED result
  <2>1. boundTo[s] \in Token /\ boundTo[s] = client.connToken
    BY <1>4, <1>7, FieldsOf DEF Struct, Sockets
  <2>2. PICK b \in Token : b = boundTo[s]
    BY <2>1
  <2>3. PICK T : T = [S EXCEPT !.c.boot = b]
    OBVIOUS
  <2>4. /\ T \in States /\ Alike(S, T) /\ T.happened = S.happened
        /\ T.c.boot = b /\ T.c.connecting = S.c.connecting
    BY <1>4, <2>3 DEF States, Clients, Alike
  <2>5. Becomes(T)
    BY <1>7, <2>2, <2>3
  <2>6. /\ Struct(T, Heard)
        /\ Account(S, issuedAs, token) => Account(T, issuedAs, token)
        /\ Clean(S) => Clean(T)
        /\ Calm(S) => Calm(T)
    BY <1>4, <2>4, AlikeKeeps
  <2>7. Opening(T)
    BY <1>4, <2>4 DEF Opening, Alike
  <2>8. /\ T.c.ws = client.ws /\ T.c.queue = client.queue /\ T.c.connToken = client.connToken
        /\ T.c.boot \in {client.boot, client.connToken} /\ T.happened = happened
    BY <1>4, <2>1, <2>2, <2>4 DEF Alike
  <2>9. UNCHANGED <<token, calls, ends>>
    BY <1>1, <1>7 DEF calls
  <2> QED BY <1>1, <2>4, <2>5, <2>6, <2>7, <2>8, <2>9, KeepsInv DEF S
<1>8. CASE Becomes(S) /\ UNCHANGED result
  <2>1. UNCHANGED <<token, calls, ends>>
    BY <1>1, <1>8 DEF calls
  <2> QED BY <1>1, <1>4, <1>8, <2>1, KeepsInv DEF S
<1>9. CASE m.type = "json" /\ known /\ Settles(m.id, m.id) /\ Becomes(Finish(S, s, m.id))
  <2>1. Answer(m)
    BY <1>4, <1>9 DEF Answer
  <2>2. m.id \in Elems(client.pending) /\ (m.id \in client.draining <=> handler[s] = "drain")
    BY <1>4, <1>6, <1>9, <2>1
  <2> QED BY <1>1, <1>9, <2>1, <2>2, SettlesInv DEF S, m
<1>10. CASE m.type = "header" /\ known
            /\ Becomes([S EXCEPT !.c.pending = Append(Without(@, {m.id}), m.id)])
            /\ UNCHANGED result
  <2>1. PICK r : r = m.id
    OBVIOUS
  <2>2. r \in Elems(client.pending) /\ r \in Rpc
    BY <1>5, <1>10, <2>1, ElemsIn
  <2>3. PICK w : w = Without(client.pending, {r})
    OBVIOUS
  <2>4. PICK p : p = Append(w, r)
    OBVIOUS
  <2>5. Once(client.pending)
    BY <1>4 DEF Struct
  <2>6. w \in Seq(Rpc) /\ Elems(w) = Elems(client.pending) \ {r} /\ Once(w)
    BY <1>5, <2>3, <2>5, WithoutOf
  <2>7. p \in Seq(Rpc) /\ Elems(p) = Elems(client.pending) /\ Once(p)
    <3>1. r \notin Elems(w)
      BY <2>6
    <3>2. p \in Seq(Rpc) /\ Elems(p) = Elems(w) \cup {r} /\ Once(p)
      BY <2>2, <2>4, <2>6, <3>1, AppendOf
    <3> QED BY <2>2, <2>6, <3>2
  <2>8. PICK T : T = [S EXCEPT !.c.pending = p]
    OBVIOUS
  <2>9. /\ T \in States /\ Struct(T, Heard)
        /\ T.c.ws = S.c.ws /\ T.c.queue = S.c.queue /\ T.c.boot = S.c.boot
        /\ T.c.connToken = S.c.connToken /\ T.c.connecting = S.c.connecting
        /\ T.ready = S.ready /\ T.happened = S.happened
        /\ Account(S, issuedAs, token) => Account(T, issuedAs, token)
        /\ Clean(S) => Clean(T)
        /\ Calm(S) => Calm(T)
    BY <1>4, <2>7, <2>8, Reordered
  <2>10. Becomes(T)
    BY <1>4, <1>10, <2>1, <2>3, <2>4, <2>8
  <2>11. Opening(T)
    BY <1>4, <2>9 DEF Opening
  <2>12. UNCHANGED <<token, calls, ends>>
    BY <1>1, <1>10 DEF calls
  <2> QED BY <1>1, <1>4, <2>9, <2>10, <2>11, <2>12, KeepsInv DEF S
<1>11. CASE m.type = "binary" /\ takers # {}
            /\ Settles(first, m.id) /\ Becomes(Finish(S, s, first))
  <2>1. Answer(m)
    BY <1>11 DEF Answer
  <2>2. PICK A : A = takers
    OBVIOUS
  <2>3. A \cap Elems(client.pending) # {}
    BY <1>11, <2>2 DEF TakesBinary, InUse
  <2>4. first \in A \cap Elems(client.pending)
    BY <1>5, <2>2, <2>3, FirstOfIn
  <2>5. first \in Elems(client.pending) /\ (first \in client.draining <=> handler[s] = "drain")
    BY <1>6, <2>2, <2>4 DEF TakesBinary, InUse
  <2> HIDE DEF first
  <2> QED BY <1>1, <1>11, <2>1, <2>5, SettlesInv DEF S, m
<1> QED BY <1>3, <1>6, <1>7, <1>8, <1>9, <1>10, <1>11

LEMMA NextInv ==
    ASSUME Inv, [Next]_vars
    PROVE  Inv'
<1>1. CASE UNCHANGED vars
  <2>1. State' = State /\ Heard' = Heard
    BY <1>1 DEF vars, State, Heard
  <2>2. /\ token' = token /\ client' = client /\ result' = result /\ issuedAs' = issuedAs
        /\ ranAs' = ranAs /\ ends' = ends /\ happened' = happened
    BY <1>1 DEF vars
  <2>3. TypeInv' /\ StructInv'
    BY <2>1, <2>2 DEF Inv, TypeInv, StructInv
  <2>4. AccountInv' /\ BootInv' /\ CleanInv' /\ CalmInv'
    BY <2>1, <2>2 DEF Inv, AccountInv, BootInv, BootstrapIsOurs, CleanInv, CalmInv
  <2> QED BY <2>3, <2>4 DEF Inv
<1> QED BY <1>1, ChangeTokenInv, TimerFiresInv, RequestInv, OpensInv, ServerRunsInv,
           ReceivesInv, ServerClosesInv, ClosesInv DEF Next

(* Part 5.  What the invariant says of the calls, at every reachable state. *)

LEMMA InvHolds == Spec => []Inv
<1>1. Init => Inv
  BY InitInv
<1>2. Inv /\ [Next]_vars => Inv'
  BY NextInv
<1> QED BY <1>1, <1>2, PTL DEF Spec

\* The promise of a call gets the answer of that call and of no other, and no call
\* is pending twice, through every change of the token, rotation, reconnection and
\* drain, unless one of the named events has happened (onmessage, _ensureAuthFresh,
\* onclose, _onDrainRpcComplete).
THEOREM ClientSoundSafe == Spec => []ClientSound
<1>1. Inv => ClientSound
  <2> SUFFICES ASSUME Inv PROVE ClientSound
    OBVIOUS
  <2>1. /\ client \in Clients
        /\ ready \in [Socket -> {"connecting", "open", "closing", "closed"}]
        /\ handler \in [Socket -> {"live", "drain", "off"}] /\ boundTo \in [Socket -> Token]
        /\ out \in [Socket -> Seq(Rpc)] /\ inn \in [Socket -> Seq(Frame)]
        /\ happened \in SUBSET Troubles
    BY InvFacts, FieldsOf, StateFields
  <2>2. Once(client.pending)
    BY InvFacts, StateFields DEF Struct
  <2>3. client.pending \in Seq(Rpc)
    BY <2>1 DEF Clients
  <2>4. Cardinality(Elems(client.pending)) = Len(client.pending)
    BY <2>2, <2>3, OnceCounts
  <2>5. /\ client.ws \in Socket \cup {0} /\ client.connToken \in Token
        /\ {client.connecting, client.timer} \subseteq BOOLEAN
        /\ client.pending \in Seq(Rpc) /\ client.queue \in Seq(Rpc)
        /\ client.draining \subseteq Rpc /\ client.drainOf \in [Socket -> SUBSET Rpc]
        /\ client.boot \in Token \cup {0}
    BY <2>1 DEF Clients
  <2>6. ClientTypeOK
    BY <2>1, <2>4, <2>5 DEF ClientTypeOK, Inv, TypeInv, Troubles
  <2>7. OwnAnswer
    BY DEF OwnAnswer, Inv, CleanInv
  <2> QED BY <2>6, <2>7 DEF ClientSound
<1> QED BY <1>1, InvHolds, PTL

\* A call runs on the server under the account that issued it, and the cached
\* bootstrap payload is that of the account the page is connected as, unless the
\* token changed with calls in the queue, or before the reconnect timer
\* (_ensureAuthFresh, _connect, _send).
THEOREM RightAccountSafe == Spec => []RightAccount
<1>1. Inv => RightAccount
  BY DEF Inv, AccountInv, BootInv, RightAccount, RunsAsIssued
<1> QED BY <1>1, InvHolds, PTL

\* A draining socket waits for a pending call, so that an answer or its end closes
\* it, unless two were draining at once or the socket in use ended meanwhile
\* (_onDrainRpcComplete).
THEOREM DrainHasWorkSafe == Spec => []DrainHasWork
<1>1. Inv => DrainHasWork
  <2> SUFFICES ASSUME Inv, happened \cap {"twice", "dropped"} = {},
                      NEW s \in Socket, handler[s] = "drain"
               PROVE  client.drainOf[s] \cap Elems(client.pending) # {}
    BY DEF DrainHasWork
  <2>1. Calm(State)
    BY DEF Inv, CalmInv
  <2>2. client.drainOf[s] # {} /\ client.drainOf[s] \subseteq DrainedCalls(State)
    BY <2>1, StateFields DEF Calm
  <2> QED BY <2>2, StateFields DEF DrainedCalls
<1> QED BY <1>1, InvHolds, PTL
=============================================================================
