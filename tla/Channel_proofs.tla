--------------------------- MODULE Channel_proofs ---------------------------
(***************************************************************************)
(* Proofs about Channel: no command is lost, doubled or answered twice,    *)
(* every answer finds its request, nobody sends before the login, none is  *)
(* carried out a second time unless a login is sent again ahead of it, and *)
(* the channel implements Requests, for any number of commands, of lost    *)
(* connections, of busy answers and of refusals.                           *)
(*                                                                         *)
(* The argument counts: a command is once in outq_, among the waiting      *)
(* requests, or answered; on its way there and back it is no more often    *)
(* than it is waited for.                                                  *)
(***************************************************************************)
EXTENDS Channel, FiniteSetTheorems, SequenceTheorems, WellFoundedInduction, TLAPS

Count(r, s) == Cardinality(Occurrences(r, s))

One(P) == IF P THEN 1 ELSE 0

---------------------------------------------------------------------------
(* Counting in sequences.                                                  *)

LEMMA CountIsNat ==
  ASSUME NEW S, NEW s \in Seq(S), NEW r
  PROVE  IsFiniteSet(Occurrences(r, s)) /\ Count(r, s) \in Nat
  <1>1. IsFiniteSet(1 .. Len(s))
    BY FS_Interval
  <1>2. Occurrences(r, s) \in SUBSET (1 .. Len(s))
    BY DEF Occurrences
  <1>3. IsFiniteSet(Occurrences(r, s))
    BY <1>1, <1>2, FS_Subset
  <1> QED
    BY <1>3, FS_CardinalityType DEF Count

LEMMA CountZero ==
  ASSUME NEW S, NEW s \in Seq(S), NEW r
  PROVE  Count(r, s) = 0 <=> \A i \in 1 .. Len(s) : s[i] # r
  <1>1. Count(r, s) = 0 <=> Occurrences(r, s) = {}
    BY CountIsNat, FS_EmptySet DEF Count
  <1> QED
    BY <1>1 DEF Occurrences

LEMMA CountEmpty ==
  ASSUME NEW r
  PROVE  Count(r, <<>>) = 0
  <1>1. Occurrences(r, <<>>) = {}
    BY DEF Occurrences
  <1> QED
    BY <1>1, FS_EmptySet DEF Count

LEMMA CountAppend ==
  ASSUME NEW S, NEW s \in Seq(S), NEW x \in S, NEW r
  PROVE  Count(r, Append(s, x)) = Count(r, s) + One(x = r)
  <1> DEFINE t == Append(s, x)
             n == Len(s) + 1
  <1>1. /\ t \in Seq(S) /\ Len(t) = n /\ t[n] = x
        /\ \A i \in 1 .. Len(s) : t[i] = s[i]
    BY AppendProperties
  <1>2. n \notin Occurrences(r, s)
    BY DEF Occurrences
  <1>3. Len(s) \in Nat /\ DOMAIN s = 1 .. Len(s) /\ DOMAIN t = 1 .. Len(s) + 1
    BY <1>1
  <1>4. CASE x = r
    <2>1. Occurrences(r, t) = Occurrences(r, s) \cup {n}
      BY <1>1, <1>3, <1>4 DEF Occurrences
    <2> HIDE DEF t, n
    <2> QED
      BY <2>1, <1>2, <1>4, CountIsNat, FS_AddElement DEF Count, One, t
  <1>5. CASE x # r
    <2>1. Occurrences(r, t) = Occurrences(r, s)
      BY <1>1, <1>3, <1>5 DEF Occurrences
    <2> QED
      BY <2>1, <1>5, CountIsNat DEF Count, One
  <1> QED
    BY <1>4, <1>5

LEMMA RemoveAtIs ==
  ASSUME NEW S, NEW s \in Seq(S), NEW i \in 1 .. Len(s)
  PROVE  /\ RemoveAt(s, i) \in Seq(S)
         /\ Len(RemoveAt(s, i)) = Len(s) - 1
         /\ \A j \in 1 .. Len(s) - 1 : RemoveAt(s, i)[j] = s[IF j < i THEN j ELSE j + 1]
  <1> DEFINE a == SubSeq(s, 1, i - 1)
             b == SubSeq(s, i + 1, Len(s))
  <1>1. Len(s) \in Nat /\ \A j \in 1 .. Len(s) : s[j] \in S
    OBVIOUS
  <1>2. a \in Seq(S) /\ Len(a) = i - 1 /\ \A j \in 1 .. i - 1 : a[j] = s[j]
    BY <1>1, SubSeqProperties
  <1>3. b \in Seq(S) /\ Len(b) = Len(s) - i /\ \A j \in 1 .. Len(s) - i : b[j] = s[i + j]
    BY <1>1, SubSeqProperties
  <1> HIDE DEF a, b
  <1>4. /\ a \o b \in Seq(S) /\ Len(a \o b) = Len(s) - 1
        /\ \A j \in 1 .. Len(s) - 1 : (a \o b)[j] = IF j <= i - 1 THEN a[j] ELSE b[j - (i - 1)]
    <2>1. Len(a) + Len(b) = Len(s) - 1
      BY <1>1, <1>2, <1>3
    <2>2. /\ a \o b \in Seq(S) /\ Len(a \o b) = Len(a) + Len(b)
          /\ \A j \in 1 .. Len(a) + Len(b) :
               (a \o b)[j] = IF j <= Len(a) THEN a[j] ELSE b[j - Len(a)]
      BY <1>2, <1>3, ConcatProperties
    <2> QED
      BY <1>2, <2>1, <2>2
  <1>5. RemoveAt(s, i) = a \o b
    BY DEF RemoveAt, a, b
  <1>6. ASSUME NEW j \in 1 .. Len(s) - 1
        PROVE  (a \o b)[j] = s[IF j < i THEN j ELSE j + 1]
    <2>1. CASE j < i
      BY <1>1, <1>2, <1>4, <2>1
    <2>2. CASE ~ j < i
      <3>1. j - (i - 1) \in 1 .. Len(s) - i /\ i + (j - (i - 1)) = j + 1
        BY <1>1, <2>2
      <3>2. (a \o b)[j] = b[j - (i - 1)]
        BY <1>1, <1>4, <2>2
      <3> QED
        BY <1>3, <2>2, <3>1, <3>2
    <2> QED
      BY <2>1, <2>2
  <1> QED
    BY <1>4, <1>5, <1>6

LEMMA CountRemove ==
  ASSUME NEW S, NEW s \in Seq(S), NEW i \in 1 .. Len(s), NEW r
  PROVE  Count(r, s) = Count(r, RemoveAt(s, i)) + One(s[i] = r)
  <1> DEFINE t == RemoveAt(s, i)
             rest == Occurrences(r, s) \ {i}
             g(j) == IF j < i THEN j ELSE j + 1
             f == [j \in Occurrences(r, t) |-> g(j)]
  <1>1. /\ t \in Seq(S) /\ Len(t) = Len(s) - 1 /\ Len(s) \in Nat
        /\ \A j \in 1 .. Len(s) - 1 : t[j] = s[IF j < i THEN j ELSE j + 1]
    <2>1. Len(s) \in Nat
      OBVIOUS
    <2> QED
      BY <2>1, RemoveAtIs
  <1> HIDE DEF t
  <1>2. f \in Bijection(Occurrences(r, t), rest)
    <2>1. Occurrences(r, t) = {j \in 1 .. Len(s) - 1 : t[j] = r}
      <3>1. DOMAIN t = 1 .. Len(s) - 1
        BY <1>1
      <3> QED
        BY <3>1 DEF Occurrences
    <2>2. rest = {j \in 1 .. Len(s) : s[j] = r /\ j # i}
      BY <1>1 DEF Occurrences
    <2>3. ASSUME NEW j \in Occurrences(r, t)
          PROVE  g(j) \in rest
      <3>1. j \in 1 .. Len(s) - 1 /\ t[j] = r
        BY <2>1
      <3>2. g(j) \in 1 .. Len(s) /\ g(j) # i
        BY <1>1, <3>1
      <3>3. t[j] = s[g(j)]
        BY <1>1, <3>1
      <3> QED
        BY <2>2, <3>1, <3>2, <3>3
    <2>6. f \in [Occurrences(r, t) -> rest]
      BY <2>3
    <2>4. \A j, k \in Occurrences(r, t) : f[j] = f[k] => j = k
      BY <2>1
    <2>5. ASSUME NEW k \in rest
          PROVE  \E j \in Occurrences(r, t) : f[j] = k
      <3> DEFINE j == IF k < i THEN k ELSE k - 1
      <3>1. k \in 1 .. Len(s) /\ s[k] = r /\ k # i
        BY <2>2
      <3>2. j \in 1 .. Len(s) - 1 /\ g(j) = k
        BY <1>1, <3>1
      <3>3. t[j] = s[g(j)]
        BY <1>1, <3>2
      <3>4. j \in Occurrences(r, t)
        BY <2>1, <3>1, <3>2, <3>3
      <3> QED
        BY <3>2, <3>4
    <2> HIDE DEF f, rest
    <2> QED
      BY <2>4, <2>5, <2>6 DEF Bijection, Injection, Surjection, IsInjective
  <1>3. Count(r, t) = Cardinality(rest)
    <2>1. ExistsBijection(Occurrences(r, t), rest)
      BY <1>2 DEF ExistsBijection
    <2>2. IsFiniteSet(Occurrences(r, t))
      BY <1>1, CountIsNat
    <2> HIDE DEF rest
    <2> QED
      BY <2>1, <2>2, FS_Bijection DEF Count
  <1>4. Cardinality(rest) = IF s[i] = r THEN Count(r, s) - 1 ELSE Count(r, s)
    <2>1. i \in Occurrences(r, s) <=> s[i] = r
      BY DEF Occurrences
    <2> QED
      BY <2>1, CountIsNat, FS_RemoveElement DEF Count
  <1> QED
    BY <1>3, <1>4, CountIsNat DEF One, t

LEMMA CountTail ==
  ASSUME NEW S, NEW s \in Seq(S), s # <<>>, NEW r
  PROVE  Count(r, s) = Count(r, Tail(s)) + One(Head(s) = r)
  <1>1. 1 \in 1 .. Len(s) /\ Head(s) = s[1] /\ Tail(s) \in Seq(S)
    OBVIOUS
  <1>2. Tail(s) = SubSeq(s, 2, Len(s))
    BY TailIsSubSeq
  <1>3. SubSeq(s, 1, 0) = <<>>
    BY SubSeqEmpty
  <1>4. RemoveAt(s, 1) = Tail(s)
    BY <1>1, <1>2, <1>3, ConcatEmptySeq DEF RemoveAt
  <1>5. Count(r, s) = Count(r, RemoveAt(s, 1)) + One(s[1] = r)
    BY <1>1, CountRemove
  <1> QED
    BY <1>1, <1>4, <1>5
---------------------------------------------------------------------------
(* The queues of the channel.                                              *)

Message == [to : Requests \cup {"none"},
            code : {"ok", "refused", "busy", "relogin", "closed", "push"}]

\* The answers to a request that are on their way or in inq_.
Back(r, q) == Cardinality({i \in DOMAIN q : q[i].to = r})

\* Whom the messages of q are for.
To(q) == [i \in DOMAIN q |-> q[i].to]

LEMMA ToIsSeq ==
  ASSUME NEW q \in Seq(Message)
  PROVE  To(q) \in Seq(Requests \cup {"none"}) /\ Len(To(q)) = Len(q)
  <1>1. Len(q) \in Nat /\ DOMAIN q = 1 .. Len(q) /\ \A i \in 1 .. Len(q) : q[i] \in Message
    BY LenProperties
  <1>2. To(q) \in [1 .. Len(q) -> Requests \cup {"none"}]
    BY <1>1 DEF To, Message
  <1> QED
    BY <1>1, <1>2

LEMMA BackIsCount ==
  ASSUME NEW q \in Seq(Message), NEW r
  PROVE  Back(r, q) = Count(r, To(q))
  <1>1. Len(q) \in Nat /\ DOMAIN q = 1 .. Len(q)
    BY LenProperties
  <1>2. {i \in DOMAIN q : q[i].to = r} = Occurrences(r, To(q))
    BY <1>1 DEF To, Occurrences
  <1> QED
    BY <1>2 DEF Back, Count

LEMMA BackIsNat ==
  ASSUME NEW q \in Seq(Message), NEW r
  PROVE  Back(r, q) \in Nat
  BY BackIsCount, ToIsSeq, CountIsNat

LEMMA BackEmpty ==
  ASSUME NEW r
  PROVE  Back(r, <<>>) = 0
  <1>1. {i \in DOMAIN <<>> : <<>>[i].to = r} = {}
    OBVIOUS
  <1> QED
    BY <1>1, FS_EmptySet DEF Back

LEMMA BackAppend ==
  ASSUME NEW q \in Seq(Message), NEW a \in Message, NEW r
  PROVE  Append(q, a) \in Seq(Message) /\ Back(r, Append(q, a)) = Back(r, q) + One(a.to = r)
  <1> DEFINE R == Requests \cup {"none"}
  <1>1. Append(q, a) \in Seq(Message)
    OBVIOUS
  <1>2. To(q) \in Seq(R) /\ a.to \in R /\ Len(q) \in Nat /\ DOMAIN q = 1 .. Len(q)
    BY ToIsSeq, LenProperties DEF Message
  <1>3. To(Append(q, a)) = Append(To(q), a.to)
    <2>1. To(Append(q, a)) \in Seq(R) /\ Append(To(q), a.to) \in Seq(R)
      <3>1. To(Append(q, a)) \in Seq(R)
        BY <1>1, ToIsSeq
      <3>2. Append(To(q), a.to) \in Seq(R)
        BY <1>2, AppendProperties
      <3> QED
        BY <3>1, <3>2
    <2>2. Len(To(q)) = Len(q)
      BY ToIsSeq
    <2>3. Len(To(Append(q, a))) = Len(q) + 1 /\ Len(Append(To(q), a.to)) = Len(q) + 1
      BY <1>1, <1>2, <2>1, <2>2, AppendProperties DEF To
    <2>4. ASSUME NEW i \in 1 .. Len(q) + 1
          PROVE  To(Append(q, a))[i] = Append(To(q), a.to)[i]
      BY <1>1, <1>2, <2>2, AppendProperties DEF To
    <2> QED
      BY <2>1, <2>3, <2>4, SeqEqual
  <1>4. Count(r, Append(To(q), a.to)) = Count(r, To(q)) + One(a.to = r)
    BY <1>2, CountAppend
  <1> QED
    BY <1>1, <1>3, <1>4, BackIsCount

LEMMA BackTail ==
  ASSUME NEW q \in Seq(Message), q # <<>>, NEW r
  PROVE  Tail(q) \in Seq(Message) /\ Back(r, q) = Back(r, Tail(q)) + One(Head(q).to = r)
  <1> DEFINE R == Requests \cup {"none"}
  <1>1. Tail(q) \in Seq(Message) /\ Len(q) \in Nat \ {0} /\ DOMAIN q = 1 .. Len(q)
    BY LenProperties, EmptySeq
  <1>2. To(q) \in Seq(R) /\ Len(To(q)) = Len(q) /\ To(q) # <<>>
    BY <1>1, ToIsSeq, EmptySeq
  <1>3. To(Tail(q)) = Tail(To(q))
    <2>1. To(Tail(q)) \in Seq(R) /\ Tail(To(q)) \in Seq(R)
      <3>1. To(Tail(q)) \in Seq(R)
        BY <1>1, ToIsSeq
      <3>2. Tail(To(q)) \in Seq(R)
        BY <1>2, HeadTailProperties
      <3> QED
        BY <3>1, <3>2
    <2>2. Len(Tail(q)) = Len(q) - 1 /\ \A i \in 1 .. Len(q) - 1 : Tail(q)[i] = q[i + 1]
      BY HeadTailProperties
    <2>3. Len(Tail(To(q))) = Len(q) - 1 /\ \A i \in 1 .. Len(q) - 1 : Tail(To(q))[i] = To(q)[i + 1]
      BY <1>2, HeadTailProperties
    <2>4. Len(To(Tail(q))) = Len(q) - 1
      BY <1>1, <2>2, ToIsSeq
    <2>5. ASSUME NEW i \in 1 .. Len(q) - 1
          PROVE  To(Tail(q))[i] = Tail(To(q))[i]
      <3>1. i \in DOMAIN Tail(q) /\ i + 1 \in DOMAIN q
        BY <1>1, <2>2, LenProperties
      <3>2. To(Tail(q))[i] = Tail(q)[i].to /\ To(q)[i + 1] = q[i + 1].to
        BY <3>1 DEF To
      <3> QED
        BY <2>2, <2>3, <3>2
    <2> QED
      BY <2>1, <2>3, <2>4, <2>5, SeqEqual
  <1>4. Head(To(q)) = Head(q).to
    BY <1>1, <1>2 DEF To
  <1>5. Count(r, To(q)) = Count(r, Tail(To(q))) + One(Head(To(q)) = r)
    BY <1>2, CountTail
  <1> QED
    BY <1>1, <1>3, <1>4, <1>5, BackIsCount

LEMMA MatchIs ==
  ASSUME waiting \in Seq(Requests), NEW a, MatchAt(a) # 0
  PROVE  MatchAt(a) \in 1 .. Len(waiting) /\ Matches(a, waiting[MatchAt(a)])
  <1> DEFINE I == {i \in 1 .. Len(waiting) : Matches(a, waiting[i])}
  <1>1. I # {} /\ MatchAt(a) = Min(I)
    BY DEF MatchAt, SelectInSeq
  <1>2. I \subseteq Nat
    OBVIOUS
  <1> HIDE DEF I
  <1>3. PICK x \in I : \A y \in I : <<y, x>> \notin OpToRel(<, Nat)
    BY <1>1, <1>2, NatLessThanWellFounded, WFMin
  <1>4. \E z \in I : \A y \in I : z <= y
    <2>1. \A y \in I : x \in Nat /\ y \in Nat
      BY <1>2
    <2>2. \A y \in I : ~(y < x)
      BY <1>3, <2>1, Zenon DEF OpToRel
    <2> QED
      BY <2>1, <2>2
  <1>5. MatchAt(a) \in I
    BY <1>1, <1>4 DEF Min
  <1> QED
    BY <1>5 DEF I

---------------------------------------------------------------------------
(* The shape of the state.                                                 *)

AnyCode == {"ok", "refused", "busy", "relogin", "closed", "push"}

LEMMA MessageTyped ==
  ASSUME NEW r \in Requests \cup {"none"}, NEW code \in AnyCode
  PROVE  Answer(r, code) \in Message /\ Push \in Message /\ Closed \in Message
  BY DEF Answer, Push, Closed, Message, AnyCode

\* What run does with an answer.
LEMMA HandleTyped ==
  ASSUME TypeOK, NEW a, Handle(a)
  PROVE  /\ link' \in {"down", "up", "cut"} /\ main' \in {"start", "wait", "poll", "ready"}
         /\ outq' \in Seq(Requests \cup {"close"}) /\ waiting' \in Seq(Requests)
         /\ wire' \in Seq(Requests)
         /\ logined' \in BOOLEAN /\ auth' \in BOOLEAN /\ subscribed' \in BOOLEAN
         /\ executed' \in [Cmds -> Nat] /\ calls' \in [Cmds -> Nat]
  <1> DEFINE i == MatchAt(a)
             R == Requests \cup {"close"}
  <1>0. /\ link \in {"down", "up", "cut"} /\ main \in {"start", "wait", "poll", "ready"}
        /\ outq \in Seq(R) /\ waiting \in Seq(Requests) /\ wire \in Seq(Requests)
        /\ logined \in BOOLEAN /\ auth \in BOOLEAN /\ subscribed \in BOOLEAN
        /\ executed \in [Cmds -> Nat] /\ calls \in [Cmds -> Nat]
    BY DEF TypeOK
  <1>1. CASE EndSession /\ UNCHANGED <<outq, waiting, logined, calls, main>>
    <2>1. <<>> \in Seq(Requests)
      BY EmptySeq
    <2> QED
      BY <1>0, <1>1, <2>1 DEF EndSession
  <1>2. CASE outq' = Append(outq, "close") /\ UNCHANGED <<link, waiting, logined, calls, main, exchangeVars>>
    BY <1>0, <1>2, AppendProperties DEF exchangeVars
  <1>3. CASE UNCHANGED <<link, outq, waiting, logined, calls, main, exchangeVars>>
    BY <1>0, <1>3 DEF exchangeVars
  <1>4. CASE i # 0 /\ Retry(i) /\ UNCHANGED <<link, exchangeVars>>
    <2>1. i \in 1 .. Len(waiting) /\ waiting[i] \in Requests
      BY <1>0, <1>4, MatchIs
    <2>2. RemoveAt(waiting, i) \in Seq(Requests)
      BY <1>0, <2>1, RemoveAtIs
    <2>3. Append(outq, waiting[i]) \in Seq(R)
      BY <1>0, <2>1, AppendProperties
    <2> QED
      BY <1>0, <1>4, <2>2, <2>3 DEF Retry, exchangeVars
  <1>5. CASE /\ i # 0 /\ RunCallback(waiting[i]) /\ waiting' = RemoveAt(waiting, i)
             /\ UNCHANGED <<link, exchangeVars>>
    <2>1. i \in 1 .. Len(waiting) /\ waiting[i] \in Requests
      BY <1>0, <1>5, MatchIs
    <2>2. RemoveAt(waiting, i) \in Seq(Requests)
      BY <1>0, <2>1, RemoveAtIs
    <2>3. "sub" \in R
      BY DEF Requests, NoId
    <2>4. Append(outq, "sub") \in Seq(R)
      BY <1>0, <2>3, AppendProperties
    <2>5. outq' \in Seq(R) /\ waiting' \in Seq(Requests)
      BY <1>0, <1>5, <2>2, <2>4 DEF RunCallback
    <2>6. calls' \in [Cmds -> Nat]
      BY <1>0, <1>5 DEF RunCallback
    <2>7. main' \in {"start", "wait", "poll", "ready"} /\ logined' \in BOOLEAN
      BY <1>0, <1>5 DEF RunCallback
    <2> QED
      BY <1>0, <1>5, <2>5, <2>6, <2>7 DEF exchangeVars
  <1> QED
    BY <1>1, <1>2, <1>3, <1>4, <1>5 DEF Handle

LEMMA TypeKeeps ==
  ASSUME TypeOK, [Next]_vars
  PROVE  TypeOK'
  <1> DEFINE R == Requests \cup {"close"}
  <1>0. /\ kind \in Kinds /\ outq \in Seq(R) /\ waiting \in Seq(Requests)
        /\ wire \in Seq(Requests) /\ inq \in Seq(Message)
    BY DEF TypeOK, Message
  <1>1. Kinds \subseteq {"private", "public"} /\ {"login", "sub"} \subseteq Requests /\ Cmds \subseteq Requests
    BY ChannelAssumption DEF Requests, NoId
  <1>2. CASE WaitLogined \/ SpuriousWakeup \/ Poll
    BY <1>2 DEF TypeOK, WaitLogined, SpuriousWakeup, Poll, clientVars, exchangeVars, history
  <1>3. CASE \E c \in Cmds : Send(c)
    <2>1. outq' \in Seq(R)
      BY <1>0, <1>1, <1>3, AppendProperties DEF Send
    <2> QED
      BY <1>3, <2>1 DEF TypeOK, Send, startup, exchangeVars, history
  <1>4. CASE Connect
    <2>1. outq' \in Seq(R)
      BY <1>0, <1>1, <1>4, AppendProperties DEF Connect, Greet
    <2> QED
      BY <1>4, <2>1 DEF TypeOK, Connect, startup
  <1>5. CASE PopOut
    <2>1. Head(outq) \in R /\ Tail(outq) \in Seq(R)
      BY <1>0, <1>5, HeadTailProperties DEF PopOut
    <2>2. ASSUME Head(outq) # "close"
          PROVE  /\ Append(waiting, Head(outq)) \in Seq(Requests)
                 /\ Append(wire, Head(outq)) \in Seq(Requests)
      BY <1>0, <2>1, <2>2, AppendProperties
    <2>3. outq' \in Seq(R) /\ waiting' \in Seq(Requests) /\ wire' \in Seq(Requests)
      <3>1. <<>> \in Seq(Requests)
        BY EmptySeq
      <3> QED
        BY <1>0, <1>5, <2>1, <2>2, <3>1 DEF PopOut, EndSession, exchangeVars
    <2> QED
      BY <1>5, <2>3 DEF TypeOK, PopOut, EndSession, startup, exchangeVars, history
  <1>6. CASE OutEmpty \/ InEmpty
    BY <1>6 DEF TypeOK, OutEmpty, InEmpty, startup, exchangeVars, history
  <1>7. CASE Drain
    <2>1. Tail(inq) \in Seq(Message)
      BY <1>0, <1>7, HeadTailProperties DEF Drain
    <2>2. Handle(Head(inq))
      BY <1>7 DEF Drain
    <2> QED
      BY <1>7, <2>1, <2>2, HandleTyped DEF TypeOK, Drain, Message, history
  <1>8. CASE Serve
    <2>1. Head(wire) \in Requests /\ Tail(wire) \in Seq(Requests)
      BY <1>0, <1>8, HeadTailProperties DEF Serve
    <2>2. PICK code \in Codes(Head(wire)) :
            /\ inq' = inq \o <<Answer(Head(wire), code)>>
                        \o (IF Head(wire) = "sub" /\ code = "ok" THEN <<Push>> ELSE <<>>)
            /\ auth' = (auth \/ (Head(wire) = "login" /\ code = "ok"))
            /\ subscribed' = (subscribed \/ (Head(wire) = "sub" /\ code = "ok"))
            /\ executed' = IF Head(wire) \in Cmds /\ code = "ok"
                           THEN [executed EXCEPT ![Head(wire)] = CarriedOutAgain(@)]
                           ELSE executed
      BY <1>8 DEF Serve
    <2>3. code \in AnyCode
      BY DEF Codes, AnyCode
    <2>4. Answer(Head(wire), code) \in Message /\ Push \in Message
      BY <2>1, <2>3, MessageTyped
    <2>5. inq' \in Seq(Message)
      BY <1>0, <2>2, <2>4
    <2>6. executed' \in [Cmds -> Nat]
      BY <2>2, ChannelAssumption DEF TypeOK, CarriedOutAgain
    <2> QED
      BY <1>8, <2>1, <2>2, <2>5, <2>6 DEF TypeOK, Serve, startup, Message
  <1>9. CASE Break
    <2>1. PICK k \in 0 .. Len(inq) : inq' = Append(SubSeq(inq, 1, k), Closed)
      BY <1>9 DEF Break
    <2>2. Closed \in Message
      BY DEF Closed, Answer, Message
    <2>3. inq' \in Seq(Message)
      BY <1>0, <2>1, <2>2
    <2>4. wire' = <<>> /\ <<>> \in Seq(Requests)
      BY <1>9, EmptySeq DEF Break
    <2> QED
      BY <1>9, <2>3, <2>4 DEF TypeOK, Break, startup, Message
  <1>10. CASE UNCHANGED vars
    BY <1>10 DEF TypeOK, vars, startup, clientVars, exchangeVars, history
  <1> QED
    BY <1>2, <1>3, <1>4, <1>5, <1>6, <1>7, <1>8, <1>9, <1>10 DEF Next, Run

---------------------------------------------------------------------------
(* The invariant.                                                          *)

\* Where a command is.
Places(c) == Count(c, outq) + Count(c, waiting) + calls[c]

OnePlace == \A c \in Cmds : Places(c) = One(c \in sent)

UnderWay == link = "up" => \A c \in Cmds : Count(c, wire) + Back(c, inq) <= Count(c, waiting)

\* The commands that have been carried out.
Ran == {c \in Cmds : executed[c] > 0}

\* Nobody hears of a command that was not carried out.
Carried ==
  /\ Ran \subseteq sent
  /\ \A c \in Cmds : calls[c] > 0 => c \in Ran
  /\ \A i \in 1 .. Len(inq) : inq[i].code = "ok" /\ inq[i].to \in Cmds => inq[i].to \in Ran

\* Until the login of the private channel nobody subscribes.
LoginFirst ==
  kind = "private" /\ ~logined =>
    /\ main # "ready" /\ ~inited
    /\ Count("sub", outq) = 0 /\ Count("sub", waiting) = 0 /\ Count("sub", wire) = 0
    /\ \A i \in 1 .. Len(inq) : inq[i] # Push

ChannelInv == TypeOK /\ OnePlace /\ UnderWay /\ Carried /\ LoginFirst

LEMMA Typed ==
  ASSUME TypeOK
  PROVE  /\ outq \in Seq(Requests \cup {"close"}) /\ waiting \in Seq(Requests)
         /\ wire \in Seq(Requests) /\ inq \in Seq(Message) /\ calls \in [Cmds -> Nat]
         /\ \A r : /\ Count(r, outq) \in Nat /\ Count(r, waiting) \in Nat
                   /\ Count(r, wire) \in Nat /\ Back(r, inq) \in Nat
  <1>1. /\ outq \in Seq(Requests \cup {"close"}) /\ waiting \in Seq(Requests)
        /\ wire \in Seq(Requests) /\ inq \in Seq(Message) /\ calls \in [Cmds -> Nat]
    BY DEF TypeOK, Message
  <1> QED
    BY <1>1, CountIsNat, BackIsNat

LEMMA CommandsAreOthers ==
  ASSUME NEW c \in Cmds
  PROVE  c \in Requests /\ c \notin {"login", "sub", "close", "none"} /\ c \notin NoId
  BY ChannelAssumption DEF Requests, NoId

LEMMA HandleIs ==
  ASSUME NEW a, Handle(a)
  PROVE  executed' = executed
  BY DEF Handle, EndSession, exchangeVars

\* What run does with an answer a, as far as a command c is concerned.
LEMMA HandleCounts ==
  ASSUME TypeOK, NEW a, Handle(a), NEW c \in Cmds
  PROVE  /\ Places(c)' = Places(c)
         /\ Count(c, waiting) <= Count(c, waiting)' + One(a.to = c)
         /\ calls'[c] = calls[c] \/ (a.code = "ok" /\ a.to = c /\ Count(c, waiting) > 0
                                    /\ calls'[c] = calls[c] + 1)
         /\ executed' = executed
         /\ link' = "up" => link = "up" /\ wire' = wire
  <1> DEFINE i == MatchAt(a)
             R == Requests \cup {"close"}
  <1>0. /\ outq \in Seq(R) /\ waiting \in Seq(Requests) /\ calls \in [Cmds -> Nat]
        /\ Count(c, outq) \in Nat /\ Count(c, waiting) \in Nat /\ calls[c] \in Nat
    BY Typed
  <1>1. "close" \in R /\ "sub" \in R /\ c # "close" /\ c # "sub"
    BY CommandsAreOthers DEF Requests, NoId
  <1>2. CASE EndSession /\ UNCHANGED <<outq, waiting, logined, calls, main>>
    BY <1>0, <1>2 DEF EndSession, Places, One
  <1>3. CASE outq' = Append(outq, "close") /\ UNCHANGED <<link, waiting, logined, calls, main, exchangeVars>>
    <2>1. Count(c, Append(outq, "close")) = Count(c, outq) + One("close" = c)
      BY <1>0, <1>1, CountAppend
    <2> QED
      BY <1>0, <1>1, <1>3, <2>1 DEF Places, One, exchangeVars
  <1>4. CASE UNCHANGED <<link, outq, waiting, logined, calls, main, exchangeVars>>
    BY <1>0, <1>4 DEF Places, One, exchangeVars
  <1>5. ASSUME i # 0
        PROVE  /\ i \in 1 .. Len(waiting) /\ waiting[i] \in Requests
               /\ waiting[i] = c => a.to = c
               /\ RemoveAt(waiting, i) \in Seq(Requests)
               /\ Count(c, RemoveAt(waiting, i)) \in Nat
               /\ Count(c, waiting) = Count(c, RemoveAt(waiting, i)) + One(waiting[i] = c)
    <2>1. i \in 1 .. Len(waiting) /\ waiting[i] \in Requests /\ Matches(a, waiting[i])
      BY <1>0, <1>5, MatchIs
    <2>2. waiting[i] = c => a.to = c
      BY <2>1, CommandsAreOthers DEF Matches
    <2>3. RemoveAt(waiting, i) \in Seq(Requests)
      BY <1>0, <2>1, RemoveAtIs
    <2>4. Count(c, RemoveAt(waiting, i)) \in Nat
      BY <2>3, CountIsNat
    <2>5. Count(c, waiting) = Count(c, RemoveAt(waiting, i)) + One(waiting[i] = c)
      BY <1>0, <2>1, CountRemove
    <2> QED
      BY <2>1, <2>2, <2>3, <2>4, <2>5
  <1>6. CASE i # 0 /\ Retry(i) /\ UNCHANGED <<link, exchangeVars>>
    <2> HIDE DEF i, R
    <2>5. waiting[i] \in R /\ (c # waiting[i] \/ waiting[i] \in Cmds)
      BY <1>5, <1>6 DEF R
    <2>1. Count(c, Append(outq, waiting[i])) = Count(c, outq) + One(waiting[i] = c)
      BY <1>0, <2>5, CountAppend
    <2>2. outq' = Append(outq, waiting[i]) /\ waiting' = RemoveAt(waiting, i) /\ calls' = calls
      BY <1>6 DEF Retry
    <2>3. Places(c)' = Places(c)
      BY <1>0, <1>5, <1>6, <2>1, <2>2 DEF Places, One
    <2>4. Count(c, waiting) <= Count(c, waiting)' + One(a.to = c)
      BY <1>5, <1>6, <2>2 DEF One
    <2> QED
      BY <1>6, <2>2, <2>3, <2>4 DEF exchangeVars
  <1>7. CASE /\ a.code = "ok" /\ i # 0 /\ RunCallback(waiting[i]) /\ waiting' = RemoveAt(waiting, i)
             /\ UNCHANGED <<link, exchangeVars>>
    <2>1. Count(c, Append(outq, "sub")) = Count(c, outq) + One("sub" = c)
      BY <1>0, <1>1, CountAppend
    <2> HIDE DEF i
    <2>2. Count(c, outq') = Count(c, outq)
      BY <1>0, <1>1, <1>7, <2>1 DEF RunCallback, One
    <2>3. calls'[c] = calls[c] + One(waiting[i] = c)
      BY <1>0, <1>7 DEF RunCallback, One
    <2>4. Places(c)' = Places(c)
      BY <1>0, <1>5, <1>7, <2>2, <2>3 DEF Places, One
    <2>5. Count(c, waiting) <= Count(c, waiting)' + One(a.to = c)
      BY <1>5, <1>7 DEF One
    <2>6. calls'[c] = calls[c] \/ (a.to = c /\ Count(c, waiting) > 0 /\ calls'[c] = calls[c] + 1)
      BY <1>0, <1>5, <1>7, <2>3 DEF One
    <2> QED
      BY <1>7, <2>4, <2>5, <2>6 DEF exchangeVars
  <1> QED
    BY <1>2, <1>3, <1>4, <1>6, <1>7 DEF Handle

\* The same as far as the subscriptions are concerned.
LEMMA HandleSubscribes ==
  ASSUME TypeOK, NEW a, Handle(a), ~logined'
  PROVE  /\ ~logined
         /\ Count("sub", outq) = 0 /\ Count("sub", waiting) = 0 =>
              Count("sub", outq)' = 0 /\ Count("sub", waiting)' = 0
         /\ wire' = wire \/ wire' = <<>>
         /\ main' = "ready" => main = "ready"
  <1> DEFINE i == MatchAt(a)
             R == Requests \cup {"close"}
  <1>0. /\ outq \in Seq(R) /\ waiting \in Seq(Requests)
        /\ Count("sub", outq) \in Nat /\ Count("sub", waiting) \in Nat
    BY Typed
  <1>1. CASE EndSession /\ UNCHANGED <<outq, waiting, logined, calls, main>>
    BY <1>1 DEF EndSession
  <1>2. CASE outq' = Append(outq, "close") /\ UNCHANGED <<link, waiting, logined, calls, main, exchangeVars>>
    <2>2. "close" \in R /\ "sub" # "close"
      OBVIOUS
    <2>1. Count("sub", Append(outq, "close")) = Count("sub", outq) + One("close" = "sub")
      BY <1>0, <2>2, CountAppend
    <2> QED
      BY <1>0, <1>2, <2>1 DEF One, exchangeVars
  <1>3. CASE UNCHANGED <<link, outq, waiting, logined, calls, main, exchangeVars>>
    BY <1>3 DEF exchangeVars
  <1>4. ASSUME i # 0
        PROVE  /\ i \in 1 .. Len(waiting) /\ waiting[i] \in Requests
               /\ Count("sub", waiting) = 0 => waiting[i] # "sub" /\ Count("sub", RemoveAt(waiting, i)) = 0
    <2>1. i \in 1 .. Len(waiting) /\ waiting[i] \in Requests
      BY <1>0, <1>4, MatchIs
    <2>2. RemoveAt(waiting, i) \in Seq(Requests)
      BY <1>0, <2>1, RemoveAtIs
    <2>3. Count("sub", RemoveAt(waiting, i)) \in Nat
      BY <2>2, CountIsNat
    <2>4. Count("sub", waiting) = Count("sub", RemoveAt(waiting, i)) + One(waiting[i] = "sub")
      BY <1>0, <2>1, CountRemove
    <2> QED
      BY <2>1, <2>3, <2>4 DEF One
  <1>5. CASE i # 0 /\ Retry(i) /\ UNCHANGED <<link, exchangeVars>>
    <2> HIDE DEF i, R
    <2>2. waiting[i] \in R
      BY <1>4, <1>5 DEF R
    <2>1. ASSUME waiting[i] # "sub"
          PROVE  Count("sub", Append(outq, waiting[i])) = Count("sub", outq) + One(waiting[i] = "sub")
      BY <1>0, <2>1, <2>2, CountAppend
    <2> QED
      BY <1>0, <1>4, <1>5, <2>1 DEF Retry, One, exchangeVars
  <1>6. CASE /\ i # 0 /\ RunCallback(waiting[i]) /\ waiting' = RemoveAt(waiting, i)
             /\ UNCHANGED <<link, exchangeVars>>
    BY <1>0, <1>4, <1>6 DEF RunCallback, exchangeVars
  <1> QED
    BY <1>1, <1>2, <1>3, <1>5, <1>6 DEF Handle

---------------------------------------------------------------------------
(* The invariant is kept.                                                  *)

\* What the exchange does with the request it serves.
LEMMA ServeIs ==
  ASSUME TypeOK, Serve
  PROVE  /\ Head(wire) \in Requests /\ Tail(wire) \in Seq(Requests)
         /\ \E code \in AnyCode :
              /\ \/ inq' = Append(inq, Answer(Head(wire), code))
                 \/ /\ Head(wire) = "sub"
                    /\ inq' = Append(Append(inq, Answer(Head(wire), code)), Push)
              /\ executed' = IF Head(wire) \in Cmds /\ code = "ok"
                             THEN [executed EXCEPT ![Head(wire)] = CarriedOutAgain(@)]
                             ELSE executed
              /\ auth' = (auth \/ (Head(wire) = "login" /\ code = "ok"))
              /\ kind = "private" /\ Head(wire) # "login" /\ ~auth => code = "relogin"
  <1>1. wire \in Seq(Requests) /\ wire # <<>> /\ inq \in Seq(Message)
    BY Typed DEF Serve
  <1>2. Head(wire) \in Requests /\ Tail(wire) \in Seq(Requests)
    BY <1>1, HeadTailProperties
  <1>3. PICK code \in Codes(Head(wire)) :
          /\ inq' = inq \o <<Answer(Head(wire), code)>>
                      \o (IF Head(wire) = "sub" /\ code = "ok" THEN <<Push>> ELSE <<>>)
          /\ executed' = IF Head(wire) \in Cmds /\ code = "ok"
                         THEN [executed EXCEPT ![Head(wire)] = CarriedOutAgain(@)]
                         ELSE executed
          /\ auth' = (auth \/ (Head(wire) = "login" /\ code = "ok"))
    BY DEF Serve
  <1>4. /\ code \in AnyCode
        /\ kind = "private" /\ Head(wire) # "login" /\ ~auth => code = "relogin"
    BY DEF Codes, AnyCode
  <1> DEFINE a == Answer(Head(wire), code)
  <1>5. a \in Message /\ Push \in Message
    BY <1>2, <1>4, MessageTyped
  <1> HIDE DEF a
  <1>6. inq \o <<a>> = Append(inq, a) /\ Append(inq, a) \in Seq(Message)
    BY <1>1, <1>5
  <1>7. Append(inq, a) \o <<>> = Append(inq, a)
    BY <1>6, ConcatEmptySeq
  <1>8. Append(inq, a) \o <<Push>> = Append(Append(inq, a), Push)
    BY <1>5, <1>6
  <1>9. inq' = inq \o <<a>> \o (IF Head(wire) = "sub" /\ code = "ok" THEN <<Push>> ELSE <<>>)
    BY <1>3 DEF a
  <1>10. inq' = Append(inq, a) \/ (Head(wire) = "sub" /\ inq' = Append(Append(inq, a), Push))
    BY <1>6, <1>7, <1>8, <1>9
  <1> QED
    BY <1>2, <1>3, <1>4, <1>10 DEF a

LEMMA OnePlaceKeeps ==
  ASSUME TypeOK, OnePlace, [Next]_vars
  PROVE  OnePlace'
  <1> DEFINE R == Requests \cup {"close"}
  <1> SUFFICES ASSUME NEW c \in Cmds
               PROVE  Places(c)' = One(c \in sent)'
    BY DEF OnePlace
  <1>0. /\ outq \in Seq(R) /\ waiting \in Seq(Requests)
        /\ Count(c, outq) \in Nat /\ Count(c, waiting) \in Nat /\ calls[c] \in Nat
    BY Typed
  <1>1. "login" \in R /\ "sub" \in R /\ c # "login" /\ c # "sub" /\ c # "close"
    BY CommandsAreOthers DEF Requests, NoId
  <1>2. Places(c) = One(c \in sent)
    BY DEF OnePlace
  <1>3. CASE UNCHANGED <<outq, waiting, calls, sent>>
    BY <1>2, <1>3 DEF Places
  <1>4. ASSUME NEW d \in Cmds, Send(d)
        PROVE  Places(c)' = One(c \in sent)'
    <2>1. d \in R
      BY DEF Requests
    <2>2. Count(c, Append(outq, d)) = Count(c, outq) + One(d = c)
      BY <1>0, <2>1, CountAppend
    <2>3. /\ outq' = Append(outq, d) /\ waiting' = waiting /\ calls' = calls
          /\ d \notin sent /\ sent' = sent \cup {d}
      BY <1>4 DEF Send
    <2> QED
      BY <1>0, <1>2, <2>2, <2>3 DEF Places, One
  <1>5. CASE Connect
    <2>1. /\ Count(c, Append(outq, "login")) = Count(c, outq) + One("login" = c)
          /\ Count(c, Append(outq, "sub")) = Count(c, outq) + One("sub" = c)
      <3>1. Count(c, Append(outq, "login")) = Count(c, outq) + One("login" = c)
        BY <1>0, <1>1, CountAppend
      <3>2. Count(c, Append(outq, "sub")) = Count(c, outq) + One("sub" = c)
        BY <1>0, <1>1, CountAppend
      <3> QED
        BY <3>1, <3>2
    <2>2. Count(c, outq') = Count(c, outq)
      BY <1>0, <1>1, <1>5, <2>1 DEF Connect, Greet, One
    <2> QED
      BY <1>2, <1>5, <2>2 DEF Connect, Places
  <1>6. CASE PopOut
    <2> DEFINE x == Head(outq)
    <2>1. outq # <<>> /\ outq' = Tail(outq) /\ calls' = calls /\ sent' = sent
      BY <1>6 DEF PopOut
    <2>2. x \in R /\ Tail(outq) \in Seq(R)
      BY <1>0, <2>1, HeadTailProperties
    <2>3. Count(c, outq) = Count(c, outq') + One(x = c)
      BY <1>0, <2>1, CountTail
    <2>4. Count(c, outq') \in Nat
      BY <2>1, <2>2, CountIsNat
    <2> HIDE DEF x
    <2>5. CASE x = "close"
      <3>1. waiting' = waiting
        BY <1>6, <2>5 DEF PopOut, x
      <3> QED
        BY <1>0, <1>1, <1>2, <2>1, <2>3, <2>4, <2>5, <3>1 DEF Places, One
    <2>6. CASE x # "close"
      <3>1. waiting' = Append(waiting, x)
        BY <1>6, <2>6 DEF PopOut, x
      <3>2. x \in Requests /\ (c # x \/ x \in Cmds)
        BY <2>2, <2>6
      <3>3. Count(c, Append(waiting, x)) = Count(c, waiting) + One(x = c)
        BY <1>0, <3>2, CountAppend
      <3> QED
        BY <1>0, <1>2, <2>1, <2>3, <2>4, <3>1, <3>3 DEF Places, One
    <2> QED
      BY <2>5, <2>6
  <1>7. CASE Drain
    <2>1. Handle(Head(inq)) /\ sent' = sent
      BY <1>7 DEF Drain
    <2>2. Places(c)' = Places(c)
      BY <2>1, HandleCounts
    <2> QED
      BY <1>2, <2>1, <2>2
  <1> QED
    BY <1>3, <1>4, <1>5, <1>6, <1>7
       DEF Next, Run, vars, clientVars, WaitLogined, SpuriousWakeup, Poll, OutEmpty, InEmpty,
           Serve, Break

LEMMA UnderWayKeeps ==
  ASSUME TypeOK, UnderWay, [Next]_vars
  PROVE  UnderWay'
  <1> DEFINE R == Requests \cup {"close"}
  <1> SUFFICES ASSUME link' = "up", NEW c \in Cmds
               PROVE  Count(c, wire') + Back(c, inq') <= Count(c, waiting')
    BY DEF UnderWay
  <1>0. /\ outq \in Seq(R) /\ waiting \in Seq(Requests) /\ wire \in Seq(Requests)
        /\ inq \in Seq(Message)
        /\ Count(c, wire) \in Nat /\ Count(c, waiting) \in Nat /\ Back(c, inq) \in Nat
    BY Typed
  <1>1. c # "none" /\ c # "close"
    BY CommandsAreOthers
  <1>2. ASSUME link = "up"
        PROVE  Count(c, wire) + Back(c, inq) <= Count(c, waiting)
    BY <1>2 DEF UnderWay
  <1>3. CASE UNCHANGED <<link, wire, inq, waiting>>
    BY <1>2, <1>3
  <1>4. CASE Connect
    <2>1. wire' = waiting /\ waiting' = waiting /\ inq' = <<>>
      BY <1>4 DEF Connect
    <2>2. Back(c, <<>>) = 0
      BY BackEmpty
    <2> QED
      BY <1>0, <2>1, <2>2
  <1>5. CASE PopOut
    <2> DEFINE x == Head(outq)
    <2>1. /\ x # "close" /\ link = "up" /\ inq' = inq
          /\ wire' = Append(wire, x) /\ waiting' = Append(waiting, x)
      BY <1>5 DEF PopOut, EndSession
    <2>2. outq # <<>>
      BY <1>5 DEF PopOut
    <2>3. x \in R
      BY <1>0, <2>2, HeadTailProperties
    <2>4. x \in Requests /\ (c # x \/ x \in Cmds)
      BY <2>1, <2>3
    <2> HIDE DEF x
    <2>5. Count(c, wire') = Count(c, wire) + One(x = c)
      BY <1>0, <2>1, <2>4, CountAppend
    <2>6. Count(c, Append(waiting, x)) = Count(c, waiting) + One(x = c)
      BY <1>0, <2>4, CountAppend
    <2> QED
      BY <1>0, <1>2, <2>1, <2>5, <2>6 DEF One
  <1>6. CASE Drain
    <2> DEFINE a == Head(inq)
    <2>1. inq # <<>> /\ inq' = Tail(inq) /\ Handle(a)
      BY <1>6 DEF Drain
    <2>2. Back(c, inq) = Back(c, inq') + One(a.to = c) /\ inq' \in Seq(Message)
      BY <1>0, <2>1, BackTail
    <2>3. Back(c, inq') \in Nat
      BY <2>2, BackIsNat
    <2>4. /\ Count(c, waiting) <= Count(c, waiting') + One(a.to = c)
          /\ link' = "up" => link = "up" /\ wire' = wire
      BY <2>1, HandleCounts
    <2>5. waiting' \in Seq(Requests)
      BY <2>1, HandleTyped
    <2>6. Count(c, waiting') \in Nat
      BY <2>5, CountIsNat
    <2> HIDE DEF a
    <2> QED
      BY <1>0, <1>2, <2>2, <2>3, <2>4, <2>6 DEF One
  <1>7. CASE Serve
    <2> DEFINE x == Head(wire)
    <2>1. link = "up" /\ wire # <<>> /\ wire' = Tail(wire) /\ waiting' = waiting
      BY <1>7 DEF Serve
    <2>2. Tail(wire) \in Seq(Requests) /\ x \in Requests
      BY <1>0, <2>1, HeadTailProperties
    <2>3. Count(c, wire) = Count(c, wire') + One(x = c)
      BY <1>0, <2>1, CountTail
    <2>4. Count(c, wire') \in Nat
      BY <2>1, <2>2, CountIsNat
    <2>5. PICK code \in AnyCode : \/ inq' = Append(inq, Answer(x, code))
                                  \/ inq' = Append(Append(inq, Answer(x, code)), Push)
      BY <1>7, ServeIs
    <2> DEFINE a == Answer(x, code)
               q == Append(inq, a)
    <2>6. a \in Message /\ Push \in Message /\ a.to = x /\ Push.to = "none"
      <3>1. a \in Message /\ Push \in Message
        BY <2>2, MessageTyped
      <3> QED
        BY <3>1 DEF Answer, Push
    <2> HIDE DEF a, x
    <2>7. q \in Seq(Message) /\ Back(c, q) = Back(c, inq) + One(x = c)
      BY <1>0, <2>6, BackAppend
    <2> HIDE DEF q
    <2>8. Back(c, Append(q, Push)) = Back(c, q) + One("none" = c)
      BY <2>6, <2>7, BackAppend
    <2>9. inq' = q \/ inq' = Append(q, Push)
      BY <2>5 DEF q, a
    <2>10. Back(c, inq') = Back(c, inq) + One(x = c)
      <3>1. One("none" = c) = 0 /\ One(x = c) \in Nat
        BY <1>1 DEF One
      <3>2. Back(c, Append(q, Push)) = Back(c, q)
        BY <1>0, <2>7, <2>8, <3>1
      <3> QED
        BY <2>7, <2>9, <3>2
    <2> QED
      BY <1>0, <1>2, <2>1, <2>3, <2>4, <2>10 DEF One
  <1>8. CASE Break
    BY <1>8 DEF Break
  <1> QED
    BY <1>3, <1>4, <1>5, <1>6, <1>7, <1>8
       DEF Next, Run, vars, clientVars, exchangeVars, WaitLogined, SpuriousWakeup, Poll, Send,
           OutEmpty, InEmpty

\* A command that the exchange serves is waited for and nowhere else.
LEMMA ServedIsWaiting ==
  ASSUME TypeOK, OnePlace, UnderWay, Serve, Head(wire) \in Cmds
  PROVE  /\ Head(wire) \in sent /\ calls[Head(wire)] = 0
         /\ Count(Head(wire), outq) = 0 /\ Count(Head(wire), Tail(wire)) = 0
         /\ Back(Head(wire), inq) = 0
  <1> DEFINE x == Head(wire)
  <1>0. wire \in Seq(Requests) /\ wire # <<>> /\ link = "up"
    BY Typed DEF Serve
  <1>1. Count(x, wire) = Count(x, Tail(wire)) + 1
    BY <1>0, CountTail DEF One
  <1>2. Tail(wire) \in Seq(Requests)
    BY <1>0, HeadTailProperties
  <1>3. Count(x, Tail(wire)) \in Nat
    BY <1>2, CountIsNat
  <1>4. Count(x, wire) + Back(x, inq) <= Count(x, waiting) /\ Places(x) = One(x \in sent)
    BY <1>0 DEF UnderWay, OnePlace
  <1>5. Count(x, outq) \in Nat /\ Count(x, waiting) \in Nat /\ Back(x, inq) \in Nat
    BY Typed
  <1>6. calls[x] \in Nat
    BY Typed
  <1> HIDE DEF x
  <1>7. /\ x \in sent /\ calls[x] = 0 /\ Count(x, outq) = 0
        /\ Count(x, Tail(wire)) = 0 /\ Back(x, inq) = 0
    BY <1>1, <1>3, <1>4, <1>5, <1>6 DEF Places, One
  <1> QED
    BY <1>7 DEF x

LEMMA CarriedKeeps ==
  ASSUME TypeOK, OnePlace, UnderWay, Carried, [Next]_vars
  PROVE  Carried'
  <1> DEFINE Fine(a, done) == a.code = "ok" /\ a.to \in Cmds => a.to \in done
  <1>0. /\ wire \in Seq(Requests) /\ inq \in Seq(Message) /\ Len(inq) \in Nat
        /\ Ran \subseteq sent /\ Ran \subseteq Cmds /\ executed \in [Cmds -> Nat]
        /\ \A c \in Cmds : calls[c] > 0 => c \in Ran
        /\ \A i \in 1 .. Len(inq) : Fine(inq[i], Ran)
    BY Typed, LenProperties DEF Carried, TypeOK
  <1>1. CASE UNCHANGED <<executed, sent, calls, inq>>
    BY <1>1 DEF Carried, Ran
  <1>2. ASSUME NEW d \in Cmds, Send(d)
        PROVE  Carried'
    BY <1>0, <1>2 DEF Carried, Ran, Send, exchangeVars
  <1>3. CASE Connect
    <2>1. executed' = executed /\ sent' = sent /\ calls' = calls /\ inq' = <<>>
      BY <1>3 DEF Connect
    <2>2. 1 .. Len(inq') = {}
      BY <2>1, EmptySeq
    <2> QED
      BY <1>0, <2>1, <2>2 DEF Carried, Ran
  <1>4. CASE Drain
    <2> DEFINE a == Head(inq)
    <2>1. inq # <<>> /\ inq' = Tail(inq) /\ Handle(a) /\ sent' = sent
      BY <1>4 DEF Drain
    <2>2. /\ Len(inq') = Len(inq) - 1 /\ 1 \in 1 .. Len(inq) /\ a = inq[1]
          /\ \A i \in 1 .. Len(inq) - 1 : inq'[i] = inq[i + 1]
      BY <1>0, <2>1, HeadTailProperties, EmptySeq
    <2>3. executed' = executed
      BY <2>1, HandleIs
    <2>4. ASSUME NEW c \in Cmds, calls'[c] > 0
          PROVE  c \in Ran
      <3>1. calls'[c] = calls[c] \/ (a.code = "ok" /\ a.to = c)
        BY <2>1, HandleCounts
      <3>2. Fine(a, Ran)
        BY <1>0, <2>2
      <3> QED
        BY <1>0, <2>4, <3>1, <3>2
    <2>5. ASSUME NEW i \in 1 .. Len(inq')
          PROVE  Fine(inq'[i], Ran)
      <3>1. i + 1 \in 1 .. Len(inq) /\ inq'[i] = inq[i + 1]
        BY <1>0, <2>2
      <3> QED
        BY <1>0, <3>1
    <2> QED
      BY <1>0, <2>1, <2>3, <2>4, <2>5 DEF Carried, Ran
  <1>5. CASE Serve
    <2> DEFINE x == Head(wire)
    <2>1. link = "up" /\ wire # <<>> /\ sent' = sent /\ calls' = calls
      BY <1>5 DEF Serve
    <2>2. x \in Requests
      BY <1>5, ServeIs
    <2>3. PICK code \in AnyCode :
            /\ \/ inq' = Append(inq, Answer(x, code))
               \/ inq' = Append(Append(inq, Answer(x, code)), Push)
            /\ executed' = IF x \in Cmds /\ code = "ok"
                           THEN [executed EXCEPT ![x] = CarriedOutAgain(@)] ELSE executed
      BY <1>5, ServeIs
    <2> DEFINE a == Answer(x, code)
    <2>4. x \in Cmds => x \in sent
      BY <1>5, ServedIsWaiting
    <2>5. Ran' = IF x \in Cmds /\ code = "ok" THEN Ran \cup {x} ELSE Ran
      <3>1. \A c \in Cmds : CarriedOutAgain(executed[c]) > 0
        BY <1>0, ChannelAssumption DEF CarriedOutAgain
      <3> HIDE DEF x
      <3> QED
        BY <1>0, <2>3, <3>1 DEF Ran
    <2>6. a \in Message /\ Push \in Message
      BY <2>2, MessageTyped
    <2>7. Fine(a, Ran') /\ Fine(Push, Ran')
      BY <2>5 DEF Answer, Push
    <2> HIDE DEF a, x
    <2>8. Ran \subseteq Ran' /\ Ran' \subseteq sent
      BY <1>0, <2>5, <2>4
    <2>9. /\ Append(inq, a) \in Seq(Message) /\ Len(Append(inq, a)) = Len(inq) + 1
          /\ \A i \in 1 .. Len(inq) + 1 : Fine(Append(inq, a)[i], Ran')
      BY <1>0, <2>6, <2>7, <2>8, AppendProperties
    <2> DEFINE q == Append(inq, a)
    <2> HIDE DEF q
    <2>10. /\ Len(q) = Len(inq) + 1 /\ Len(Append(q, Push)) = Len(q) + 1
          /\ \A i \in 1 .. Len(q) : Append(q, Push)[i] = q[i]
          /\ Append(q, Push)[Len(q) + 1] = Push
      BY <2>6, <2>9, AppendProperties DEF q
    <2>11. ASSUME NEW i \in 1 .. Len(inq')
           PROVE  Fine(inq'[i], Ran')
      <3>1. CASE inq' = q
        BY <2>9, <3>1 DEF q
      <3>2. CASE inq' = Append(q, Push)
        <4>1. i \in 1 .. Len(q) + 1
          BY <2>10, <3>2
        <4>2. CASE i = Len(q) + 1
          BY <2>7, <2>10, <3>2, <4>2
        <4>3. CASE i # Len(q) + 1
          <5>1. i \in 1 .. Len(q) /\ i \in 1 .. Len(inq) + 1
            BY <1>0, <2>10, <4>1, <4>3
          <5>2. inq'[i] = q[i]
            BY <2>10, <3>2, <5>1
          <5> QED
            BY <2>9, <5>1, <5>2 DEF q
        <4> QED
          BY <4>2, <4>3
      <3> QED
        BY <2>3, <3>1, <3>2 DEF q, a
    <2>12. \A c \in Cmds : calls[c] > 0 => c \in Ran'
      BY <1>0, <2>8
    <2> QED
      BY <2>1, <2>8, <2>11, <2>12 DEF Carried
  <1>6. CASE Break
    <2>1. executed' = executed /\ sent' = sent /\ calls' = calls
      BY <1>6 DEF Break
    <2>2. PICK k \in 0 .. Len(inq) : inq' = Append(SubSeq(inq, 1, k), Closed)
      BY <1>6 DEF Break
    <2> DEFINE q == SubSeq(inq, 1, k)
    <2>3. q \in Seq(Message) /\ Len(q) = k /\ \A i \in 1 .. k : q[i] = inq[i]
      BY <1>0, SubSeqProperties
    <2>4. Closed \in Message /\ Fine(Closed, Ran)
      BY DEF Closed, Answer, Message
    <2> HIDE DEF q
    <2>5. /\ Len(inq') = k + 1 /\ inq'[k + 1] = Closed
          /\ \A i \in 1 .. k : inq'[i] = inq[i]
      BY <2>2, <2>3, <2>4, AppendProperties DEF q
    <2>6. ASSUME NEW i \in 1 .. Len(inq')
          PROVE  Fine(inq'[i], Ran)
      <3>1. CASE i = k + 1
        BY <2>4, <2>5, <3>1
      <3>2. CASE i # k + 1
        <4>1. i \in 1 .. k /\ i \in 1 .. Len(inq)
          BY <1>0, <2>5, <3>2
        <4> QED
          BY <1>0, <2>5, <4>1
      <3> QED
        BY <3>1, <3>2
    <2> QED
      BY <1>0, <2>1, <2>6 DEF Carried, Ran
  <1>7. CASE PopOut
    <2>1. UNCHANGED <<executed, sent, calls, inq>>
      BY <1>7 DEF PopOut, EndSession, exchangeVars
    <2> QED
      BY <1>1, <2>1
  <1> QED
    BY <1>1, <1>2, <1>3, <1>4, <1>5, <1>6, <1>7
       DEF Next, Run, vars, clientVars, exchangeVars, WaitLogined, SpuriousWakeup, Poll,
           OutEmpty, InEmpty

LEMMA LoginFirstKeeps ==
  ASSUME TypeOK, LoginFirst, [Next]_vars
  PROVE  LoginFirst'
  <1> DEFINE R == Requests \cup {"close"}
             Quiet == /\ Count("sub", outq') = 0 /\ Count("sub", waiting') = 0
                      /\ Count("sub", wire') = 0
             NoPush == \A i \in 1 .. Len(inq') : inq'[i] # Push
             Goal == main' # "ready" /\ ~inited' /\ Quiet /\ NoPush
  <1> SUFFICES ASSUME kind' = "private", ~logined'
               PROVE  Goal
    BY DEF LoginFirst
  <1>0. /\ outq \in Seq(R) /\ waiting \in Seq(Requests) /\ wire \in Seq(Requests)
        /\ inq \in Seq(Message) /\ Len(inq) \in Nat /\ "sub" \in Requests
    BY Typed, LenProperties DEF Requests, NoId
  <1>1. ASSUME kind = "private", ~logined
        PROVE  /\ main # "ready" /\ ~inited
               /\ Count("sub", outq) = 0 /\ Count("sub", waiting) = 0 /\ Count("sub", wire) = 0
               /\ \A i \in 1 .. Len(inq) : inq[i] # Push
    BY <1>1 DEF LoginFirst
  <1>2. CASE UNCHANGED <<kind, logined, main, inited, outq, waiting, wire, inq>>
    BY <1>1, <1>2
  <1>3. CASE WaitLogined \/ SpuriousWakeup \/ Poll
    <2>1. UNCHANGED <<kind, logined, inited, outq, waiting, wire, inq>>
      BY <1>3 DEF WaitLogined, SpuriousWakeup, Poll, clientVars, exchangeVars
    <2>2. main' # "ready"
      BY <1>1, <1>3, <2>1 DEF WaitLogined, SpuriousWakeup, Poll
    <2> QED
      BY <1>1, <2>1, <2>2
  <1>4. ASSUME NEW d \in Cmds, Send(d)
        PROVE  FALSE
    <2>1. UNCHANGED <<kind, logined>> /\ main = "ready"
      BY <1>4 DEF Send, startup
    <2> QED
      BY <1>1, <2>1
  <1>5. CASE Connect
    <2>1. /\ UNCHANGED <<kind, logined, main, inited, waiting>>
          /\ outq' = Append(outq, "login") /\ wire' = waiting /\ inq' = <<>>
      BY <1>5 DEF Connect, Greet, startup
    <2>2. "login" \in R /\ "sub" # "login"
      BY DEF Requests, NoId
    <2>3. ASSUME NEW x \in R, "sub" # x
          PROVE  Count("sub", Append(outq, x)) = Count("sub", outq) + One(x = "sub")
      <3> HIDE DEF R
      <3> QED
        BY <1>0, <2>3, CountAppend
    <2>4. 1 .. Len(inq') = {}
      BY <2>1, EmptySeq
    <2>5. Count("sub", outq') = 0
      BY <1>1, <2>1, <2>2, <2>3 DEF One
    <2> QED
      BY <1>1, <2>1, <2>4, <2>5
  <1>6. CASE PopOut
    <2> DEFINE x == Head(outq)
    <2>1. /\ UNCHANGED <<kind, logined, main, inited, inq>> /\ outq # <<>>
          /\ outq' = Tail(outq)
          /\ waiting' = waiting \/ (x # "close" /\ waiting' = Append(waiting, x))
          /\ wire' = wire \/ wire' = <<>> \/ (x # "close" /\ wire' = Append(wire, x))
      BY <1>6 DEF PopOut, EndSession, startup, exchangeVars
    <2>2. Count("sub", outq) = Count("sub", outq') + One(x = "sub")
      BY <1>0, <2>1, CountTail
    <2>3. x \in R /\ outq' \in Seq(R)
      BY <1>0, <2>1, HeadTailProperties
    <2>4. Count("sub", outq') \in Nat
      BY <2>3, CountIsNat
    <2> HIDE DEF x
    <2>5. x # "sub" /\ Count("sub", outq') = 0
      BY <1>1, <2>1, <2>2, <2>4 DEF One
    <2>6. ASSUME x # "close"
          PROVE  Count("sub", Append(waiting, x)) = 0 /\ Count("sub", Append(wire, x)) = 0
      <3>1. x \in Requests
        BY <2>3, <2>6
      <3>2. Count("sub", Append(waiting, x)) = Count("sub", waiting) + One(x = "sub")
        BY <1>0, <2>5, <3>1, CountAppend
      <3>3. Count("sub", Append(wire, x)) = Count("sub", wire) + One(x = "sub")
        BY <1>0, <3>1, CountAppend
      <3> QED
        BY <1>1, <2>1, <2>5, <3>2, <3>3 DEF One
    <2>7. Count("sub", <<>>) = 0
      BY CountEmpty
    <2>8. Count("sub", waiting') = 0 /\ Count("sub", wire') = 0
      BY <1>1, <2>1, <2>6, <2>7
    <2> QED
      BY <1>1, <2>1, <2>5, <2>8
  <1>7. CASE Drain
    <2> DEFINE a == Head(inq)
    <2>1. /\ inq # <<>> /\ inq' = Tail(inq) /\ Handle(a) /\ kind' = kind
          /\ inited' = (inited \/ a = Push)
      BY <1>7 DEF Drain
    <2>2. /\ ~logined /\ (wire' = wire \/ wire' = <<>>) /\ (main' = "ready" => main = "ready")
          /\ Count("sub", outq) = 0 /\ Count("sub", waiting) = 0 =>
               Count("sub", outq') = 0 /\ Count("sub", waiting') = 0
      BY <2>1, HandleSubscribes
    <2>3. /\ Len(inq') = Len(inq) - 1 /\ 1 \in 1 .. Len(inq) /\ a = inq[1]
          /\ \A i \in 1 .. Len(inq) - 1 : inq'[i] = inq[i + 1]
      BY <1>0, <2>1, HeadTailProperties, EmptySeq
    <2> HIDE DEF a
    <2>4. NoPush
      <3>1. ASSUME NEW i \in 1 .. Len(inq')
            PROVE  inq'[i] # Push
        <4>1. i + 1 \in 1 .. Len(inq) /\ inq'[i] = inq[i + 1]
          BY <1>0, <2>3
        <4> QED
          BY <1>1, <2>1, <2>2, <4>1
      <3> QED
        BY <3>1
    <2>5. ~inited'
      BY <1>1, <2>1, <2>2, <2>3
    <2>6. Count("sub", <<>>) = 0
      BY CountEmpty
    <2> QED
      BY <1>1, <2>1, <2>2, <2>4, <2>5, <2>6
  <1>8. CASE Serve
    <2> DEFINE x == Head(wire)
    <2>1. /\ UNCHANGED <<kind, logined, main, inited, outq, waiting>>
          /\ wire # <<>> /\ wire' = Tail(wire)
      BY <1>8 DEF Serve, startup
    <2>2. Count("sub", wire) = Count("sub", wire') + One(x = "sub")
      BY <1>0, <2>1, CountTail
    <2>3. x \in Requests /\ Tail(wire) \in Seq(Requests)
      BY <1>8, ServeIs
    <2>4. Count("sub", wire') \in Nat
      BY <2>1, <2>3, CountIsNat
    <2>5. PICK code \in AnyCode :
            \/ inq' = Append(inq, Answer(x, code))
            \/ x = "sub" /\ inq' = Append(Append(inq, Answer(x, code)), Push)
      BY <1>8, ServeIs
    <2> DEFINE a == Answer(x, code)
    <2>6. a \in Message /\ (x # "none" => a # Push)
      BY <2>3, MessageTyped DEF Answer, Push
    <2>7. x # "none"
      BY <2>3, ChannelAssumption DEF Requests, NoId
    <2> HIDE DEF a, x
    <2>8. x # "sub" /\ Count("sub", wire') = 0
      BY <1>1, <2>1, <2>2, <2>4 DEF One
    <2>9. inq' = Append(inq, a)
      BY <2>5, <2>8 DEF a
    <2>10. /\ Len(inq') = Len(inq) + 1 /\ inq'[Len(inq) + 1] = a
           /\ \A i \in 1 .. Len(inq) : inq'[i] = inq[i]
      BY <1>0, <2>6, <2>9, AppendProperties
    <2>11. NoPush
      <3>1. ASSUME NEW i \in 1 .. Len(inq')
            PROVE  inq'[i] # Push
        <4>1. i \in 1 .. Len(inq) \/ i = Len(inq) + 1
          BY <1>0, <2>10
        <4> QED
          BY <1>1, <2>1, <2>6, <2>7, <2>10, <4>1
      <3> QED
        BY <3>1
    <2> QED
      BY <1>1, <2>1, <2>8, <2>11
  <1>9. CASE Break
    <2>1. UNCHANGED <<kind, logined, main, inited, outq, waiting>> /\ wire' = <<>>
      BY <1>9 DEF Break, startup
    <2>2. PICK k \in 0 .. Len(inq) : inq' = Append(SubSeq(inq, 1, k), Closed)
      BY <1>9 DEF Break
    <2> DEFINE q == SubSeq(inq, 1, k)
    <2>3. q \in Seq(Message) /\ Len(q) = k /\ \A i \in 1 .. k : q[i] = inq[i]
      BY <1>0, SubSeqProperties
    <2>4. Closed \in Message /\ Closed # Push
      BY DEF Closed, Push, Answer, Message
    <2> HIDE DEF q
    <2>5. /\ Len(inq') = k + 1 /\ inq'[k + 1] = Closed
          /\ \A i \in 1 .. k : inq'[i] = inq[i]
      BY <2>2, <2>3, <2>4, AppendProperties DEF q
    <2>6. NoPush
      <3>1. ASSUME NEW i \in 1 .. Len(inq')
            PROVE  inq'[i] # Push
        <4>1. (i \in 1 .. k /\ i \in 1 .. Len(inq)) \/ i = k + 1
          BY <1>0, <2>5
        <4> QED
          BY <1>1, <2>1, <2>4, <2>5, <4>1
      <3> QED
        BY <3>1
    <2>7. Count("sub", <<>>) = 0
      BY CountEmpty
    <2> QED
      BY <1>1, <2>1, <2>6, <2>7
  <1> QED
    BY <1>2, <1>3, <1>4, <1>5, <1>6, <1>7, <1>8, <1>9
       DEF Next, Run, vars, startup, clientVars, exchangeVars, OutEmpty, InEmpty

---------------------------------------------------------------------------
(* The theorems.                                                           *)

LEMMA ChannelStarts ==
  Init => ChannelInv
  <1> SUFFICES ASSUME Init
               PROVE  ChannelInv
    OBVIOUS
  <1>1. /\ outq = <<>> /\ waiting = <<>> /\ inq = <<>> /\ wire = <<>> /\ link = "down"
        /\ sent = {} /\ executed = [c \in Cmds |-> 0] /\ calls = [c \in Cmds |-> 0]
    BY DEF Init
  <1>2. TypeOK
    <2>1. <<>> \in Seq(Requests) /\ <<>> \in Seq(Requests \cup {"close"}) /\ <<>> \in Seq(Message)
      BY EmptySeq
    <2> QED
      BY <2>1 DEF Init, TypeOK, Message
  <1>3. \A r : Count(r, <<>>) = 0
    BY CountEmpty
  <1>4. OnePlace
    BY <1>1, <1>3 DEF OnePlace, Places, One
  <1>5. 1 .. Len(inq) = {}
    BY <1>1, EmptySeq
  <1>6. UnderWay /\ Carried
    BY <1>1, <1>5 DEF UnderWay, Carried, Ran
  <1>7. LoginFirst
    BY <1>1, <1>3, <1>5 DEF LoginFirst, Init
  <1> QED
    BY <1>2, <1>4, <1>6, <1>7 DEF ChannelInv

\* The inductive invariant: every command is in one place, what is under way
\* is waited for, what was answered was carried out, and nobody subscribes
\* before the login of the private channel.
THEOREM ChannelInvariant == Spec => []ChannelInv
  <1>1. ChannelInv /\ [Next]_vars => ChannelInv'
    BY TypeKeeps, OnePlaceKeeps, UnderWayKeeps, CarriedKeeps, LoginFirstKeeps DEF ChannelInv
  <1> QED
    BY ChannelStarts, <1>1, PTL DEF Spec

\* The variables of the channel keep their types.
THEOREM ChannelTypeCorrect == Spec => []TypeOK
  <1>1. ChannelInv => TypeOK
    BY DEF ChannelInv
  <1> QED
    BY ChannelInvariant, <1>1, PTL

\* A command handed to sendCmd is in one place until its callback has run and
\* in none after it: run loses none and keeps no copy, however many
\* connections break and however many answers are "system busy".
THEOREM EachInOnePlace == Spec => []Conserved
  <1>1. ChannelInv => Conserved
    <2> SUFFICES ASSUME ChannelInv, NEW c \in sent
                 PROVE  Count(c, outq) + Count(c, waiting) + calls[c] = 1
      BY DEF Conserved, Count
    <2>1. c \in Cmds
      BY DEF ChannelInv, TypeOK
    <2> QED
      BY <2>1 DEF ChannelInv, OnePlace, Places, One
  <1> QED
    BY ChannelInvariant, <1>1, PTL

\* In a session an answer never comes more often than its request is waited
\* for in waiting_resp_q_, so parseIncomeData drops no answer to a command.
THEOREM NoStrayAnswer == Spec => []AnswersHaveAddressee
  <1>1. ChannelInv => AnswersHaveAddressee
    BY DEF ChannelInv, UnderWay, AnswersHaveAddressee, Count, Back
  <1> QED
    BY ChannelInvariant, <1>1, PTL

\* main starts no thread that hands commands to the private channel before
\* the login, spurious wakeups of waitLogined and all.
THEOREM NobodyBeforeLogin == Spec => []ReadyAfterLogin
  <1>1. ChannelInv => ReadyAfterLogin
    BY DEF ChannelInv, LoginFirst, ReadyAfterLogin
  <1> QED
    BY ChannelInvariant, <1>1, PTL

---------------------------------------------------------------------------
(* Carried out once.                                                       *)

\* Of the requests on their way to the exchange none for c will be carried out.
TurnedAway(c) ==
  \A i \in 1 .. Len(wire) :
    wire[i] = c => ~auth /\ \A j \in 1 .. i : wire[j] # "login"

\* c has been carried out and will not be again.
Done(c) ==
  /\ executed[c] <= 1 /\ Count(c, outq) = 0 /\ TurnedAway(c)
  /\ \A i \in 1 .. Len(inq) : inq[i].to = c => inq[i].code # "busy"

OnceInv ==
  /\ sent # {} => kind = "private"
  /\ link # "up" => ~auth /\ wire = <<>>
  /\ ~loginAgain => \A c \in Ran : Done(c)

LEMMA HandleQueues ==
  ASSUME TypeOK, NEW a, Handle(a), NEW c \in Cmds, Count(c, outq) = 0,
         a.to = c => a.code # "busy"
  PROVE  Count(c, outq)' = 0
  <1> DEFINE i == MatchAt(a)
             R == Requests \cup {"close"}
  <1>0. outq \in Seq(R) /\ waiting \in Seq(Requests) /\ c \notin {"login", "sub", "close"} /\ c \notin NoId
    BY Typed, CommandsAreOthers
  <1>1. "close" \in R /\ "sub" \in R
    BY DEF Requests, NoId
  <1>2. Count(c, Append(outq, "close")) = 0 /\ Count(c, Append(outq, "sub")) = 0
    BY <1>0, <1>1, CountAppend DEF One
  <1>3. ASSUME a.code = "busy", i # 0, Retry(i)
        PROVE  Count(c, outq)' = 0
    <2>1. i \in 1 .. Len(waiting) /\ Matches(a, waiting[i])
      BY <1>0, <1>3, MatchIs
    <2>2. waiting[i] \in R /\ waiting[i] # c
      BY <1>0, <1>3, <2>1 DEF Matches
    <2>3. Count(c, Append(outq, waiting[i])) = 0
      BY <1>0, <2>2, CountAppend DEF One
    <2> QED
      BY <1>3, <2>3 DEF Retry
  <1>4. ASSUME NEW j, RunCallback(j)
        PROVE  Count(c, outq)' = 0
    BY <1>2, <1>4 DEF RunCallback
  <1> QED
    BY <1>2, <1>3, <1>4 DEF Handle

LEMMA OnceKeeps ==
  ASSUME ChannelInv, OnceInv, [Next]_vars
  PROVE  OnceInv'
  <1>0. /\ TypeOK /\ Ran \subseteq Cmds /\ Ran \subseteq sent
        /\ outq \in Seq(Requests \cup {"close"}) /\ waiting \in Seq(Requests)
        /\ wire \in Seq(Requests) /\ inq \in Seq(Message) /\ executed \in [Cmds -> Nat]
        /\ Len(wire) \in Nat /\ Len(inq) \in Nat
    BY Typed, LenProperties DEF ChannelInv, Carried, TypeOK, Ran
  <1>1. CASE UNCHANGED <<kind, link, sent, auth, wire, executed, outq, inq, loginAgain>>
    BY <1>1 DEF OnceInv, Ran, Done, TurnedAway
  <1>2. ASSUME NEW d \in Cmds, Send(d)
        PROVE  OnceInv'
    <2>1. /\ kind = "private" /\ d \notin sent /\ outq' = Append(outq, d)
          /\ UNCHANGED <<kind, link, auth, wire, executed, inq, loginAgain>>
      BY <1>2 DEF Send, startup, exchangeVars, history
    <2>2. ASSUME NEW c \in Ran, Count(c, outq) = 0
          PROVE  Count(c, outq') = 0
      <3>1. d \in Requests \cup {"close"} /\ d # c
        BY <1>0, <2>1 DEF Requests
      <3> QED
        BY <1>0, <2>1, <2>2, <3>1, CountAppend DEF One
    <2> QED
      BY <2>1, <2>2 DEF OnceInv, Ran, Done, TurnedAway
  <1>3. CASE Connect
    <2>1. /\ link = "down" /\ link' = "up" /\ inq' = <<>> /\ wire' = waiting
          /\ outq' = Greet(outq) /\ loginAgain' = (loginAgain \/ "login" \in Range(waiting))
          /\ UNCHANGED <<kind, sent, auth, executed>>
      BY <1>3 DEF Connect, startup, Reconnectable
    <2>2. ASSUME NEW c \in Ran, ~loginAgain'
          PROVE  Done(c)'
      <3>1. ~auth /\ Done(c) /\ Len(inq') = 0
        BY <2>1, <2>2, EmptySeq DEF OnceInv
      <3>2. \A j \in 1 .. Len(waiting) : waiting[j] # "login"
        <4>1. DOMAIN waiting = 1 .. Len(waiting)
          BY <1>0, LenProperties
        <4> QED
          BY <2>1, <2>2, <4>1 DEF Range
      <3>3. Count(c, Append(outq, "login")) = 0 /\ Count(c, Append(outq, "sub")) = 0
        <4>1. "login" \in Requests \cup {"close"} /\ "sub" \in Requests \cup {"close"}
          BY DEF Requests, NoId
        <4>2. c # "login" /\ c # "sub"
          BY <1>0, CommandsAreOthers
        <4>3. \A r \in {"login", "sub"} : Count(c, Append(outq, r)) = Count(c, outq) + One(r = c)
          BY <1>0, <4>1, CountAppend
        <4>4. Count(c, outq) = 0 /\ One("login" = c) = 0 /\ One("sub" = c) = 0
          BY <3>1, <4>2 DEF One, Done
        <4> QED
          BY <4>3, <4>4
      <3>4. Count(c, outq') = 0
        BY <2>1, <3>3 DEF Greet
      <3>5. TurnedAway(c)'
        BY <1>0, <2>1, <3>1, <3>2 DEF TurnedAway
      <3> QED
        BY <2>1, <3>1, <3>4, <3>5 DEF Done
    <2>3. Ran' = Ran
      BY <2>1 DEF Ran
    <2> QED
      BY <2>1, <2>2, <2>3 DEF OnceInv
  <1>4. CASE PopOut
    <2> DEFINE x == Head(outq)
    <2>1. /\ outq # <<>> /\ outq' = Tail(outq)
          /\ UNCHANGED <<kind, sent, executed, inq, loginAgain>>
          /\ \/ link' = "down" /\ wire' = <<>> /\ ~auth'
             \/ /\ link' = link /\ auth' = auth
                /\ \/ link = "up" /\ x # "close" /\ wire' = Append(wire, x)
                   \/ link # "up" /\ wire' = wire
      BY <1>4 DEF PopOut, EndSession, startup, exchangeVars, history
    <2>2. x \in Requests \cup {"close"} /\ Tail(outq) \in Seq(Requests \cup {"close"})
      BY <1>0, <2>1, HeadTailProperties
    <2>3. ASSUME NEW c \in Ran, Done(c)
          PROVE  Done(c)'
      <3>1. Count(c, outq) = Count(c, Tail(outq)) + One(x = c)
        BY <1>0, <2>1, CountTail
      <3>2. Count(c, Tail(outq)) \in Nat
        BY <2>2, CountIsNat
      <3> HIDE DEF x
      <3>3. x # c /\ Count(c, outq') = 0
        BY <2>1, <2>3, <3>1, <3>2 DEF Done, One
      <3>4. CASE wire' = Append(wire, x) /\ x # "close" /\ auth' = auth
        <4>1. /\ Len(wire') = Len(wire) + 1 /\ wire'[Len(wire) + 1] = x
              /\ \A i \in 1 .. Len(wire) : wire'[i] = wire[i]
          BY <1>0, <2>2, <3>4, AppendProperties
        <4>2. TurnedAway(c)'
          <5>1. ASSUME NEW i \in 1 .. Len(wire'), wire'[i] = c
                PROVE  ~auth /\ \A j \in 1 .. i : wire'[j] # "login"
            <6>1. i \in 1 .. Len(wire)
              BY <1>0, <3>3, <4>1, <5>1
            <6>2. \A j \in 1 .. i : j \in 1 .. Len(wire)
              BY <1>0, <6>1
            <6> QED
              BY <2>3, <4>1, <5>1, <6>1, <6>2 DEF Done, TurnedAway
          <5> QED
            BY <3>4, <5>1 DEF TurnedAway
        <4> QED
          BY <2>1, <2>3, <3>3, <4>2 DEF Done
      <3>5. CASE wire' = wire /\ auth' = auth
        BY <2>1, <2>3, <3>3, <3>5 DEF Done, TurnedAway
      <3>6. CASE wire' = <<>>
        <4>1. 1 .. Len(wire') = {}
          BY <3>6, EmptySeq
        <4> QED
          BY <2>1, <2>3, <3>3, <4>1 DEF Done, TurnedAway
      <3> QED
        BY <2>1, <3>4, <3>5, <3>6
    <2>4. Ran' = Ran
      BY <2>1 DEF Ran
    <2> QED
      BY <2>1, <2>3, <2>4 DEF OnceInv
  <1>5. CASE Drain
    <2> DEFINE a == Head(inq)
    <2>1. /\ inq # <<>> /\ inq' = Tail(inq) /\ Handle(a) /\ kind' = kind /\ sent' = sent
          /\ loginAgain' = loginAgain
      BY <1>5 DEF Drain, history
    <2>2. /\ executed' = executed
          /\ \/ link' = "down" /\ wire' = <<>> /\ ~auth'
             \/ link' = link /\ wire' = wire /\ auth' = auth
      BY <2>1 DEF Handle, EndSession, exchangeVars
    <2>3. /\ Len(inq') = Len(inq) - 1 /\ 1 \in 1 .. Len(inq) /\ a = inq[1]
          /\ \A i \in 1 .. Len(inq) - 1 : inq'[i] = inq[i + 1]
      BY <1>0, <2>1, HeadTailProperties, EmptySeq
    <2> HIDE DEF a
    <2>4. ASSUME NEW c \in Ran, Done(c)
          PROVE  Done(c)'
      <3>1. Count(c, outq)' = 0
        BY <1>0, <2>1, <2>3, <2>4, HandleQueues DEF Done
      <3>2. TurnedAway(c)'
        <4>1. wire' = <<>> => 1 .. Len(wire') = {}
          BY EmptySeq
        <4> QED
          BY <2>2, <2>4, <4>1 DEF Done, TurnedAway
      <3>3. ASSUME NEW i \in 1 .. Len(inq'), inq'[i].to = c
            PROVE  inq'[i].code # "busy"
        <4>1. i + 1 \in 1 .. Len(inq) /\ inq'[i] = inq[i + 1]
          BY <1>0, <2>3
        <4> QED
          BY <2>4, <3>3, <4>1 DEF Done
      <3> QED
        BY <2>2, <2>4, <3>1, <3>2, <3>3 DEF Done
    <2>5. Ran' = Ran
      BY <2>2 DEF Ran
    <2> QED
      BY <2>1, <2>2, <2>4, <2>5 DEF OnceInv
  <1>6. CASE Serve
    <2> DEFINE x == Head(wire)
    <2>1. /\ link = "up" /\ wire # <<>> /\ wire' = Tail(wire)
          /\ UNCHANGED <<kind, link, sent, outq, loginAgain>>
      BY <1>6 DEF Serve, startup
    <2>2. x \in Requests
      BY <1>0, <1>6, ServeIs
    <2>3. PICK code \in AnyCode :
            /\ \/ inq' = Append(inq, Answer(x, code))
               \/ inq' = Append(Append(inq, Answer(x, code)), Push)
            /\ executed' = IF x \in Cmds /\ code = "ok"
                           THEN [executed EXCEPT ![x] = CarriedOutAgain(@)] ELSE executed
            /\ auth' = (auth \/ (x = "login" /\ code = "ok"))
            /\ kind = "private" /\ x # "login" /\ ~auth => code = "relogin"
      BY <1>0, <1>6, ServeIs
    <2>4. /\ Len(wire') = Len(wire) - 1 /\ 1 \in 1 .. Len(wire) /\ x = wire[1]
          /\ \A i \in 1 .. Len(wire) - 1 : wire'[i] = wire[i + 1]
      BY <1>0, <2>1, HeadTailProperties, EmptySeq
    <2> DEFINE a == Answer(x, code)
    <2>5. a \in Message /\ Push \in Message /\ a.to = x /\ a.code = code /\ Push.to = "none"
      BY <2>2, MessageTyped DEF Answer, Push
    <2>6. x \in Cmds => /\ x \in sent /\ Count(x, outq) = 0 /\ Count(x, Tail(wire)) = 0
                        /\ Back(x, inq) = 0
      BY <1>6, ServedIsWaiting DEF ChannelInv
    <2> HIDE DEF a, x
    <2>7. ASSUME NEW i \in 1 .. Len(inq')
          PROVE  (i \in 1 .. Len(inq) /\ inq'[i] = inq[i]) \/ inq'[i] = a \/ inq'[i] = Push
      <3> DEFINE q == Append(inq, a)
      <3>1. /\ q \in Seq(Message) /\ Len(q) = Len(inq) + 1 /\ q[Len(inq) + 1] = a
            /\ \A k \in 1 .. Len(inq) : q[k] = inq[k]
        BY <1>0, <2>5, AppendProperties
      <3> HIDE DEF q
      <3>2. CASE inq' = q
        BY <1>0, <2>7, <3>1, <3>2
      <3>3. CASE inq' = Append(q, Push)
        <4>1. /\ Len(inq') = Len(q) + 1 /\ inq'[Len(q) + 1] = Push
              /\ \A k \in 1 .. Len(q) : inq'[k] = q[k]
          BY <2>5, <3>1, <3>3, AppendProperties
        <4>2. CASE i = Len(q) + 1
          BY <4>1, <4>2
        <4>3. CASE i # Len(q) + 1
          <5>1. i \in 1 .. Len(q) /\ (i \in 1 .. Len(inq) \/ i = Len(inq) + 1)
            BY <1>0, <2>7, <3>1, <4>1, <4>3
          <5> QED
            BY <3>1, <4>1, <5>1
        <4> QED
          BY <4>2, <4>3
      <3> QED
        BY <2>3, <3>2, <3>3 DEF q, a
    <2>8. ASSUME NEW c \in Ran, Done(c), ~loginAgain
          PROVE  Done(c)' /\ (x = c => code = "relogin")
      <3>0. c \in Cmds /\ c # "none" /\ c # "login"
        BY <1>0, <2>8, CommandsAreOthers
      <3>1. x = c => ~auth /\ kind = "private"
        BY <1>0, <2>4, <2>8, <2>6, <3>0 DEF Done, TurnedAway, OnceInv
      <3>2. x = c => code = "relogin"
        BY <2>3, <3>0, <3>1
      <3>3. executed'[c] = executed[c]
        BY <1>0, <2>3, <3>0, <3>2
      <3>4. TurnedAway(c)'
        <4>1. ASSUME NEW i \in 1 .. Len(wire'), wire'[i] = c
              PROVE  ~auth' /\ \A j \in 1 .. i : wire'[j] # "login"
          <5>1. i + 1 \in 1 .. Len(wire) /\ wire[i + 1] = c
            BY <1>0, <2>4, <4>1
          <5>2. ~auth /\ \A j \in 1 .. i + 1 : wire[j] # "login"
            BY <2>8, <5>1 DEF Done, TurnedAway
          <5>3. x # "login"
            BY <1>0, <2>4, <5>1, <5>2
          <5>4. \A j \in 1 .. i : j + 1 \in 1 .. i + 1 /\ wire'[j] = wire[j + 1]
            BY <1>0, <2>4, <4>1
          <5> QED
            BY <2>3, <5>2, <5>3, <5>4
        <4> QED
          BY <4>1 DEF TurnedAway
      <3>5. ASSUME NEW i \in 1 .. Len(inq'), inq'[i].to = c
            PROVE  inq'[i].code # "busy"
        <4>1. CASE inq'[i] = a
          BY <2>5, <3>2, <3>5, <4>1
        <4>2. CASE i \in 1 .. Len(inq) /\ inq'[i] = inq[i]
          BY <2>8, <3>5, <4>2 DEF Done
        <4> QED
          BY <2>5, <2>7, <3>0, <3>5, <4>1, <4>2
      <3> QED
        BY <2>1, <2>8, <3>2, <3>3, <3>4, <3>5 DEF Done
    <2>9. ASSUME NEW c \in Ran', c \notin Ran, ~loginAgain
          PROVE  Done(c)'
      <3>1. c \in Cmds /\ executed[c] = 0 /\ executed'[c] > 0 /\ c # "none"
        <4>1. c \in Cmds /\ ~(executed[c] > 0) /\ executed'[c] > 0
          BY <2>9 DEF Ran
        <4> QED
          BY <1>0, <4>1, CommandsAreOthers
      <3>2. x = c /\ code = "ok"
        BY <1>0, <2>3, <3>1
      <3>3. executed'[c] <= 1
        BY <1>0, <2>3, <3>1, <3>2, ChannelAssumption DEF CarriedOutAgain
      <3>4. Count(c, outq) = 0 /\ Count(c, wire') = 0 /\ Back(c, inq) = 0
        BY <2>1, <2>6, <3>1, <3>2
      <3>5. TurnedAway(c)'
        <4>1. wire' \in Seq(Requests)
          BY <1>0, <2>1, HeadTailProperties
        <4>2. \A i \in 1 .. Len(wire') : wire'[i] # c
          BY <3>4, <4>1, CountZero
        <4> QED
          BY <4>2 DEF TurnedAway
      <3>6. \A i \in 1 .. Len(inq) : inq[i].to # c
        <4>1. Count(c, To(inq)) = 0 /\ To(inq) \in Seq(Requests \cup {"none"}) /\ Len(To(inq)) = Len(inq)
          BY <1>0, <3>4, BackIsCount, ToIsSeq
        <4>2. \A i \in 1 .. Len(inq) : To(inq)[i] # c
          BY <4>1, CountZero
        <4>3. DOMAIN inq = 1 .. Len(inq)
          BY <1>0, LenProperties
        <4> QED
          BY <4>2, <4>3 DEF To
      <3>7. ASSUME NEW i \in 1 .. Len(inq'), inq'[i].to = c
            PROVE  inq'[i].code # "busy"
        BY <2>5, <2>7, <3>1, <3>2, <3>6, <3>7
      <3> QED
        BY <2>1, <3>3, <3>4, <3>5, <3>7 DEF Done
    <2> QED
      BY <2>1, <2>8, <2>9 DEF OnceInv
  <1>7. CASE Break
    <2>1. /\ link' = "cut" /\ wire' = <<>> /\ ~auth'
          /\ UNCHANGED <<kind, sent, outq, executed, loginAgain>>
      BY <1>7 DEF Break, startup
    <2>2. PICK k \in 0 .. Len(inq) : inq' = Append(SubSeq(inq, 1, k), Closed)
      BY <1>7 DEF Break
    <2> DEFINE q == SubSeq(inq, 1, k)
    <2>3. q \in Seq(Message) /\ Len(q) = k /\ \A i \in 1 .. k : q[i] = inq[i]
      BY <1>0, SubSeqProperties
    <2>4. Closed \in Message /\ Closed.code # "busy"
      BY DEF Closed, Answer, Message
    <2> HIDE DEF q
    <2>5. /\ Len(inq') = k + 1 /\ inq'[k + 1] = Closed
          /\ \A i \in 1 .. k : inq'[i] = inq[i]
      BY <2>2, <2>3, <2>4, AppendProperties DEF q
    <2>6. ASSUME NEW c \in Ran, Done(c)
          PROVE  Done(c)'
      <3>1. ASSUME NEW i \in 1 .. Len(inq'), inq'[i].to = c
            PROVE  inq'[i].code # "busy"
        <4>1. i = k + 1 \/ (i \in 1 .. k /\ i \in 1 .. Len(inq))
          BY <1>0, <2>5
        <4> QED
          BY <2>4, <2>5, <2>6, <3>1, <4>1 DEF Done
      <3>2. TurnedAway(c)'
        <4>1. 1 .. Len(wire') = {}
          BY <2>1, EmptySeq
        <4> QED
          BY <4>1 DEF TurnedAway
      <3> QED
        BY <2>1, <2>6, <3>1, <3>2 DEF Done
    <2>7. Ran' = Ran
      BY <2>1 DEF Ran
    <2> QED
      BY <2>1, <2>6, <2>7 DEF OnceInv
  <1> QED
    BY <1>1, <1>2, <1>3, <1>4, <1>5, <1>6, <1>7
       DEF Next, Run, vars, startup, clientVars, exchangeVars, history,
           WaitLogined, SpuriousWakeup, Poll, OutEmpty, InEmpty

\* No command is carried out twice unless a login that had no answer has been
\* sent again, however many connections break and answers are lost: what is
\* sent again without one ahead of it is turned away.
THEOREM NothingTwice == Spec => []CarriedOutOnce
  <1>1. Init => OnceInv
    <2> SUFFICES ASSUME Init
                 PROVE  OnceInv
      OBVIOUS
    <2>1. Ran = {}
      BY DEF Init, Ran
    <2> QED
      BY <2>1 DEF Init, OnceInv
  <1>2. ChannelInv /\ OnceInv => CarriedOutOnce
    <2> SUFFICES ASSUME ChannelInv, OnceInv, ~loginAgain, NEW c \in Cmds
                 PROVE  executed[c] <= 1
      BY DEF CarriedOutOnce
    <2>1. executed[c] \in Nat
      BY DEF ChannelInv, TypeOK
    <2> QED
      BY <2>1 DEF OnceInv, Ran, Done
  <1> QED
    BY ChannelInvariant, OnceKeeps, <1>1, <1>2, PTL DEF Spec

---------------------------------------------------------------------------
(* The refinement.                                                         *)

LEMMA NothingAdvances ==
  ASSUME \A c \in Cmds : Stage(c)' = Stage(c)
  PROVE  [c \in Cmds |-> Stage(c)]' = [c \in Cmds |-> Stage(c)]
  OBVIOUS

LEMMA OneAdvances ==
  ASSUME NEW c \in Cmds, NEW from, NEW to, Stage(c) = from, Stage(c)' = to,
         \A d \in Cmds \ {c} : Stage(d)' = Stage(d)
  PROVE  Broker!Advance(c, from, to)
  <1>1. [d \in Cmds |-> Stage(d)][c] = from
    OBVIOUS
  <1>2. [d \in Cmds |-> Stage(d)]' = [[d \in Cmds |-> Stage(d)] EXCEPT ![c] = to]
    OBVIOUS
  <1> QED
    BY <1>1, <1>2 DEF Broker!Advance

\* A step of the broker or a stutter.
Refined == Broker!Next \/ UNCHANGED <<[c \in Cmds |-> Stage(c)], executed>>

LEMMA StepRefines ==
  ASSUME ChannelInv, [Next]_vars
  PROVE  Refined
  <1>0. /\ TypeOK /\ OnePlace /\ Carried /\ executed \in [Cmds -> Nat]
        /\ \A c \in Cmds : calls[c] \in Nat /\ Count(c, outq) \in Nat /\ Count(c, waiting) \in Nat
    BY Typed DEF ChannelInv, TypeOK
  <1>1. ASSUME \A c \in Cmds : Stage(c)' = Stage(c), executed' = executed
        PROVE  Refined
    BY <1>1, NothingAdvances DEF Refined
  <1>2. CASE UNCHANGED <<calls, executed, sent>>
    BY <1>1, <1>2 DEF Stage
  <1>3. ASSUME NEW c \in Cmds, Send(c)
        PROVE  Refined
    <2>1. c \notin sent /\ sent' = sent \cup {c} /\ calls' = calls /\ executed' = executed
      BY <1>3 DEF Send, exchangeVars
    <2>2. c \notin Ran /\ calls[c] = 0
      BY <1>0, <2>1 DEF Carried, OnePlace, Places, One
    <2>3. Stage(c) = "new" /\ Stage(c)' = "pending"
      BY <2>1, <2>2 DEF Stage, Ran
    <2>4. \A d \in Cmds \ {c} : Stage(d)' = Stage(d)
      BY <2>1 DEF Stage
    <2>5. Broker!HandOver(c)
      BY <2>1, <2>3, <2>4, OneAdvances DEF Broker!HandOver
    <2> QED
      BY <2>5 DEF Broker!Next, Refined
  <1>4. CASE Drain
    <2> DEFINE a == Head(inq)
    <2>1. inq # <<>> /\ Handle(a) /\ sent' = sent
      BY <1>4 DEF Drain
    <2>2. executed' = executed
      BY <2>1, HandleIs
    <2>3. ASSUME NEW c \in Cmds
          PROVE  \/ calls'[c] = calls[c]
                 \/ /\ a.code = "ok" /\ a.to = c /\ Count(c, waiting) > 0
                    /\ calls'[c] = calls[c] + 1
      BY <1>0, <2>1, HandleCounts
    <2>4. a \in Message /\ 1 \in 1 .. Len(inq) /\ a = inq[1]
      BY <1>0, <2>1, Typed
    <2>5. a.code = "ok" /\ a.to \in Cmds => a.to \in Ran
      BY <1>0, <2>4 DEF Carried
    <2> HIDE DEF a
    <2>6. CASE \A c \in Cmds : calls'[c] = calls[c]
      BY <1>1, <2>1, <2>2, <2>6 DEF Stage
    <2>7. ASSUME NEW c \in Cmds, calls'[c] # calls[c]
          PROVE  Refined
      <3>1. a.code = "ok" /\ a.to = c /\ Count(c, waiting) > 0 /\ calls'[c] = calls[c] + 1
        BY <2>3, <2>7
      <3>2. calls[c] = 0
        BY <1>0, <3>1 DEF OnePlace, Places, One
      <3>3. Stage(c) = "executed" /\ Stage(c)' = "answered"
        BY <2>5, <3>1, <3>2 DEF Stage, Ran
      <3>4. \A d \in Cmds \ {c} : Stage(d)' = Stage(d)
        BY <2>1, <2>2, <2>3, <3>1 DEF Stage
      <3>5. Broker!CallBack(c)
        BY <2>2, <3>3, <3>4, OneAdvances DEF Broker!CallBack
      <3> QED
        BY <3>5 DEF Broker!Next, Refined
    <2> QED
      BY <2>6, <2>7
  <1>5. CASE Serve
    <2> DEFINE x == Head(wire)
    <2>1. sent' = sent /\ calls' = calls
      BY <1>5 DEF Serve
    <2>2. \/ executed' = executed
          \/ x \in Cmds /\ executed' = [executed EXCEPT ![x] = CarriedOutAgain(@)]
      BY <1>0, <1>5, ServeIs
    <2>3. x \in Cmds => x \in sent /\ calls[x] = 0
      BY <1>5, ServedIsWaiting DEF ChannelInv
    <2> HIDE DEF x
    <2>4. CASE executed' = executed
      BY <1>2, <2>1, <2>4
    <2>5. ASSUME NEW c \in Cmds, c = x, executed' # executed
          PROVE  Refined
      <3>1. c \in sent /\ calls[c] = 0 /\ executed' = [executed EXCEPT ![c] = executed[c] + 1]
        BY <1>0, <2>2, <2>3, <2>5 DEF CarriedOutAgain
      <3>2. executed[c] \in Nat /\ executed'[c] = executed[c] + 1
            /\ \A d \in Cmds \ {c} : executed'[d] = executed[d]
        BY <1>0, <2>5, <3>1
      <3>3. Stage(c) \in {"pending", "executed"} /\ Stage(c)' = "executed"
        BY <2>1, <3>1, <3>2 DEF Stage
      <3>4. \A d \in Cmds \ {c} : Stage(d)' = Stage(d)
        BY <2>1, <3>2 DEF Stage
      <3>5. CASE Stage(c) = "pending"
        <4>1. Broker!Advance(c, "pending", "executed")
          BY <3>3, <3>4, <3>5, OneAdvances
        <4>2. Broker!CarryOut(c)
          BY <3>1, <4>1 DEF Broker!CarryOut
        <4> QED
          BY <2>5, <4>2 DEF Broker!Next, Refined
      <3>6. CASE Stage(c) = "executed"
        <4>1. \A d \in Cmds : Stage(d)' = Stage(d)
          BY <3>3, <3>4, <3>6
        <4>2. UNCHANGED [d \in Cmds |-> Stage(d)] /\ [d \in Cmds |-> Stage(d)][c] = "executed"
          BY <2>5, <3>6, <4>1, NothingAdvances
        <4>3. Broker!CarryOut(c)
          BY <3>1, <4>2 DEF Broker!CarryOut
        <4> QED
          BY <2>5, <4>3 DEF Broker!Next, Refined
      <3> QED
        BY <3>3, <3>5, <3>6
    <2> QED
      BY <2>2, <2>4, <2>5
  <1>6. CASE Connect \/ PopOut \/ Break
    BY <1>2, <1>6 DEF Connect, PopOut, Break, EndSession, exchangeVars
  <1> QED
    BY <1>2, <1>3, <1>4, <1>5, <1>6
       DEF Next, Run, vars, clientVars, exchangeVars, WaitLogined, SpuriousWakeup, Poll,
           OutEmpty, InEmpty

\* What sendCmd promises: a command's callback runs once, after the command has
\* been carried out, and whatever is sent again it is not carried out after
\* that, for any number of lost connections, busy answers and refusals.
THEOREM ImplementsRequests == Spec => RequestsSpec
  <1>1. Init => Broker!Init
    <2> SUFFICES ASSUME Init
                 PROVE  (\A c \in Cmds : Stage(c) = "new") /\ executed = [c \in Cmds |-> 0]
      BY DEF Broker!Init
    <2> QED
      BY DEF Init, Stage
  <1>2. ChannelInv /\ [Next]_vars => [Broker!Next]_(Broker!requests)
    BY StepRefines DEF Refined, Broker!requests
  <1> QED
    BY ChannelInvariant, <1>1, <1>2, PTL DEF Spec, RequestsSpec, Broker!Spec
=============================================================================
