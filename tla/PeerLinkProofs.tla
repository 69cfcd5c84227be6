--------------------------- MODULE PeerLinkProofs ---------------------------
(***************************************************************************)
(* Proofs about PeerLink, for every set of channels, any number of         *)
(* timeouts and queues of every length: the types, the pong awaited, the   *)
(* message counters and the channels listed at the two ends.               *)
(*                                                                         *)
(* The argument reads the two queues of one direction, the bridge and the  *)
(* wire, as the one sequence Under(s).  Reading the socket leaves it as it *)
(* is; the runtime of s takes its first message; a message written, or a   *)
(* timeout, adds one at its end; a break of the connection cuts it.        *)
(***************************************************************************)
EXTENDS PeerLink, FiniteSetTheorems, SequenceTheorems, TLAPS

Msg == Sendable \cup {PingPeer}

In(q, m) == \E i \in DOMAIN q : q[i] = m

Bolts(q) == {i \in DOMAIN q : q[i] # PingPeer}

(* m is a message of channel c.                                              *)
About(m, c) == m.kind \in ChannelKinds /\ m.chan = c

(* At most one message of channel c is in q.                                 *)
Single(q, c) ==
  \A i, j \in DOMAIN q : About(q[i], c) /\ About(q[j], c) => i = j

(* After k messages of Script(c) were delivered, end s lists c under its     *)
(* temporary id, under its permanent id, or not at all.                      *)
HasSent(s, k) == k = 2 \/ (k = 1 /\ s = "local")

ListedAs(s, c, k) ==
  /\ <<"Temporary", c>> \in channels[s] <=> c \in Opened /\ HasSent(s, k)
  /\ <<"Static", c>> \in channels[s] <=> IF c \in Opened THEN k >= 3 ELSE HasSent(s, k)

(* The channels take turns: at most one message of c is under way, it is the *)
(* last one handed over, and each end lists c as of the last message that it *)
(* sent or got.                                                              *)
ChanOK(c) ==
  /\ handed[c] = forwarded[c] \/ handed[c] = forwarded[c] + 1
  /\ handed[c] = forwarded[c] => \A s \in Side : ListedAs(s, c, handed[c])
  /\ handed[c] # forwarded[c] => ListedAs(Peer(Sender(handed[c])), c, forwarded[c])
  /\ \A s \in Side : \A m \in Msg : In(Under(s), m) /\ About(m, c) =>
       /\ handed[c] # forwarded[c]
       /\ s = Peer(Sender(handed[c]))
       /\ m = Bolt(Script(c)[handed[c]], c)
       /\ ListedAs(Sender(handed[c]), c, handed[c])
  /\ \A s \in Side : Single(Under(s), c)

IInv ==
  /\ TypeOK
  /\ handed \in [Chan -> Nat] /\ forwarded \in [Chan -> Nat]
  /\ ~connect["remote"]
  /\ AwaitedIsUnderWay
  /\ MessagesAreCounted
  /\ \A c \in Chan : ChanOK(c)

-----------------------------------------------------------------------------
(* Sequences of messages.                                                    *)

LEMMA SeqDomain ==
    ASSUME NEW q \in Seq(Msg)
    PROVE  DOMAIN q = 1..Len(q) /\ Len(q) \in Nat /\ \A i \in 1..Len(q) : q[i] \in Msg
OBVIOUS

LEMMA AppendFacts ==
    ASSUME NEW q \in Seq(Msg), NEW m \in Msg
    PROVE  /\ Append(q, m) \in Seq(Msg)
           /\ DOMAIN Append(q, m) = 1..Len(q) + 1
           /\ \A i \in 1..Len(q) : Append(q, m)[i] = q[i]
           /\ Append(q, m)[Len(q) + 1] = m
           /\ \A x : In(Append(q, m), x) <=> In(q, x) \/ x = m
<1> DEFINE r == Append(q, m)
<1>1. /\ r \in Seq(Msg) /\ Len(r) = Len(q) + 1
      /\ \A i \in 1..Len(q) : r[i] = q[i]
      /\ r[Len(q) + 1] = m
  BY AppendProperties
<1>2. Len(q) \in Nat /\ DOMAIN q = 1..Len(q) /\ DOMAIN r = 1..Len(q) + 1
  BY Zenon, <1>1, SeqDomain
<1>3. \A i \in 1..Len(q) + 1 : i \in 1..Len(q) \/ i = Len(q) + 1
  BY <1>2
<1>4. Len(q) + 1 \in 1..Len(q) + 1 /\ \A i \in 1..Len(q) : i \in 1..Len(q) + 1
  BY <1>2
<1> HIDE DEF r
<1>5. \A x : In(r, x) <=> In(q, x) \/ x = m
  BY Zenon, <1>1, <1>2, <1>3, <1>4 DEF In
<1> QED BY Zenon, <1>1, <1>2, <1>5 DEF r

LEMMA TailFacts ==
    ASSUME NEW q \in Seq(Msg), q # <<>>
    PROVE  /\ Tail(q) \in Seq(Msg) /\ Head(q) \in Msg
           /\ DOMAIN Tail(q) = 1..Len(q) - 1
           /\ Head(q) = q[1] /\ 1 \in DOMAIN q
           /\ \A i \in DOMAIN Tail(q) : i + 1 \in DOMAIN q /\ Tail(q)[i] = q[i + 1]
           /\ \A i \in DOMAIN q : i # 1 => i - 1 \in DOMAIN Tail(q) /\ Tail(q)[i - 1] = q[i]
           /\ \A x : In(Tail(q), x) => In(q, x)
           /\ \A x : In(q, x) /\ x # Head(q) => In(Tail(q), x)
<1> DEFINE r == Tail(q)
<1>1. /\ r \in Seq(Msg) /\ Len(r) = Len(q) - 1 /\ Head(q) \in Msg
      /\ \A i \in 1..Len(r) : r[i] = q[i + 1]
  BY Zenon, HeadTailProperties
<1>2. /\ Len(q) \in Nat /\ Len(q) >= 1 /\ DOMAIN q = 1..Len(q)
      /\ DOMAIN r = 1..Len(q) - 1 /\ Head(q) = q[1]
  BY <1>1
<1>3. \A i \in DOMAIN r : i + 1 \in DOMAIN q /\ r[i] = q[i + 1]
  BY <1>1, <1>2
<1>4. ASSUME NEW i \in DOMAIN q, i # 1
      PROVE  i - 1 \in DOMAIN r /\ r[i - 1] = q[i]
  <2>1. i - 1 \in DOMAIN r /\ i - 1 + 1 = i
    BY <1>2, <1>4
  <2> QED BY Zenon, <1>3, <2>1
<1> HIDE DEF r
<1>5. \A x : In(r, x) => In(q, x)
  BY Zenon, <1>3 DEF In
<1>6. \A x : In(q, x) /\ x # Head(q) => In(r, x)
  BY Zenon, <1>2, <1>4 DEF In
<1>7. 1 \in DOMAIN q
  BY <1>2
<1> QED BY Zenon, <1>1, <1>2, <1>3, <1>4, <1>5, <1>6, <1>7 DEF r

(* The places of bolts are finite in number, and how the number changes.     *)
LEMMA BoltsFinite ==
    ASSUME NEW q \in Seq(Msg)
    PROVE  IsFiniteSet(Bolts(q)) /\ Cardinality(Bolts(q)) \in Nat
<1>1. Bolts(q) \subseteq 1..Len(q) /\ Len(q) \in Int /\ 1 \in Int
  BY DEF Bolts
<1>2. IsFiniteSet(1..Len(q))
  BY Zenon, <1>1, FS_Interval
<1> QED BY Zenon, <1>1, <1>2, FS_Subset, FS_CardinalityType

LEMMA BoltsAppend ==
    ASSUME NEW q \in Seq(Msg), NEW m \in Msg
    PROVE  Cardinality(Bolts(Append(q, m))) =
             IF m = PingPeer THEN Cardinality(Bolts(q)) ELSE Cardinality(Bolts(q)) + 1
<1> DEFINE r == Append(q, m)
           n == Len(q) + 1
<1>1. /\ DOMAIN r = 1..n /\ \A i \in 1..Len(q) : r[i] = q[i]
      /\ r[n] = m
  BY Zenon, AppendFacts
<1>2. DOMAIN q = 1..Len(q) /\ Len(q) \in Nat
  BY Zenon, SeqDomain
<1>3. n \notin 1..Len(q) /\ 1..n = 1..Len(q) \cup {n}
  BY <1>2
<1>4. n \notin Bolts(q)
  BY Zenon, <1>2, <1>3 DEF Bolts
<1> HIDE DEF r, n
<1>5. Bolts(r) = IF m = PingPeer THEN Bolts(q) ELSE Bolts(q) \cup {n}
  BY Zenon, <1>1, <1>2, <1>3 DEF Bolts
<1> QED BY Zenon, <1>4, <1>5, BoltsFinite, FS_AddElement DEF r

LEMMA BoltsTail ==
    ASSUME NEW q \in Seq(Msg), q # <<>>
    PROVE  Cardinality(Bolts(q)) =
             IF Head(q) = PingPeer THEN Cardinality(Bolts(Tail(q)))
                                   ELSE Cardinality(Bolts(Tail(q))) + 1
<1> DEFINE r == Tail(q)
           D == Bolts(q) \ {1}
           f == [i \in D |-> i - 1]
<1>1. /\ r \in Seq(Msg) /\ DOMAIN r = 1..Len(q) - 1 /\ Head(q) = q[1] /\ 1 \in DOMAIN q
      /\ \A i \in DOMAIN r : i + 1 \in DOMAIN q /\ r[i] = q[i + 1]
      /\ \A i \in DOMAIN q : i # 1 => i - 1 \in DOMAIN r /\ r[i - 1] = q[i]
  BY Zenon, TailFacts
<1>2. DOMAIN q = 1..Len(q) /\ Len(q) \in Nat
  BY Zenon, SeqDomain
<1> HIDE DEF r
<1>3. f \in Bijection(D, Bolts(r))
  <2>1. f \in [D -> Bolts(r)]
    BY Zenon, <1>1 DEF Bolts
  <2>2. \A i, j \in D : f[i] = f[j] => i = j
    BY <1>2 DEF Bolts
  <2>3. ASSUME NEW j \in Bolts(r) PROVE \E i \in D : f[i] = j
    <3>1. j \in DOMAIN r /\ r[j] # PingPeer /\ j \in Nat /\ j >= 1
      BY <1>1, <1>2 DEF Bolts
    <3>2. j + 1 \in D
      BY <1>1, <3>1 DEF Bolts
    <3>3. f[j + 1] = j
      BY <3>1, <3>2
    <3> QED BY Zenon, <3>2, <3>3
  <2> QED BY Zenon, <2>1, <2>2, <2>3 DEF Bijection, Injection, Surjection,
             IsInjective
<1>4. IsFiniteSet(Bolts(q)) /\ Cardinality(Bolts(q)) \in Nat
  BY Zenon, BoltsFinite
<1>5. IsFiniteSet(D) /\ Cardinality(D) =
        IF 1 \in Bolts(q) THEN Cardinality(Bolts(q)) - 1 ELSE Cardinality(Bolts(q))
  BY Zenon, <1>4, FS_RemoveElement
<1>6. Cardinality(Bolts(r)) = Cardinality(D)
  <2> HIDE DEF D, f
  <2> QED BY Zenon, <1>3, <1>5, FS_Bijection DEF ExistsBijection
<1>7. 1 \in Bolts(q) <=> Head(q) # PingPeer
  BY Zenon, <1>1 DEF Bolts
<1> HIDE DEF D, f
<1> QED BY <1>4, <1>5, <1>6, <1>7 DEF r

LEMMA PrefixFacts ==
    ASSUME NEW p \in Seq(Msg), NEW q \in Seq(Msg), Len(p) <= Len(q),
           \A i \in 1..Len(p) : p[i] = q[i]
    PROVE  /\ Cardinality(Bolts(p)) <= Cardinality(Bolts(q))
           /\ \A x : In(p, x) => In(q, x)
           /\ \A c : Single(q, c) => Single(p, c)
<1>1. DOMAIN p = 1..Len(p) /\ DOMAIN q = 1..Len(q) /\ 1..Len(p) \subseteq 1..Len(q)
  BY SeqDomain
<1>2. Bolts(p) \subseteq Bolts(q)
  BY Zenon, <1>1 DEF Bolts
<1>3. Cardinality(Bolts(p)) <= Cardinality(Bolts(q))
  BY Zenon, <1>2, BoltsFinite, FS_Subset
<1>4. \A x : In(p, x) => In(q, x)
  BY Zenon, <1>1 DEF In
<1>5. \A c : Single(q, c) => Single(p, c)
  BY Zenon, <1>1 DEF Single
<1> QED BY Zenon, <1>3, <1>4, <1>5

LEMMA SingleKept ==
    ASSUME NEW q \in Seq(Msg), NEW c
    PROVE  /\ \A m \in Msg :
                /\ Single(q, c)
                /\ ~About(m, c) \/ \A x \in Msg : In(q, x) => ~About(x, c)
                => Single(Append(q, m), c)
           /\ q # <<>> /\ Single(q, c) => Single(Tail(q), c)
           /\ q # <<>> /\ Single(q, c) /\ About(Head(q), c) =>
                \A x \in Msg : In(Tail(q), x) => ~About(x, c)
<1>1. DOMAIN q = 1..Len(q) /\ Len(q) \in Nat /\ \A i \in 1..Len(q) : q[i] \in Msg
  BY Zenon, SeqDomain
<1>2. ASSUME NEW m \in Msg, Single(q, c),
             ~About(m, c) \/ \A x \in Msg : In(q, x) => ~About(x, c)
      PROVE  Single(Append(q, m), c)
  <2> DEFINE r == Append(q, m)
  <2>1. /\ DOMAIN r = 1..Len(q) + 1 /\ r[Len(q) + 1] = m
        /\ \A i \in 1..Len(q) : r[i] = q[i]
    BY Zenon, AppendFacts
  <2>2. \A i \in DOMAIN r : i \in DOMAIN q \/ i = Len(q) + 1
    BY <1>1, <2>1
  <2>3. About(m, c) => \A i \in DOMAIN q : ~About(q[i], c)
    BY Zenon, <1>1, <1>2 DEF In
  <2> HIDE DEF r
  <2>4. \A i, j \in DOMAIN r : About(r[i], c) /\ About(r[j], c) => i = j
    BY Zenon, <1>1, <1>2, <2>1, <2>2, <2>3 DEF Single
  <2> QED BY Zenon, <2>4 DEF Single, r
<1>3. ASSUME q # <<>>, Single(q, c)
      PROVE  Single(Tail(q), c)
  <2>1. \A i \in DOMAIN Tail(q) : i + 1 \in DOMAIN q /\ Tail(q)[i] = q[i + 1] /\ i \in Int
    BY <1>1, <1>3, TailFacts
  <2>2. \A i, j \in DOMAIN Tail(q) :
            About(Tail(q)[i], c) /\ About(Tail(q)[j], c) => i + 1 = j + 1
    BY Zenon, <1>3, <2>1 DEF Single
  <2>3. \A i, j \in DOMAIN Tail(q) : i + 1 = j + 1 => i = j
    BY <2>1
  <2> QED BY Zenon, <2>2, <2>3 DEF Single
<1>4. ASSUME q # <<>>, Single(q, c), About(Head(q), c), NEW x \in Msg,
             In(Tail(q), x), About(x, c)
      PROVE  FALSE
  <2>1. PICK i \in DOMAIN Tail(q) : Tail(q)[i] = x
    BY Zenon, <1>4 DEF In
  <2>2. /\ i + 1 \in DOMAIN q /\ q[i + 1] = x /\ Head(q) = q[1] /\ 1 \in DOMAIN q
        /\ DOMAIN Tail(q) = 1..Len(q) - 1
    BY Zenon, <1>4, <2>1, TailFacts
  <2>3. i + 1 = 1
    BY Zenon, <1>4, <2>2 DEF Single
  <2>4. i + 1 # 1
    BY <1>1, <2>2
  <2> QED BY Zenon, <2>3, <2>4
<1> QED BY Zenon, <1>2, <1>3, <1>4

-----------------------------------------------------------------------------
(* Messages.                                                                 *)

LEMMA ScriptFacts ==
    ASSUME NEW c \in Chan
    PROVE  /\ Len(Script(c)) = IF c \in Opened THEN 6 ELSE 2
           /\ DOMAIN Script(c) = 1..Len(Script(c))
           /\ \A i \in 1..Len(Script(c)) : Script(c)[i] \in ChannelKinds
           /\ c \in Opened =>
                /\ Script(c)[1] = "OpenChannel" /\ Script(c)[2] = "AcceptChannel"
                /\ Script(c)[3] = "FundingCreated" /\ Script(c)[4] = "FundingSigned"
                /\ Script(c)[5] = "FundingLocked" /\ Script(c)[6] = "FundingLocked"
           /\ c \notin Opened =>
                Script(c)[1] = "ChannelReestablish" /\ Script(c)[2] = "ChannelReestablish"
<1>1. CASE c \in Opened
  <2>1. Script(c) = <<"OpenChannel", "AcceptChannel", "FundingCreated", "FundingSigned",
                      "FundingLocked", "FundingLocked">>
    BY Zenon, <1>1 DEF Script
  <2>2. Len(Script(c)) = 6 /\ DOMAIN Script(c) = 1..6
    BY <2>1
  <2>3. /\ Script(c)[1] = "OpenChannel" /\ Script(c)[2] = "AcceptChannel"
        /\ Script(c)[3] = "FundingCreated" /\ Script(c)[4] = "FundingSigned"
        /\ Script(c)[5] = "FundingLocked" /\ Script(c)[6] = "FundingLocked"
    BY <2>1
  <2>4. \A i \in 1..6 : i = 1 \/ i = 2 \/ i = 3 \/ i = 4 \/ i = 5 \/ i = 6
    OBVIOUS
  <2> QED BY Zenon, <1>1, <2>2, <2>3, <2>4 DEF ChannelKinds
<1>2. CASE c \notin Opened
  <2>1. Script(c) = <<"ChannelReestablish", "ChannelReestablish">>
    BY Zenon, <1>2 DEF Script
  <2>2. /\ Len(Script(c)) = 2 /\ DOMAIN Script(c) = 1..2
        /\ Script(c)[1] = "ChannelReestablish" /\ Script(c)[2] = "ChannelReestablish"
    BY <2>1
  <2>3. \A i \in 1..2 : i = 1 \/ i = 2
    OBVIOUS
  <2> QED BY Zenon, <1>2, <2>2, <2>3 DEF ChannelKinds
<1> QED BY Zenon, <1>1, <1>2

LEMMA MsgKinds ==
    /\ InitMsg.kind = "Init" /\ PingPeer.kind = "PingPeer"
    /\ \A n : Ping(n).kind = "Ping" /\ Pong(n).kind = "Pong" /\ Ping(n).pong_size = n
    /\ \A k, c : Bolt(k, c).kind = k /\ Bolt(k, c).chan = c
    /\ ChannelKinds \cap {"Init", "PingPeer", "Ping", "Pong"} = {}
    /\ InitMsg \in Sendable
    /\ \A n \in PongSizes : Ping(n) \in Sendable /\ Pong(n) \in Sendable
    /\ \A c \in Chan : \A i \in 1..Len(Script(c)) : Bolt(Script(c)[i], c) \in Sendable
    /\ \A m \in Sendable : m # PingPeer
<1>1. /\ InitMsg.kind = "Init" /\ PingPeer.kind = "PingPeer"
      /\ \A n : Ping(n).kind = "Ping" /\ Pong(n).kind = "Pong" /\ Ping(n).pong_size = n
      /\ \A k, c : Bolt(k, c).kind = k /\ Bolt(k, c).chan = c
      /\ ChannelKinds \cap {"Init", "PingPeer", "Ping", "Pong"} = {}
  BY Zenon DEF InitMsg, PingPeer, Ping, Pong, Bolt, ChannelKinds
<1>2. InitMsg \in Sendable /\ \A n \in PongSizes : Ping(n) \in Sendable /\ Pong(n) \in Sendable
  BY Zenon DEF Sendable
<1>3. \A c \in Chan : \A i \in 1..Len(Script(c)) : Bolt(Script(c)[i], c) \in Sendable
  BY ScriptFacts DEF Sendable
<1>4. \A c \in Chan : \A i \in DOMAIN Script(c) : Script(c)[i] \in ChannelKinds
  BY Zenon, ScriptFacts
<1>5. \A m \in Sendable : m.kind # "PingPeer"
  BY <1>1, <1>4 DEF Sendable
<1> QED BY <1>1, <1>2, <1>3, <1>5

(* What a runtime may find by the kind of the message it takes.              *)
LEMMA MsgOfKind ==
    ASSUME NEW m \in Msg
    PROVE  /\ m.kind = "Ping" => \E n \in PongSizes : m = Ping(n)
           /\ m.kind \in ChannelKinds =>
                \E c \in Chan : \E i \in 1..Len(Script(c)) : m = Bolt(Script(c)[i], c)
<1>1. \/ m = PingPeer \/ m = InitMsg
      \/ \E n \in PongSizes : m = Ping(n) \/ m = Pong(n)
      \/ \E c \in Chan : \E i \in DOMAIN Script(c) : m = Bolt(Script(c)[i], c)
  BY Zenon DEF Msg, Sendable
<1>2. \A c \in Chan : DOMAIN Script(c) = 1..Len(Script(c))
                      /\ \A i \in 1..Len(Script(c)) : Script(c)[i] \in ChannelKinds
  BY Zenon, ScriptFacts
<1> QED BY <1>1, <1>2, MsgKinds

LEMMA Sides ==
    /\ \A s \in Side : Peer(s) \in Side /\ Peer(s) # s /\ Peer(Peer(s)) = s
    /\ \A s, t \in Side : t = s \/ t = Peer(s)
    /\ \A i : Sender(i) \in Side
BY Zenon DEF Side, Peer, Sender

-----------------------------------------------------------------------------
(* What each step does to the messages under way.                            *)

LEMMA UnderType ==
    ASSUME TypeOK, NEW s \in Side
    PROVE  /\ bridge[s] \in Seq(Msg) /\ wire[s] \in Seq(Msg) /\ Under(s) \in Seq(Msg)
           /\ PeerMessages(s) = Bolts(Under(s))
<1>1. bridge[s] \in Seq(Msg)
  BY Zenon DEF TypeOK, Msg
<1>2. wire[s] \in Seq(Sendable) /\ Sendable \subseteq Msg
  BY Zenon DEF TypeOK, Msg
<1>3. wire[s] \in Seq(Msg)
  BY Zenon, <1>2, SeqMonotonic
<1>4. Under(s) \in Seq(Msg)
  BY Zenon, <1>1, <1>3, ConcatProperties DEF Under
<1> QED BY Zenon, <1>1, <1>3, <1>4 DEF PeerMessages, Bolts

(* The listener moves a message from the wire to the bridge.                 *)
LEMMA ReadSame ==
    ASSUME NEW b \in Seq(Msg), NEW w \in Seq(Msg), w # <<>>
    PROVE  Append(b, Head(w)) \o Tail(w) = b \o w
<1>1. Head(w) \in Msg /\ Tail(w) \in Seq(Msg) /\ w = <<Head(w)>> \o Tail(w)
  OBVIOUS
<1>2. Append(b, Head(w)) = b \o <<Head(w)>>
  BY Zenon, <1>1, AppendIsConcat
<1>3. <<Head(w)>> \in Seq(Msg)
  BY <1>1
<1>4. (b \o <<Head(w)>>) \o Tail(w) = b \o (<<Head(w)>> \o Tail(w))
  BY SMTT(30), <1>1, <1>3, ConcatAssociative
<1> QED BY Zenon, <1>1, <1>2, <1>4

LEMMA TakeFirst ==
    ASSUME NEW b \in Seq(Msg), NEW w \in Seq(Msg), b # <<>>
    PROVE  b \o w # <<>> /\ Head(b \o w) = Head(b) /\ Tail(b) \o w = Tail(b \o w)
<1> DEFINE u == b \o w
           v == Tail(b) \o w
<1>1. /\ u \in Seq(Msg) /\ Len(u) = Len(b) + Len(w)
      /\ \A i \in 1..Len(b) + Len(w) : u[i] = IF i <= Len(b) THEN b[i] ELSE w[i - Len(b)]
  BY Zenon, ConcatProperties
<1>2. /\ Tail(b) \in Seq(Msg) /\ Len(Tail(b)) = Len(b) - 1
      /\ \A i \in 1..Len(b) - 1 : Tail(b)[i] = b[i + 1]
  BY Zenon, HeadTailProperties
<1>3. /\ v \in Seq(Msg) /\ Len(v) = Len(Tail(b)) + Len(w)
      /\ \A i \in 1..Len(Tail(b)) + Len(w) :
            v[i] = IF i <= Len(Tail(b)) THEN Tail(b)[i] ELSE w[i - Len(Tail(b))]
  BY Zenon, <1>2, ConcatProperties
<1>4. Len(b) \in Nat /\ Len(b) >= 1 /\ Len(w) \in Nat /\ Head(b) = b[1]
  OBVIOUS
<1> HIDE DEF u, v
<1>5. u # <<>> /\ Head(u) = u[1] /\ u[1] = b[1]
  BY <1>1, <1>4
<1>6. /\ Tail(u) \in Seq(Msg) /\ Len(Tail(u)) = Len(u) - 1
      /\ \A i \in 1..Len(Tail(u)) : Tail(u)[i] = u[i + 1]
  BY Zenon, <1>1, <1>5, HeadTailProperties
<1>7. Len(v) = Len(Tail(u))
  BY SMTT(30), <1>1, <1>2, <1>3, <1>4, <1>6
<1>8. ASSUME NEW i \in 1..Len(v) PROVE v[i] = Tail(u)[i]
  <2>1. /\ i \in 1..Len(Tail(b)) + Len(w) /\ i + 1 \in 1..Len(b) + Len(w)
        /\ i \in 1..Len(Tail(u)) /\ i \in Nat
    BY <1>1, <1>2, <1>3, <1>4, <1>7
  <2>2. Tail(u)[i] = u[i + 1]
    BY Zenon, <1>6, <2>1
  <2>3. CASE i <= Len(b) - 1
    <3>1. i \in 1..Len(b) - 1 /\ i + 1 <= Len(b)
      BY SMTT(30), <1>4, <2>1, <2>3
    <3> QED BY Zenon, <1>1, <1>2, <1>3, <2>1, <2>2, <2>3, <3>1
  <2>4. CASE ~(i <= Len(b) - 1)
    <3>1. ~(i + 1 <= Len(b)) /\ i + 1 - Len(b) = i - (Len(b) - 1)
      BY <1>4, <2>1, <2>4
    <3> QED BY SMTT(30), <1>1, <1>2, <1>3, <2>1, <2>2, <2>4, <3>1
  <2> QED BY Zenon, <2>3, <2>4
<1>9. v = Tail(u)
  BY Zenon, <1>3, <1>6, <1>7, <1>8, SeqEqual
<1> QED BY Zenon, <1>4, <1>5, <1>9 DEF u, v

LEMMA AddLast ==
    ASSUME NEW b \in Seq(Msg), NEW w \in Seq(Msg), NEW m \in Msg
    PROVE  b \o Append(w, m) = Append(b \o w, m)
<1>1. Append(w, m) = w \o <<m>> /\ <<m>> \in Seq(Msg)
  BY AppendIsConcat
<1>2. b \o w \in Seq(Msg)
  BY Zenon, ConcatProperties
<1>3. Append(b \o w, m) = (b \o w) \o <<m>>
  BY Zenon, <1>2, AppendIsConcat
<1>4. (b \o w) \o <<m>> = b \o (w \o <<m>>)
  BY <1>1, ConcatAssociative
<1> QED BY Zenon, <1>1, <1>3, <1>4

(* The runtime of s takes its first message, and sends m to its peer.        *)
Got(s) == Under(s) # <<>> /\ Under(s)' = Tail(Under(s))

Sent(s, m) ==
  Under(Peer(s))' = IF link = "up" THEN Append(Under(Peer(s)), m) ELSE Under(Peer(s))

LEMMA WireWritten ==
    ASSUME TypeOK, NEW s \in Side, NEW m \in Sendable, wire' = Written(s, m)
    PROVE  /\ wire' \in [Side -> Seq(Sendable)]
           /\ wire'[s] = wire[s]
           /\ wire'[Peer(s)] = IF link = "up" THEN Append(wire[Peer(s)], m) ELSE wire[Peer(s)]
<1>1. wire \in [Side -> Seq(Sendable)] /\ Peer(s) \in Side /\ Peer(s) # s
  BY Zenon, Sides DEF TypeOK
<1>2. Append(wire[Peer(s)], m) \in Seq(Sendable)
  BY Zenon, <1>1, AppendProperties
<1> QED BY Zenon, <1>1, <1>2 DEF Written

LEMMA TakeShape ==
    ASSUME TypeOK, NEW s \in Side, Take(s), wire'[s] = wire[s]
    PROVE  /\ Got(s) /\ Head(bridge[s]) = Head(Under(s)) /\ Head(Under(s)) \in Msg
           /\ bridge' \in [Side -> Seq(Sendable \cup {PingPeer})]
           /\ bridge'[Peer(s)] = bridge[Peer(s)]
<1>1. bridge[s] \in Seq(Msg) /\ wire[s] \in Seq(Msg) /\ bridge[s] # <<>>
  BY Zenon, UnderType DEF Take
<1>2. bridge \in [Side -> Seq(Sendable \cup {PingPeer})] /\ bridge' = [bridge EXCEPT ![s] = Tail(@)]
  BY Zenon DEF TypeOK, Take
<1>3. Tail(bridge[s]) \in Seq(Msg) /\ Head(bridge[s]) \in Msg
  BY Zenon, <1>1, HeadTailProperties
<1>4. bridge' \in [Side -> Seq(Sendable \cup {PingPeer})]
  BY Zenon, <1>2, <1>3 DEF Msg
<1>5. bridge'[s] = Tail(bridge[s]) /\ bridge'[Peer(s)] = bridge[Peer(s)]
  BY Zenon, <1>2, Sides
<1>6. /\ bridge[s] \o wire[s] # <<>> /\ Head(bridge[s] \o wire[s]) = Head(bridge[s])
      /\ Tail(bridge[s]) \o wire[s] = Tail(bridge[s] \o wire[s])
  BY Zenon, <1>1, TakeFirst
<1> QED BY Zenon, <1>3, <1>4, <1>5, <1>6 DEF Got, Under

LEMMA SentShape ==
    ASSUME TypeOK, NEW s \in Side, NEW m \in Sendable, wire' = Written(s, m),
           bridge'[Peer(s)] = bridge[Peer(s)]
    PROVE  Sent(s, m)
<1>1. bridge[Peer(s)] \in Seq(Msg) /\ wire[Peer(s)] \in Seq(Msg) /\ m \in Msg
  BY Zenon, UnderType, Sides DEF Msg
<1>2. bridge[Peer(s)] \o Append(wire[Peer(s)], m) = Append(bridge[Peer(s)] \o wire[Peer(s)], m)
  BY Zenon, <1>1, AddLast
<1> QED BY Zenon, <1>2, WireWritten DEF Sent, Under

-----------------------------------------------------------------------------
(* The counters.                                                             *)

Counted(s) == messages_sent[s] + (IF s = "local" /\ ~connect[s] THEN 1 ELSE 0)
Arrived(s) == messages_received[Peer(s)] + Cardinality(Bolts(Under(Peer(s))))
CountOK(s) == Arrived(s) <= Counted(s) /\ (link = "up" => Arrived(s) = Counted(s))

LEMMA CountType ==
    ASSUME TypeOK, NEW s \in Side
    PROVE  /\ Counted(s) \in Nat /\ Cardinality(Bolts(Under(s))) \in Nat
           /\ messages_received[s] \in Nat /\ messages_sent[s] \in Nat
           /\ Arrived(s) \in Nat
<1>1. \A t \in Side : messages_sent[t] \in Nat /\ messages_received[t] \in Nat
  BY Zenon DEF TypeOK
<1>2. \A t \in Side : Cardinality(Bolts(Under(t))) \in Nat
  BY Zenon, UnderType, BoltsFinite
<1> QED BY <1>1, <1>2, Sides DEF Counted, Arrived

LEMMA CountMeans ==
    ASSUME TypeOK
    PROVE  MessagesAreCounted <=> \A s \in Side : CountOK(s)
<1>1. \A s \in Side : PeerMessages(Peer(s)) = Bolts(Under(Peer(s)))
  BY Zenon, UnderType, Sides
<1> QED BY Zenon, <1>1 DEF MessagesAreCounted, CountOK, Counted, Arrived

LEMMA CountMeansNext ==
    ASSUME TypeOK', \A s \in Side : CountOK(s)'
    PROVE  MessagesAreCounted'
<1>1. ASSUME NEW s \in Side PROVE PeerMessages(s)' = Bolts(Under(s)')
  BY Zenon DEF PeerMessages, Bolts
<1>2. \A s \in Side : Peer(s) \in Side
  BY Zenon, Sides
<1> QED BY Zenon, <1>1, <1>2 DEF MessagesAreCounted, CountOK, Counted, Arrived

(* A message counted as sent arrives, or is lost with the connection.        *)
LEMMA CountSend ==
    ASSUME TypeOK, NEW s \in Side, NEW m \in Sendable, CountOK(s), Sent(s, m),
           UNCHANGED link, Counted(s)' = Counted(s) + 1,
           messages_received'[Peer(s)] = messages_received[Peer(s)]
    PROVE  CountOK(s)'
<1> DEFINE p == Peer(s)
<1>1. p \in Side /\ Under(p) \in Seq(Msg) /\ m \in Msg /\ m # PingPeer
  BY Zenon, UnderType, Sides, MsgKinds DEF Msg
<1>2. /\ Counted(s) \in Nat /\ messages_received[p] \in Nat
      /\ Cardinality(Bolts(Under(p))) \in Nat
  BY Zenon, <1>1, CountType
<1>3. Cardinality(Bolts(Append(Under(p), m))) = Cardinality(Bolts(Under(p))) + 1
  BY Zenon, <1>1, BoltsAppend
<1>4. Arrived(s)' = IF link = "up" THEN Arrived(s) + 1 ELSE Arrived(s)
  <2>1. Cardinality(Bolts(Under(p)')) =
          IF link = "up" THEN Cardinality(Bolts(Under(p))) + 1 ELSE Cardinality(Bolts(Under(p)))
    BY Zenon, <1>3 DEF Sent
  <2>2. Arrived(s)' = messages_received[p] + Cardinality(Bolts(Under(p)'))
    BY Zenon DEF Arrived, Bolts
  <2>3. Arrived(s) = messages_received[p] + Cardinality(Bolts(Under(p)))
    BY Zenon DEF Arrived
  <2> HIDE DEF p
  <2> QED BY SMTT(30), <1>2, <2>1, <2>2, <2>3
<1>5. Arrived(s) \in Nat
  BY <1>2 DEF Arrived
<1> QED BY <1>2, <1>4, <1>5 DEF CountOK

(* A message taken is counted as received unless it is a request to ping.    *)
LEMMA CountTake ==
    ASSUME TypeOK, NEW s \in Side, CountOK(Peer(s)), Got(s),
           UNCHANGED link, Counted(Peer(s))' = Counted(Peer(s)),
           messages_received'[s] =
               IF Head(Under(s)) = PingPeer THEN messages_received[s]
                                            ELSE messages_received[s] + 1
    PROVE  CountOK(Peer(s))'
<1>1. Under(s) \in Seq(Msg) /\ Under(s) # <<>> /\ Under(s)' = Tail(Under(s)) /\ Peer(Peer(s)) = s
  BY Zenon, UnderType, Sides DEF Got
<1>2. Cardinality(Bolts(Under(s))) =
             IF Head(Under(s)) = PingPeer THEN Cardinality(Bolts(Tail(Under(s))))
                                   ELSE Cardinality(Bolts(Tail(Under(s)))) + 1
  BY Zenon, <1>1, BoltsTail
<1>3. Cardinality(Bolts(Tail(Under(s)))) \in Nat
  BY Zenon, <1>1, TailFacts, BoltsFinite
<1>4. messages_received[s] \in Nat
  BY Zenon, CountType
<1>5. Arrived(Peer(s)) = messages_received[s] + Cardinality(Bolts(Under(s)))
  BY Zenon, <1>1 DEF Arrived
<1>6. Arrived(Peer(s))' = messages_received'[s] + Cardinality(Bolts(Tail(Under(s))))
  BY Zenon, <1>1 DEF Arrived, Bolts
<1>7. Arrived(Peer(s))' = Arrived(Peer(s))
  BY SMTT(30), <1>2, <1>3, <1>4, <1>5, <1>6
<1> QED BY Zenon, <1>7 DEF CountOK

LEMMA CountSame ==
    ASSUME NEW s \in Side, CountOK(s), UNCHANGED link,
           Counted(s)' = Counted(s), Under(Peer(s))' = Under(Peer(s)),
           messages_received'[Peer(s)] = messages_received[Peer(s)]
    PROVE  CountOK(s)'
<1>1. Arrived(s)' = Arrived(s)
  BY Zenon DEF Arrived, Bolts
<1> QED BY Zenon, <1>1 DEF CountOK

-----------------------------------------------------------------------------
(* The channels.                                                             *)

(* No message of c is added to those under way to t.                         *)
NoneAdded(t, c) ==
  /\ \A m \in Msg : In(Under(t)', m) /\ About(m, c) => In(Under(t), m)
  /\ Single(Under(t)', c)

LEMMA NoneAddedBy ==
    ASSUME TypeOK, NEW t \in Side, NEW c, Single(Under(t), c)
    PROVE  /\ Under(t)' = Under(t) => NoneAdded(t, c)
           /\ Got(t) => NoneAdded(t, c)
           /\ \A m \in Msg : ~About(m, c) /\ Under(t)' = Append(Under(t), m) => NoneAdded(t, c)
           /\ \A s \in Side, m \in Msg :
                t = Peer(s) /\ ~About(m, c) /\ Sent(s, m) => NoneAdded(t, c)
<1>1. Under(t) \in Seq(Msg)
  BY Zenon, UnderType
<1>2. Under(t)' = Under(t) => NoneAdded(t, c)
  BY Zenon DEF NoneAdded
<1>3. ASSUME Got(t) PROVE NoneAdded(t, c)
  <2>1. Under(t) # <<>> /\ Under(t)' = Tail(Under(t))
    BY Zenon, <1>3 DEF Got
  <2>2. Single(Tail(Under(t)), c) /\ \A x : In(Tail(Under(t)), x) => In(Under(t), x)
    BY Zenon, <1>1, <2>1, SingleKept, TailFacts
  <2> QED BY Zenon, <2>1, <2>2 DEF NoneAdded
<1>4. ASSUME NEW m \in Msg, ~About(m, c), Under(t)' = Append(Under(t), m)
      PROVE  NoneAdded(t, c)
  <2>1. Single(Append(Under(t), m), c)
    BY Zenon, <1>1, <1>4, SingleKept
  <2>2. \A x : In(Append(Under(t), m), x) <=> In(Under(t), x) \/ x = m
    BY Zenon, <1>1, <1>4, AppendFacts
  <2> QED BY Zenon, <1>4, <2>1, <2>2 DEF NoneAdded
<1>5. \A s \in Side, m \in Msg :
         t = Peer(s) /\ ~About(m, c) /\ Sent(s, m) => NoneAdded(t, c)
  BY Zenon, <1>2, <1>4 DEF Sent
<1> QED BY Zenon, <1>2, <1>3, <1>4, <1>5

(* A step that is about other things.                                        *)
LEMMA ChanFrame ==
    ASSUME NEW c \in Chan, ChanOK(c),
           handed'[c] = handed[c], forwarded'[c] = forwarded[c],
           \A t \in Side : \A id \in {"Temporary", "Static"} :
               <<id, c>> \in channels'[t] <=> <<id, c>> \in channels[t],
           \A t \in Side : NoneAdded(t, c)
    PROVE  ChanOK(c)'
<1>1. \A t \in Side : \A k : ListedAs(t, c, k)' <=> ListedAs(t, c, k)
  BY Zenon DEF ListedAs
<1>2. Sender(handed[c]) \in Side /\ Peer(Sender(handed[c])) \in Side
  BY Zenon, Sides
<1>3. (handed[c] = forwarded[c] \/ handed[c] = forwarded[c] + 1)'
  BY Zenon DEF ChanOK
<1>4. (handed[c] = forwarded[c] => \A s \in Side : ListedAs(s, c, handed[c]))'
  BY Zenon DEF ChanOK, ListedAs
<1>5. (handed[c] # forwarded[c] => ListedAs(Peer(Sender(handed[c])), c, forwarded[c]))'
  BY Zenon, <1>2 DEF ChanOK, ListedAs
<1>6. ASSUME NEW s \in Side, NEW m \in Msg, In(Under(s)', m), About(m, c)
      PROVE  /\ handed'[c] # forwarded'[c]
             /\ s = Peer(Sender(handed'[c]))
             /\ m = Bolt(Script(c)[handed'[c]], c)
             /\ ListedAs(Sender(handed[c]), c, handed[c])'
  <2>1. In(Under(s), m)
    BY Zenon, <1>6 DEF NoneAdded
  <2>2. /\ handed[c] # forwarded[c] /\ s = Peer(Sender(handed[c]))
        /\ m = Bolt(Script(c)[handed[c]], c)
        /\ ListedAs(Sender(handed[c]), c, handed[c])
    BY Zenon, <1>6, <2>1 DEF ChanOK
  <2>3. ListedAs(Sender(handed[c]), c, handed[c])'
    BY Zenon, <1>2, <2>2 DEF ListedAs
  <2> QED BY Zenon, <2>2, <2>3
<1>7. \A s \in Side : Single(Under(s)', c)
  BY Zenon DEF NoneAdded
<1>8. /\ \A s \in Side : \A m \in Msg : In(Under(s), m)' <=> In(Under(s)', m)
      /\ \A s \in Side : Single(Under(s), c)' <=> Single(Under(s)', c)
  BY Zenon DEF In, Single
<1> QED BY Zenon, <1>3, <1>4, <1>5, <1>6, <1>7, <1>8 DEF ChanOK

(* What sending and getting the i-th message does to the lists.              *)
LEMMA SendLists ==
    ASSUME NEW c \in Chan, NEW i \in 1..Len(Script(c)),
           ListedAs(Sender(i), c, i - 1),
           channels'[Sender(i)] = ListedAfterSend(channels[Sender(i)], Script(c)[i], c)
    PROVE  ListedAs(Sender(i), c, i)'
<1> DEFINE kind == Script(c)[i]
           chs == channels[Sender(i)]
<1>1. CASE c \in Opened
  <2>1. Len(Script(c)) = 6
    BY Zenon, <1>1, ScriptFacts
  <2>2. i = 1 \/ i = 2 \/ i = 3 \/ i = 4 \/ i = 5 \/ i = 6
    BY <2>1
  <2>3. CASE i = 1
    <3>1. kind = "OpenChannel" /\ Sender(i) = "local" /\ i - 1 = 0
      BY SMTT(30), <1>1, <2>3, ScriptFacts DEF Sender
    <3>2. channels'[Sender(i)] = chs \cup {<<"Temporary", c>>}
      BY Zenon, <3>1 DEF ListedAfterSend
    <3> QED BY SMTT(30), <1>1, <2>3, <3>1, <3>2 DEF ListedAs, HasSent
  <2>4. CASE i = 2
    <3>1. kind = "AcceptChannel" /\ Sender(i) = "remote" /\ i - 1 = 1
      BY <1>1, <2>4, ScriptFacts DEF Sender
    <3>2. channels'[Sender(i)] = chs \cup {<<"Temporary", c>>}
      BY Zenon, <3>1 DEF ListedAfterSend
    <3> QED BY SMTT(30), <1>1, <2>4, <3>1, <3>2 DEF ListedAs, HasSent
  <2>5. CASE i = 3
    <3>1. kind = "FundingCreated" /\ i - 1 = 2
      BY <1>1, <2>5, ScriptFacts
    <3>2. channels'[Sender(i)] = (chs \ {<<"Temporary", c>>}) \cup {<<"Static", c>>}
      BY Zenon, <3>1 DEF ListedAfterSend
    <3> QED BY SMTT(30), <1>1, <2>5, <3>1, <3>2 DEF ListedAs, HasSent
  <2>6. CASE i = 4 \/ i = 5 \/ i = 6
    <3>1. kind \in {"FundingSigned", "FundingLocked"}
      BY Zenon, <1>1, <2>6, ScriptFacts
    <3>2. channels'[Sender(i)] = chs
      BY Zenon, <3>1 DEF ListedAfterSend
    <3> QED BY <1>1, <2>6, <3>2 DEF ListedAs, HasSent
  <2> QED BY Zenon, <2>2, <2>3, <2>4, <2>5, <2>6
<1>2. CASE c \notin Opened
  <2>1. Len(Script(c)) = 2
    BY Zenon, <1>2, ScriptFacts
  <2>2. i = 1 \/ i = 2
    BY <2>1
  <2>3. kind = "ChannelReestablish"
    BY Zenon, <1>2, <2>2, ScriptFacts
  <2>4. channels'[Sender(i)] = chs \cup {<<"Static", c>>}
    BY Zenon, <2>3 DEF ListedAfterSend
  <2>5. HasSent(Sender(i), i)
    BY <2>2 DEF HasSent, Sender
  <2> QED BY Zenon, <1>2, <2>4, <2>5 DEF ListedAs
<1> QED BY Zenon, <1>1, <1>2

LEMMA ForwardLists ==
    ASSUME NEW c \in Chan, NEW i \in 1..Len(Script(c)),
           ListedAs(Peer(Sender(i)), c, i - 1),
           channels'[Peer(Sender(i))] = ListedAfterForward(channels[Peer(Sender(i))], Script(c)[i], c)
    PROVE  ListedAs(Peer(Sender(i)), c, i)'
<1> DEFINE kind == Script(c)[i]
           chs == channels[Peer(Sender(i))]
<1>1. CASE c \in Opened
  <2>1. Len(Script(c)) = 6
    BY Zenon, <1>1, ScriptFacts
  <2>2. i = 1 \/ i = 2 \/ i = 3 \/ i = 4 \/ i = 5 \/ i = 6
    BY <2>1
  <2>3. CASE i = 1
    <3>1. kind = "OpenChannel" /\ Peer(Sender(i)) = "remote" /\ i - 1 = 0
      BY SMTT(30), <1>1, <2>3, ScriptFacts DEF Sender, Peer
    <3>2. channels'[Peer(Sender(i))] = chs
      BY Zenon, <3>1 DEF ListedAfterForward
    <3> QED BY SMTT(30), <1>1, <2>3, <3>1, <3>2 DEF ListedAs, HasSent
  <2>4. CASE i = 2
    <3>1. kind = "AcceptChannel" /\ Peer(Sender(i)) = "local" /\ i - 1 = 1
      BY <1>1, <2>4, ScriptFacts DEF Sender, Peer
    <3>2. channels'[Peer(Sender(i))] = chs
      BY Zenon, <3>1 DEF ListedAfterForward
    <3> QED BY SMTT(30), <1>1, <2>4, <3>1, <3>2 DEF ListedAs, HasSent
  <2>5. CASE i = 3
    <3>1. kind = "FundingCreated" /\ i - 1 = 2
      BY <1>1, <2>5, ScriptFacts
    <3>2. channels'[Peer(Sender(i))] = (chs \ {<<"Temporary", c>>}) \cup {<<"Static", c>>}
      BY Zenon, <3>1 DEF ListedAfterForward
    <3> QED BY SMTT(30), <1>1, <2>5, <3>1, <3>2 DEF ListedAs, HasSent
  <2>6. CASE i = 4 \/ i = 5 \/ i = 6
    <3>1. kind \in {"FundingSigned", "FundingLocked"}
      BY Zenon, <1>1, <2>6, ScriptFacts
    <3>2. channels'[Peer(Sender(i))] = chs
      BY Zenon, <3>1 DEF ListedAfterForward
    <3> QED BY <1>1, <2>6, <3>2 DEF ListedAs, HasSent
  <2> QED BY Zenon, <2>2, <2>3, <2>4, <2>5, <2>6
<1>2. CASE c \notin Opened
  <2>1. Len(Script(c)) = 2
    BY Zenon, <1>2, ScriptFacts
  <2>2. i = 1 \/ i = 2
    BY <2>1
  <2>3. kind = "ChannelReestablish"
    BY Zenon, <1>2, <2>2, ScriptFacts
  <2>4. channels'[Peer(Sender(i))] = chs
    BY Zenon, <2>3 DEF ListedAfterForward
  <2>5. HasSent(Peer(Sender(i)), i) <=> HasSent(Peer(Sender(i)), i - 1)
    BY <2>2 DEF HasSent, Sender, Peer
  <2> QED BY Zenon, <1>2, <2>4, <2>5 DEF ListedAs
<1> QED BY Zenon, <1>1, <1>2

(* Neither touches the entries of another channel, and types are kept.       *)
LEMMA OtherLists ==
    ASSUME NEW chs \in SUBSET ({"Temporary", "Static"} \X Chan), NEW c \in Chan, NEW kind
    PROVE  /\ ListedAfterSend(chs, kind, c) \in SUBSET ({"Temporary", "Static"} \X Chan)
           /\ ListedAfterForward(chs, kind, c) \in SUBSET ({"Temporary", "Static"} \X Chan)
           /\ \A d \in Chan \ {c} : \A id \in {"Temporary", "Static"} :
                /\ <<id, d>> \in ListedAfterSend(chs, kind, c) <=> <<id, d>> \in chs
                /\ <<id, d>> \in ListedAfterForward(chs, kind, c) <=> <<id, d>> \in chs
<1> DEFINE a == chs \cup {<<"Temporary", c>>}
           b == (chs \ {<<"Temporary", c>>}) \cup {<<"Static", c>>}
           e == chs \cup {<<"Static", c>>}
           T == {"Temporary", "Static"} \X Chan
           OK(x) == x \in SUBSET T /\ \A d \in Chan \ {c} : \A id \in {"Temporary", "Static"} :
                      <<id, d>> \in x <=> <<id, d>> \in chs
<1>1. OK(a) /\ OK(b) /\ OK(e) /\ OK(chs)
  OBVIOUS
<1>2. ListedAfterSend(chs, kind, c) \in {a, b, e, chs}
  BY ZenonT(30) DEF ListedAfterSend
<1>3. ListedAfterForward(chs, kind, c) \in {b, chs}
  BY Zenon DEF ListedAfterForward
<1> HIDE DEF a, b, e
<1> QED BY Zenon, <1>1, <1>2, <1>3

-----------------------------------------------------------------------------
(* The pong awaited.                                                         *)

AwaitOK(s) ==
  link = "up" /\ awaited_pong[s] # 0 =>
    In(Under(Peer(s)), Ping(awaited_pong[s])) \/ In(Under(s), Pong(awaited_pong[s]))

LEMMA AwaitMeans == AwaitedIsUnderWay <=> \A s \in Side : AwaitOK(s)
BY Zenon DEF AwaitedIsUnderWay, AwaitOK, In

LEMMA AwaitMeansNext ==
    ASSUME \A s \in Side : AwaitOK(s)'
    PROVE  AwaitedIsUnderWay'
BY Zenon DEF AwaitedIsUnderWay, AwaitOK, In

(* Messages other than the one taken stay under way.                         *)
LEMMA StaysUnder ==
    ASSUME TypeOK, NEW s \in Side
    PROVE  /\ \A m \in Sendable : Sent(s, m) =>
                /\ \A x : In(Under(Peer(s)), x) => In(Under(Peer(s))', x)
                /\ link = "up" => In(Under(Peer(s))', m)
           /\ Got(s) => \A x : In(Under(s), x) /\ x # Head(Under(s)) => In(Under(s)', x)
<1>1. Under(s) \in Seq(Msg) /\ Under(Peer(s)) \in Seq(Msg)
  BY Zenon, UnderType, Sides
<1>2. ASSUME NEW m \in Sendable, Sent(s, m)
      PROVE  /\ \A x : In(Under(Peer(s)), x) => In(Under(Peer(s))', x)
             /\ link = "up" => In(Under(Peer(s))', m)
  <2>1. m \in Msg
    BY Zenon DEF Msg
  <2>2. \A x : In(Append(Under(Peer(s)), m), x) <=> In(Under(Peer(s)), x) \/ x = m
    BY Zenon, <1>1, <2>1, AppendFacts
  <2> QED BY Zenon, <1>2, <2>2 DEF Sent
<1>3. ASSUME Got(s)
      PROVE  \A x : In(Under(s), x) /\ x # Head(Under(s)) => In(Under(s)', x)
  BY <1>1, <1>3, TailFacts DEF Got
<1> QED BY Zenon, <1>2, <1>3

LEMMA AwaitKept ==
    ASSUME NEW s \in Side, AwaitOK(s), UNCHANGED link, awaited_pong'[s] = awaited_pong[s],
           \A n : In(Under(Peer(s)), Ping(n)) => In(Under(Peer(s))', Ping(n)),
           \A n : In(Under(s), Pong(n)) => In(Under(s)', Pong(n))
    PROVE  AwaitOK(s)'
<1>1. /\ \A x : In(Under(s), x)' <=> In(Under(s)', x')
      /\ \A x : In(Under(Peer(s)), x)' <=> In(Under(Peer(s))', x')
  BY Zenon DEF In
<1> QED BY Zenon DEF AwaitOK, In

-----------------------------------------------------------------------------
(* The invariant, action by action.                                          *)

LEMMA InitInv == Init => IInv
<1> SUFFICES ASSUME Init PROVE IInv
  BY Zenon
<1>1. \A c \in Chan : Len(Script(c)) \in Nat
  BY ScriptFacts
<1>2. TypeOK
  BY <1>1, PeerLinkAssumption DEF Init, TypeOK
<1>3. handed \in [Chan -> Nat] /\ forwarded \in [Chan -> Nat] /\ ~connect["remote"]
  BY Zenon DEF Init, Side
<1>4. \A s \in Side : Under(s) = <<>>
  BY Zenon, ConcatEmptySeq, EmptySeq DEF Init, Under
<1>5. AwaitedIsUnderWay
  BY Zenon DEF Init, AwaitedIsUnderWay
<1>6. MessagesAreCounted
  <2>1. \A s \in Side : PeerMessages(s) = {}
    BY <1>4 DEF PeerMessages
  <2>2. \A s \in Side : Cardinality(PeerMessages(Peer(s))) = 0
    BY Zenon, <2>1, Sides, FS_EmptySet
  <2>3. ASSUME NEW s \in Side
        PROVE  /\ messages_sent[s] = 0 /\ messages_received[Peer(s)] = 0
               /\ ~(s = "local" /\ ~connect[s])
    BY Zenon, Sides DEF Init
  <2> QED BY <2>2, <2>3 DEF MessagesAreCounted
<1>7. ASSUME NEW c \in Chan PROVE ChanOK(c)
  <2>1. handed[c] = 0 /\ forwarded[c] = 0 /\ \A s \in Side : channels[s] = {}
    BY Zenon DEF Init
  <2>2. \A s \in Side : ListedAs(s, c, 0)
    BY <2>1 DEF ListedAs, HasSent
  <2>3. \A s \in Side : Single(Under(s), c) /\ \A m : ~In(Under(s), m)
    BY <1>4 DEF Single, In
  <2> QED BY Zenon, <2>1, <2>2, <2>3 DEF ChanOK
<1> QED BY Zenon, <1>2, <1>3, <1>5, <1>6, <1>7 DEF IInv

(* The parts of the invariant, as the steps use and establish them.          *)
LEMMA Parts ==
    ASSUME IInv
    PROVE  /\ TypeOK /\ handed \in [Chan -> Nat] /\ forwarded \in [Chan -> Nat]
           /\ ~connect["remote"]
           /\ \A s \in Side : AwaitOK(s) /\ CountOK(s)
           /\ \A c \in Chan : ChanOK(c) /\ \A s \in Side : Single(Under(s), c)
BY Zenon, AwaitMeans, CountMeans DEF IInv, ChanOK

LEMMA PartsNext ==
    ASSUME TypeOK', handed' \in [Chan -> Nat], forwarded' \in [Chan -> Nat],
           ~connect'["remote"], \A s \in Side : AwaitOK(s)' /\ CountOK(s)',
           \A c \in Chan : ChanOK(c)'
    PROVE  IInv'
BY Zenon, AwaitMeansNext, CountMeansNext DEF IInv

(* The numbers of messages handed over and forwarded keep their types.       *)
LEMMA ChanTypes ==
    ASSUME IInv
    PROVE  \A c \in Chan : /\ forwarded[c] \in 0..handed[c] /\ handed[c] \in 0..Len(Script(c))
                            /\ Len(Script(c)) \in Nat
BY ScriptFacts DEF IInv, TypeOK

(* A runtime writes a message that its bridge did not ask for.               *)
LEMMA SendStep ==
    ASSUME IInv, NEW s \in Side, NEW m \in Sendable, wire' = Written(s, m),
           UNCHANGED <<link, bridge, awaited_pong, messages_received>>,
           Counted(s)' = Counted(s) + 1, Counted(Peer(s))' = Counted(Peer(s))
    PROVE  /\ Sent(s, m) /\ Under(s)' = Under(s) /\ wire' \in [Side -> Seq(Sendable)]
           /\ \A t \in Side : AwaitOK(t)' /\ CountOK(t)'
<1> DEFINE p == Peer(s)
<1>1. TypeOK /\ \A t \in Side : AwaitOK(t) /\ CountOK(t)
  BY Zenon, Parts
<1>2. p \in Side /\ Peer(p) = s /\ \A t \in Side : t = s \/ t = p
  BY Zenon, Sides
<1>3. Sent(s, m)
  BY Zenon, <1>1, SentShape
<1>4. Under(s)' = Under(s) /\ wire' \in [Side -> Seq(Sendable)]
  BY Zenon, <1>1, WireWritten DEF Under
<1>5. CountOK(s)'
  BY Zenon, <1>1, <1>3, CountSend
<1>6. CountOK(p)'
  BY Zenon, <1>1, <1>2, <1>4, CountSame
<1>7. \A x : In(Under(p), x) => In(Under(p)', x)
  BY Zenon, <1>1, <1>3, StaysUnder
<1>8. AwaitOK(s)'
  BY Zenon, <1>1, <1>4, <1>7, AwaitKept
<1>9. AwaitOK(p)'
  BY Zenon, <1>1, <1>2, <1>4, <1>7, AwaitKept
<1> QED BY ZenonT(30), <1>2, <1>3, <1>4, <1>5, <1>6, <1>8, <1>9

LEMMA OnReadyInv ==
    ASSUME IInv, NEW s \in Side, OnReady(s)
    PROVE  IInv'
<1>1. /\ TypeOK /\ handed \in [Chan -> Nat] /\ forwarded \in [Chan -> Nat]
      /\ ~connect["remote"]
      /\ \A c \in Chan : ChanOK(c) /\ \A t \in Side : Single(Under(t), c)
  BY Zenon, Parts
<1>2. /\ connect[s] /\ connect' = [connect EXCEPT ![s] = FALSE] /\ wire' = Written(s, InitMsg)
      /\ UNCHANGED <<link, bridge, awaited_pong, channels, messages_sent,
                     messages_received, timeouts, handed, forwarded>>
  BY Zenon DEF OnReady
<1>3. s = "local" /\ Peer(s) = "remote" /\ connect \in [Side -> BOOLEAN]
  BY Zenon, <1>1, <1>2 DEF Side, Peer, TypeOK
<1>4. connect' \in [Side -> BOOLEAN] /\ ~connect'["remote"] /\ ~connect'["local"]
  BY Zenon, <1>1, <1>2, <1>3 DEF Side
<1>5. Counted(s)' = Counted(s) + 1 /\ Counted(Peer(s))' = Counted(Peer(s))
  <2>1. messages_sent["local"] \in Nat
    BY Zenon, <1>1 DEF TypeOK, Side
  <2> QED BY SMTT(30), <1>2, <1>3, <1>4, <2>1 DEF Counted
<1>6. InitMsg \in Sendable /\ InitMsg \in Msg /\ \A c : ~About(InitMsg, c)
  BY Zenon, MsgKinds DEF About, Msg
<1>7. /\ Sent(s, InitMsg) /\ Under(s)' = Under(s) /\ wire' \in [Side -> Seq(Sendable)]
      /\ \A t \in Side : AwaitOK(t)' /\ CountOK(t)'
  BY Zenon, <1>2, <1>5, <1>6, SendStep
<1>8. TypeOK'
  BY Zenon, <1>1, <1>2, <1>4, <1>7 DEF TypeOK
<1>9. ASSUME NEW c \in Chan PROVE ChanOK(c)'
  <2>1. NoneAdded(s, c) /\ NoneAdded(Peer(s), c)
    BY Zenon, <1>1, <1>6, <1>7, NoneAddedBy, Sides
  <2>2. \A t \in Side : NoneAdded(t, c)
    BY Zenon, <2>1, Sides
  <2> QED BY Zenon, <1>1, <1>2, <2>2, ChanFrame
<1> QED BY ZenonT(30), <1>1, <1>2, <1>4, <1>7, <1>8, <1>9, PartsNext

LEMMA HandleBoltInv ==
    ASSUME IInv, NEW s \in Side, NEW c \in Chan, HandleBolt(s, c)
    PROVE  IInv'
<1>1. /\ TypeOK /\ handed \in [Chan -> Nat] /\ forwarded \in [Chan -> Nat]
      /\ ~connect["remote"]
      /\ \A d \in Chan : ChanOK(d) /\ \A t \in Side : Single(Under(t), d)
  BY Zenon, Parts
<1>0. PICK i \in Nat : i = handed[c] + 1
  BY <1>1
<1> DEFINE m == Bolt(Script(c)[i], c)
<1>2. /\ i <= Len(Script(c)) /\ Sender(i) = s /\ forwarded[c] = handed[c]
      /\ handed' = [handed EXCEPT ![c] = i]
      /\ messages_sent' = [messages_sent EXCEPT ![s] = @ + 1]
      /\ wire' = Written(s, m)
      /\ channels' = IF SendOk
                     THEN [channels EXCEPT ![s] = ListedAfterSend(@, Script(c)[i], c)]
                     ELSE channels
      /\ UNCHANGED <<link, bridge, connect, awaited_pong, messages_received,
                     timeouts, forwarded>>
  BY Zenon, <1>0 DEF HandleBolt
<1>3. i \in 1..Len(Script(c)) /\ i - 1 = handed[c] /\ i # handed[c] /\ handed[c] \in Nat
  BY SMTT(30), <1>0, <1>1, <1>2, ScriptFacts
<1>4. /\ channels \in [Side -> SUBSET ({"Temporary", "Static"} \X Chan)]
      /\ messages_sent \in [Side -> Nat] /\ Peer(s) \in Side /\ Peer(s) # s
  BY Zenon, <1>1, Sides DEF TypeOK
<1>5. m \in Sendable /\ m \in Msg /\ \A d \in Chan \ {c} : ~About(m, d)
  BY SMTT(30), <1>3, MsgKinds DEF About, Msg
<1> HIDE DEF m
<1>6. Counted(s)' = Counted(s) + 1 /\ Counted(Peer(s))' = Counted(Peer(s))
  BY <1>2, <1>4 DEF Counted
<1>7. /\ Sent(s, m) /\ Under(s)' = Under(s) /\ wire' \in [Side -> Seq(Sendable)]
      /\ \A t \in Side : AwaitOK(t)' /\ CountOK(t)'
  BY Zenon, <1>2, <1>5, <1>6, SendStep
<1>8. channels' \in [Side -> SUBSET ({"Temporary", "Static"} \X Chan)]
  BY ZenonT(30), <1>2, <1>4, OtherLists
<1>9. channels'[Peer(s)] = channels[Peer(s)] /\ handed'[c] = i
      /\ \A d \in Chan \ {c} : handed'[d] = handed[d]
  BY Zenon, <1>1, <1>2, <1>4
<1>10. handed' \in [Chan -> Nat] /\ messages_sent' \in [Side -> Nat]
  BY SMTT(30), <1>1, <1>2, <1>3, <1>4
<1>11. \A d \in Chan : forwarded'[d] \in 0..handed'[d] /\ handed'[d] \in 0..Len(Script(d))
  <2>1. \A d \in Chan : /\ forwarded[d] \in 0..handed[d] /\ handed[d] \in 0..Len(Script(d))
    BY Zenon, ChanTypes
  <2>2. forwarded[c] \in 0..i /\ i \in 0..Len(Script(c))
    BY <1>2, <1>3
  <2> QED BY Zenon, <1>2, <1>9, <2>1, <2>2
<1>12. TypeOK'
  BY ZenonT(30), <1>1, <1>2, <1>7, <1>8, <1>10, <1>11 DEF TypeOK
<1>13. ASSUME NEW d \in Chan \ {c} PROVE ChanOK(d)'
  <2>1. NoneAdded(s, d) /\ NoneAdded(Peer(s), d)
    BY Zenon, <1>1, <1>4, <1>5, <1>7, NoneAddedBy
  <2>2. \A t \in Side : NoneAdded(t, d)
    BY ZenonT(30), <2>1, Sides
  <2>3. \A t \in Side : \A id \in {"Temporary", "Static"} :
           <<id, d>> \in channels'[t] <=> <<id, d>> \in channels[t]
    <3>1. \A t \in Side : \/ channels'[t] = channels[t]
                           \/ channels'[t] = ListedAfterSend(channels[t], Script(c)[i], c)
      BY Zenon, <1>2, <1>4
    <3>2. ASSUME NEW t \in Side
          PROVE  \A id \in {"Temporary", "Static"} :
                     <<id, d>> \in ListedAfterSend(channels[t], Script(c)[i], c)
                         <=> <<id, d>> \in channels[t]
      <4>1. channels[t] \in SUBSET ({"Temporary", "Static"} \X Chan)
        BY Zenon, <1>4
      <4> QED BY Zenon, <4>1, OtherLists
    <3> QED BY Zenon, <3>1, <3>2
  <2> QED BY Zenon, <1>1, <1>2, <1>9, <2>2, <2>3, ChanFrame
<1>14. ChanOK(c)'
  <2>1. \A t \in Side : ListedAs(t, c, handed[c])
    BY Zenon, <1>1, <1>2 DEF ChanOK
  <2>2. \A t \in Side : \A x \in Msg : In(Under(t), x) => ~About(x, c)
    BY Zenon, <1>1, <1>2 DEF ChanOK
  <2>3. handed'[c] = forwarded'[c] + 1 /\ handed'[c] # forwarded'[c]
    BY SMTT(30), <1>0, <1>2, <1>9
  <2>4. ListedAs(Peer(Sender(handed[c])), c, forwarded[c])'
    BY ZenonT(30), <1>2, <1>4, <1>9, <2>1 DEF ListedAs
  <2>5. ASSUME SendOk PROVE ListedAs(Sender(i), c, i)'
    <3>1. channels'[s] = ListedAfterSend(channels[s], Script(c)[i], c)
      BY Zenon, <1>2, <1>4, <2>5
    <3>2. ListedAs(Sender(i), c, i - 1)
      BY Zenon, <1>2, <1>3, <2>1
    <3> QED BY ZenonT(30), <1>2, <1>3, <3>1, <3>2, SendLists
  <2>6. \A t \in Side : \A x \in Msg : In(Under(t)', x) /\ About(x, c) =>
           t = Peer(s) /\ x = m /\ link = "up"
    <3>1. \A x : In(Append(Under(Peer(s)), m), x) <=> In(Under(Peer(s)), x) \/ x = m
      BY Zenon, <1>1, <1>4, <1>5, UnderType, AppendFacts
    <3>2. ASSUME NEW x \in Msg, In(Under(s)', x), About(x, c) PROVE FALSE
      BY Zenon, <1>7, <2>2, <3>2
    <3>3. ASSUME NEW x \in Msg, In(Under(Peer(s))', x), About(x, c)
          PROVE  x = m /\ link = "up"
      <4>1. ~In(Under(Peer(s)), x)
        BY Zenon, <1>4, <2>2, <3>3
      <4>2. link = "up" /\ In(Append(Under(Peer(s)), m), x)
        BY Zenon, <1>7, <3>3, <4>1 DEF Sent
      <4> QED BY Zenon, <3>1, <4>1, <4>2
    <3> QED BY Zenon, <3>2, <3>3, Sides
  <2>7. ASSUME NEW t \in Side, NEW x \in Msg, In(Under(t)', x), About(x, c)
        PROVE  /\ handed'[c] # forwarded'[c] /\ t = Peer(Sender(handed'[c]))
               /\ x = Bolt(Script(c)[handed'[c]], c)
               /\ ListedAs(Sender(handed[c]), c, handed[c])'
    <3>1. t = Peer(s) /\ x = m /\ link = "up"
      BY Zenon, <2>6, <2>7
    <3>2. ListedAs(Sender(i), c, i)'
      BY Zenon, <2>5, <3>1 DEF SendOk
    <3>3. ListedAs(Sender(handed[c]), c, handed[c])'
      BY Zenon, <1>9, <3>2 DEF ListedAs
    <3> QED BY ZenonT(30), <1>2, <1>9, <2>3, <3>1, <3>3 DEF m
  <2>8. \A t \in Side : Single(Under(t)', c)
    <3>1. Single(Under(s)', c)
      BY Zenon, <1>1, <1>7
    <3>2. Single(Append(Under(Peer(s)), m), c) /\ Single(Under(Peer(s)), c)
      BY ZenonT(30), <1>1, <1>4, <1>5, <2>2, UnderType, SingleKept
    <3>3. Single(Under(Peer(s))', c)
      BY Zenon, <1>7, <3>2 DEF Sent
    <3> QED BY Zenon, <3>1, <3>3, Sides
  <2>9. /\ \A t \in Side : \A x \in Msg : In(Under(t), x)' <=> In(Under(t)', x)
        /\ \A t \in Side : Single(Under(t), c)' <=> Single(Under(t)', c)
    BY Zenon DEF In, Single
  <2> QED BY Zenon, <2>3, <2>4, <2>7, <2>8, <2>9 DEF ChanOK
<1>15. \A d \in Chan : ChanOK(d)'
  BY Zenon, <1>13, <1>14
<1> QED BY ZenonT(30), <1>1, <1>2, <1>7, <1>10, <1>12, <1>15, PartsNext

(* A step that only lets the wires and bridges grow or move.                 *)
LEMMA ListenerHandleInv ==
    ASSUME IInv, NEW s \in Side, ListenerHandle(s)
    PROVE  IInv'
<1>1. /\ TypeOK /\ handed \in [Chan -> Nat] /\ forwarded \in [Chan -> Nat]
      /\ ~connect["remote"]
      /\ \A t \in Side : AwaitOK(t) /\ CountOK(t)
      /\ \A d \in Chan : ChanOK(d) /\ \A t \in Side : Single(Under(t), d)
  BY Zenon, Parts
<1>2. /\ wire[s] # <<>>
      /\ bridge' = [bridge EXCEPT ![s] = Append(@, Head(wire[s]))]
      /\ wire' = [wire EXCEPT ![s] = Tail(@)]
      /\ UNCHANGED <<link, connect, awaited_pong, channels, messages_sent,
                     messages_received, timeouts, handed, forwarded>>
  BY Zenon DEF ListenerHandle
<1>3. wire \in [Side -> Seq(Sendable)] /\ bridge \in [Side -> Seq(Sendable \cup {PingPeer})]
  BY Zenon, <1>1 DEF TypeOK
<1>4. Head(wire[s]) \in Sendable /\ Tail(wire[s]) \in Seq(Sendable)
  BY Zenon, <1>2, <1>3, HeadTailProperties
<1>5. Append(bridge[s], Head(wire[s])) \in Seq(Sendable \cup {PingPeer})
  BY Zenon, <1>3, <1>4, AppendProperties
<1>6. wire' \in [Side -> Seq(Sendable)] /\ bridge' \in [Side -> Seq(Sendable \cup {PingPeer})]
  BY Zenon, <1>2, <1>3, <1>4, <1>5
<1>7. TypeOK'
  BY Zenon, <1>1, <1>2, <1>6 DEF TypeOK
<1>8. ASSUME NEW t \in Side PROVE Under(t)' = Under(t)
  <2>1. CASE t = s
    <3>1. Append(bridge[s], Head(wire[s])) \o Tail(wire[s]) = bridge[s] \o wire[s]
      BY Zenon, <1>1, <1>2, UnderType, ReadSame
    <3> QED BY Zenon, <1>2, <1>3, <2>1, <3>1 DEF Under
  <2>2. CASE t # s
    BY Zenon, <1>2, <1>3, <2>2 DEF Under
  <2> QED BY Zenon, <2>1, <2>2
<1>9. ASSUME NEW t \in Side PROVE AwaitOK(t)' /\ CountOK(t)'
  <2>1. Under(t)' = Under(t) /\ Under(Peer(t))' = Under(Peer(t))
    BY Zenon, <1>8, Sides
  <2>2. Counted(t)' = Counted(t)
    BY Zenon, <1>2 DEF Counted
  <2>3. CountOK(t)'
    BY ZenonT(30), <1>1, <1>2, <2>1, <2>2, CountSame
  <2>4. AwaitOK(t)'
    BY Zenon, <1>1, <1>2, <2>1, AwaitKept
  <2> QED BY Zenon, <2>3, <2>4
<1>10. ASSUME NEW d \in Chan PROVE ChanOK(d)'
  <2>1. \A t \in Side : NoneAdded(t, d)
    BY Zenon, <1>1, <1>8, NoneAddedBy
  <2> QED BY Zenon, <1>1, <1>2, <2>1, ChanFrame
<1> QED BY Zenon, <1>1, <1>2, <1>7, <1>9, <1>10, PartsNext

LEMMA ListenerTimedOutInv ==
    ASSUME IInv, NEW s \in Side, ListenerTimedOut(s)
    PROVE  IInv'
<1>1. /\ TypeOK /\ handed \in [Chan -> Nat] /\ forwarded \in [Chan -> Nat]
      /\ ~connect["remote"]
      /\ \A t \in Side : AwaitOK(t) /\ CountOK(t)
      /\ \A d \in Chan : ChanOK(d) /\ \A t \in Side : Single(Under(t), d)
  BY Zenon, Parts
<1>2. /\ wire[s] = <<>> /\ timeouts < MaxTimeouts /\ timeouts' = timeouts + 1
      /\ bridge' = [bridge EXCEPT ![s] = Append(@, PingPeer)]
      /\ UNCHANGED <<link, wire, connect, awaited_pong, channels, messages_sent,
                     messages_received, handed, forwarded>>
  BY Zenon DEF ListenerTimedOut
<1>3. bridge \in [Side -> Seq(Sendable \cup {PingPeer})] /\ timeouts \in 0..MaxTimeouts
  BY Zenon, <1>1 DEF TypeOK
<1>4. Append(bridge[s], PingPeer) \in Seq(Sendable \cup {PingPeer})
  BY Zenon, <1>3, AppendProperties
<1>5. bridge' \in [Side -> Seq(Sendable \cup {PingPeer})] /\ timeouts' \in 0..MaxTimeouts
  BY SMTT(30), <1>2, <1>3, <1>4, PeerLinkAssumption
<1>6. TypeOK'
  BY Zenon, <1>1, <1>2, <1>5 DEF TypeOK
<1>7. PingPeer \in Msg /\ (\A d : ~About(PingPeer, d)) /\ \A n : PingPeer # Pong(n) /\ PingPeer # Ping(n)
  BY Zenon, MsgKinds DEF Msg, About
<1>8. Under(s)' = Append(Under(s), PingPeer)
  <2>1. bridge[s] \in Seq(Msg) /\ Append(bridge[s], PingPeer) \in Seq(Msg)
    BY Zenon, <1>1, <1>4, UnderType DEF Msg
  <2>2. bridge[s] \o <<>> = bridge[s] /\ Append(bridge[s], PingPeer) \o <<>> = Append(bridge[s], PingPeer)
    BY Zenon, <2>1, ConcatEmptySeq
  <2> QED BY Zenon, <1>2, <1>3, <2>2 DEF Under
<1>9. Under(Peer(s))' = Under(Peer(s)) /\ Peer(s) \in Side /\ Peer(Peer(s)) = s
  BY Zenon, <1>2, <1>3, Sides DEF Under
<1>10. Under(s) \in Seq(Msg)
  BY Zenon, <1>1, UnderType
<1>11. \A x : In(Under(s), x) => In(Under(s)', x)
  BY SMTT(30), <1>7, <1>8, <1>10, AppendFacts
<1>12. \A t \in Side : Counted(t)' = Counted(t)
  BY Zenon, <1>2 DEF Counted
<1>13. CountOK(s)'
  BY Zenon, <1>1, <1>2, <1>9, <1>12, CountSame
<1>14. CountOK(Peer(s))'
  <2>1. Cardinality(Bolts(Append(Under(s), PingPeer))) = Cardinality(Bolts(Under(s)))
    BY Zenon, <1>7, <1>10, BoltsAppend
  <2>2. Arrived(Peer(s))' = Arrived(Peer(s))
    BY Zenon, <1>2, <1>8, <1>9, <2>1 DEF Arrived, Bolts
  <2> QED BY Zenon, <1>1, <1>2, <1>9, <1>12, <2>2 DEF CountOK
<1>15. AwaitOK(s)' /\ AwaitOK(Peer(s))'
  BY ZenonT(30), <1>1, <1>2, <1>9, <1>11, AwaitKept
<1>16. \A t \in Side : AwaitOK(t)' /\ CountOK(t)'
  BY Zenon, <1>13, <1>14, <1>15, Sides
<1>17. ASSUME NEW d \in Chan PROVE ChanOK(d)'
  <2>1. NoneAdded(s, d) /\ NoneAdded(Peer(s), d)
    BY ZenonT(30), <1>1, <1>7, <1>8, <1>9, NoneAddedBy
  <2>2. \A t \in Side : NoneAdded(t, d)
    BY Zenon, <2>1, Sides
  <2> QED BY Zenon, <1>1, <1>2, <2>2, ChanFrame
<1> QED BY ZenonT(30), <1>1, <1>2, <1>6, <1>16, <1>17, PartsNext

LEMMA LinkBreaksInv ==
    ASSUME IInv, LinkBreaks
    PROVE  IInv'
<1>1. /\ TypeOK /\ handed \in [Chan -> Nat] /\ forwarded \in [Chan -> Nat]
      /\ ~connect["remote"]
      /\ \A t \in Side : AwaitOK(t) /\ CountOK(t)
      /\ \A d \in Chan : ChanOK(d) /\ \A t \in Side : Single(Under(t), d)
  BY Zenon, Parts
<1>2. /\ link = "up" /\ link' \in {"closed", "silent"} /\ link' # "up"
      /\ UNCHANGED <<bridge, connect, awaited_pong, channels, messages_sent,
                     messages_received, timeouts, handed, forwarded>>
  BY Zenon, PeerLinkAssumption DEF LinkBreaks
<1>3. PICK k \in 0..Len(wire["local"]), n \in 0..Len(wire["remote"]) :
         wire' = [s \in Side |-> SubSeq(wire[s], 1, IF s = "local" THEN k ELSE n)]
  BY Zenon DEF LinkBreaks
<1>4. ASSUME NEW s \in Side
      PROVE  /\ wire'[s] \in Seq(Sendable) /\ wire'[s] \in Seq(Msg)
             /\ Len(wire'[s]) <= Len(wire[s])
             /\ \A i \in 1..Len(wire'[s]) : wire'[s][i] = wire[s][i]
  <2>1. PICK l \in 0..Len(wire[s]) : wire'[s] = SubSeq(wire[s], 1, l)
    BY Zenon, <1>3 DEF Side
  <2>2. wire[s] \in Seq(Sendable) /\ Sendable \subseteq Msg /\ Len(wire[s]) \in Nat
    BY <1>1 DEF TypeOK, Msg
  <2>3. \A i \in 1..l : wire[s][i] \in Sendable
    BY <2>2
  <2>4. /\ SubSeq(wire[s], 1, l) \in Seq(Sendable)
        /\ Len(SubSeq(wire[s], 1, l)) = IF 1 <= l THEN l - 1 + 1 ELSE 0
        /\ \A i \in 1..l - 1 + 1 : SubSeq(wire[s], 1, l)[i] = wire[s][1 + i - 1]
    BY SMTT(30), <2>2, <2>3, SubSeqProperties
  <2>5. wire'[s] \in Seq(Sendable) /\ Len(wire'[s]) = l
    BY SMTT(30), <2>1, <2>2, <2>4
  <2>6. ASSUME NEW i \in 1..l PROVE wire'[s][i] = wire[s][i]
    <3>1. i \in 1..l - 1 + 1 /\ 1 + i - 1 = i
      BY <2>2
    <3> QED BY Zenon, <2>1, <2>4, <3>1
  <2>7. wire'[s] \in Seq(Msg)
    BY Zenon, <2>2, <2>5, SeqMonotonic
  <2> QED BY SMTT(30), <2>2, <2>5, <2>6, <2>7
<1>5. wire' \in [Side -> Seq(Sendable)]
  <2>1. DOMAIN wire' = Side /\ wire' = [s \in Side |-> wire'[s]]
    BY Zenon, <1>3
  <2> QED BY Zenon, <1>4, <2>1
<1>6. TypeOK'
  BY Zenon, <1>1, <1>2, <1>5 DEF TypeOK
<1>7. ASSUME NEW s \in Side
      PROVE  /\ Under(s)' \in Seq(Msg) /\ Len(Under(s)') <= Len(Under(s))
             /\ \A i \in 1..Len(Under(s)') : Under(s)'[i] = Under(s)[i]
  <2> DEFINE b == bridge[s]
             w == wire[s]
             v == wire'[s]
  <2>1. b \in Seq(Msg) /\ w \in Seq(Msg) /\ v \in Seq(Msg) /\ Len(v) <= Len(w)
        /\ \A i \in 1..Len(v) : v[i] = w[i]
    BY Zenon, <1>1, <1>4, UnderType
  <2>2. Under(s) = b \o w /\ Under(s)' = b \o v
    BY Zenon, <1>2 DEF Under
  <2> HIDE DEF b, w, v
  <2>3. /\ b \o w \in Seq(Msg) /\ Len(b \o w) = Len(b) + Len(w)
        /\ \A i \in 1..Len(b) + Len(w) : (b \o w)[i] = IF i <= Len(b) THEN b[i] ELSE w[i - Len(b)]
    BY Zenon, <2>1, ConcatProperties
  <2>4. /\ b \o v \in Seq(Msg) /\ Len(b \o v) = Len(b) + Len(v)
        /\ \A i \in 1..Len(b) + Len(v) : (b \o v)[i] = IF i <= Len(b) THEN b[i] ELSE v[i - Len(b)]
    BY Zenon, <2>1, ConcatProperties
  <2>5. Len(b) \in Nat /\ Len(v) \in Nat /\ Len(w) \in Nat
    BY SMTT(30), <2>1
  <2>6. ASSUME NEW i \in 1..Len(b) + Len(v) PROVE (b \o v)[i] = (b \o w)[i]
    <3>1. i \in 1..Len(b) + Len(w) /\ (~(i <= Len(b)) => i - Len(b) \in 1..Len(v))
      BY SMTT(30), <2>1, <2>5
    <3> QED BY Zenon, <2>1, <2>3, <2>4, <3>1
  <2>7. Len(b \o v) <= Len(b \o w)
    BY SMTT(30), <2>1, <2>3, <2>4, <2>5
  <2> QED BY Zenon, <2>2, <2>4, <2>6, <2>7
<1>8. ASSUME NEW s \in Side
      PROVE  /\ Cardinality(Bolts(Under(s)')) <= Cardinality(Bolts(Under(s)))
             /\ \A x : In(Under(s)', x) => In(Under(s), x)
             /\ \A d : Single(Under(s), d) => Single(Under(s)', d)
             /\ Cardinality(Bolts(Under(s)')) \in Nat /\ Cardinality(Bolts(Under(s))) \in Nat
  BY Zenon, <1>1, <1>7, UnderType, PrefixFacts, BoltsFinite
<1>9. ASSUME NEW s \in Side PROVE AwaitOK(s)' /\ CountOK(s)'
  <2>1. AwaitOK(s)'
    BY Zenon, <1>2 DEF AwaitOK
  <2>2. Peer(s) \in Side /\ messages_received[Peer(s)] \in Nat /\ Counted(s) \in Nat
    BY Zenon, <1>1, Sides, CountType
  <2>3. Counted(s)' = Counted(s)
    BY Zenon, <1>2 DEF Counted
  <2>4. Arrived(s)' = messages_received[Peer(s)] + Cardinality(Bolts(Under(Peer(s))'))
    BY Zenon, <1>2 DEF Arrived, Bolts
  <2>5. Arrived(s)' <= Counted(s)
    <3>1. messages_received[Peer(s)] + Cardinality(Bolts(Under(Peer(s)))) <= Counted(s)
      BY Zenon, <1>1 DEF CountOK, Arrived
    <3>2. /\ Cardinality(Bolts(Under(Peer(s))')) <= Cardinality(Bolts(Under(Peer(s))))
          /\ Cardinality(Bolts(Under(Peer(s))')) \in Nat
          /\ Cardinality(Bolts(Under(Peer(s)))) \in Nat
      BY Zenon, <1>8, <2>2
    <3> QED BY SMTT(30), <2>2, <2>4, <3>1, <3>2
  <2> QED BY ZenonT(30), <1>2, <2>1, <2>3, <2>5 DEF CountOK
<1>10. ASSUME NEW d \in Chan PROVE ChanOK(d)'
  <2>1. \A t \in Side : NoneAdded(t, d)
    BY Zenon, <1>1, <1>8 DEF NoneAdded
  <2> QED BY Zenon, <1>1, <1>2, <2>1, ChanFrame
<1> QED BY ZenonT(30), <1>1, <1>2, <1>6, <1>9, <1>10, PartsNext

(* The runtime takes a message of its peer: it is counted as received.       *)
LEMMA TakeBoltStep ==
    ASSUME IInv, NEW s \in Side, NEW kinds, "PingPeer" \notin kinds, TakeBolt(s, kinds),
           wire'[s] = wire[s], UNCHANGED <<link, connect>>,
           messages_sent'[Peer(s)] = messages_sent[Peer(s)]
    PROVE  /\ Got(s) /\ Head(bridge[s]) = Head(Under(s)) /\ Head(Under(s)) \in Msg
           /\ Head(Under(s)).kind \in kinds /\ Head(Under(s)) # PingPeer
           /\ bridge' \in [Side -> Seq(Sendable \cup {PingPeer})]
           /\ bridge'[Peer(s)] = bridge[Peer(s)]
           /\ messages_received' \in [Side -> Nat]
           /\ messages_received'[Peer(s)] = messages_received[Peer(s)]
           /\ CountOK(Peer(s))'
<1>1. /\ TypeOK /\ handed \in [Chan -> Nat] /\ forwarded \in [Chan -> Nat]
      /\ ~connect["remote"]
      /\ \A t \in Side : AwaitOK(t) /\ CountOK(t)
      /\ \A d \in Chan : ChanOK(d) /\ \A t \in Side : Single(Under(t), d)
  BY Zenon, Parts
<1>2. Peer(s) \in Side /\ Peer(s) # s /\ Peer(Peer(s)) = s
  BY Zenon, Sides
<1>3. /\ Got(s) /\ Head(bridge[s]) = Head(Under(s)) /\ Head(Under(s)) \in Msg
      /\ bridge' \in [Side -> Seq(Sendable \cup {PingPeer})]
      /\ bridge'[Peer(s)] = bridge[Peer(s)]
  BY Zenon, <1>1, TakeShape DEF TakeBolt
<1>4. Head(Under(s)).kind \in kinds /\ Head(Under(s)) # PingPeer
  BY ZenonT(30), <1>3, MsgKinds DEF TakeBolt
<1>5. /\ messages_received \in [Side -> Nat]
      /\ messages_received' = [messages_received EXCEPT ![s] = @ + 1]
  BY Zenon, <1>1 DEF TypeOK, TakeBolt
<1>6. /\ messages_received' \in [Side -> Nat]
      /\ messages_received'[Peer(s)] = messages_received[Peer(s)]
      /\ messages_received'[s] = messages_received[s] + 1
  BY <1>2, <1>5
<1>7. Counted(Peer(s))' = Counted(Peer(s))
  BY Zenon DEF Counted
<1>8. CountOK(Peer(s))'
  BY ZenonT(30), <1>1, <1>2, <1>3, <1>4, <1>6, <1>7, CountTake
<1> QED BY Zenon, <1>3, <1>4, <1>6, <1>8

LEMMA HandlePingPeerInv ==
    ASSUME IInv, NEW s \in Side, HandlePingPeer(s)
    PROVE  IInv'
<1>1. /\ TypeOK /\ handed \in [Chan -> Nat] /\ forwarded \in [Chan -> Nat]
      /\ ~connect["remote"]
      /\ \A t \in Side : AwaitOK(t) /\ CountOK(t)
      /\ \A d \in Chan : ChanOK(d) /\ \A t \in Side : Single(Under(t), d)
  BY Zenon, Parts
<1>2. Peer(s) \in Side /\ Peer(s) # s /\ Peer(Peer(s)) = s
  BY Zenon, Sides
<1>3. PICK n \in PongSizes :
        /\ wire' = Written(s, Ping(n))
        /\ awaited_pong' = IF SendOk THEN [awaited_pong EXCEPT ![s] = n] ELSE awaited_pong
  BY Zenon DEF HandlePingPeer
<1>4. /\ Take(s) /\ Head(bridge[s]) = PingPeer
      /\ messages_sent' = [messages_sent EXCEPT ![s] = @ + 1]
      /\ UNCHANGED <<link, connect, channels, messages_received, timeouts, handed, forwarded>>
  BY Zenon DEF HandlePingPeer
<1>5. /\ Ping(n) \in Sendable /\ Ping(n) \in Msg /\ (\A d : ~About(Ping(n), d))
      /\ \A k : PingPeer # Ping(k) /\ PingPeer # Pong(k)
  BY Zenon, MsgKinds DEF Msg, About
<1>6. /\ wire' \in [Side -> Seq(Sendable)] /\ wire'[s] = wire[s]
  BY Zenon, <1>1, <1>3, <1>5, WireWritten
<1>7. /\ Got(s) /\ Head(Under(s)) = PingPeer
      /\ bridge' \in [Side -> Seq(Sendable \cup {PingPeer})]
      /\ bridge'[Peer(s)] = bridge[Peer(s)]
  BY Zenon, <1>1, <1>4, <1>6, TakeShape
<1>8. Sent(s, Ping(n))
  BY ZenonT(30), <1>1, <1>3, <1>5, <1>7, SentShape
<1>9. /\ awaited_pong' \in [Side -> PongSizes \cup {0}] /\ messages_sent' \in [Side -> Nat]
      /\ messages_sent'[s] = messages_sent[s] + 1 /\ messages_sent'[Peer(s)] = messages_sent[Peer(s)]
      /\ awaited_pong'[Peer(s)] = awaited_pong[Peer(s)]
      /\ SendOk => awaited_pong'[s] = n
      /\ messages_sent[s] \in Nat
  BY SMTT(30), <1>1, <1>2, <1>3, <1>4 DEF TypeOK
<1>10. TypeOK'
  BY ZenonT(30), <1>1, <1>4, <1>6, <1>7, <1>9 DEF TypeOK
<1>11. Counted(s)' = Counted(s) + 1 /\ Counted(Peer(s))' = Counted(Peer(s))
  BY <1>4, <1>9 DEF Counted
<1>12. CountOK(s)'
  BY ZenonT(30), <1>1, <1>4, <1>5, <1>8, <1>11, CountSend
<1>13. CountOK(Peer(s))'
  BY ZenonT(30), <1>1, <1>2, <1>4, <1>7, <1>11, CountTake
<1>14. /\ \A x : In(Under(Peer(s)), x) => In(Under(Peer(s))', x)
       /\ link = "up" => In(Under(Peer(s))', Ping(n))
       /\ \A x : In(Under(s), x) /\ x # PingPeer => In(Under(s)', x)
  BY ZenonT(30), <1>1, <1>5, <1>7, <1>8, StaysUnder
<1>15. AwaitOK(s)'
  <2> SUFFICES ASSUME link = "up" PROVE AwaitOK(s)'
    BY Zenon, <1>4 DEF AwaitOK
  <2>1. awaited_pong'[s] = n /\ In(Under(Peer(s))', Ping(n))
    BY Zenon, <1>9, <1>14 DEF SendOk
  <2> QED BY Zenon, <2>1 DEF AwaitOK, In
<1>16. AwaitOK(Peer(s))'
  <2>1. /\ \A k : In(Under(s), Ping(k)) => In(Under(s)', Ping(k))
        /\ \A k : In(Under(Peer(s)), Pong(k)) => In(Under(Peer(s))', Pong(k))
    BY Zenon, <1>5, <1>14
  <2> QED BY ZenonT(30), <1>1, <1>2, <1>4, <1>9, <2>1, AwaitKept
<1>17. \A t \in Side : AwaitOK(t)' /\ CountOK(t)'
  BY ZenonT(30), <1>12, <1>13, <1>15, <1>16, Sides
<1>18. ASSUME NEW d \in Chan PROVE ChanOK(d)'
  <2>1. NoneAdded(s, d) /\ NoneAdded(Peer(s), d)
    BY ZenonT(30), <1>1, <1>2, <1>5, <1>7, <1>8, NoneAddedBy
  <2>2. \A t \in Side : NoneAdded(t, d)
    BY Zenon, <2>1, Sides
  <2> QED BY ZenonT(30), <1>1, <1>4, <2>2, ChanFrame
<1> QED BY ZenonT(30), <1>1, <1>4, <1>10, <1>17, <1>18, PartsNext

LEMMA HandlePingInv ==
    ASSUME IInv, NEW s \in Side, HandlePing(s)
    PROVE  IInv'
<1>1. /\ TypeOK /\ handed \in [Chan -> Nat] /\ forwarded \in [Chan -> Nat]
      /\ ~connect["remote"]
      /\ \A t \in Side : AwaitOK(t) /\ CountOK(t)
      /\ \A d \in Chan : ChanOK(d) /\ \A t \in Side : Single(Under(t), d)
  BY Zenon, Parts
<1>2. Peer(s) \in Side /\ Peer(s) # s /\ Peer(Peer(s)) = s
  BY Zenon, Sides
<1>3. /\ TakeBolt(s, {"Ping"}) /\ wire' = Written(s, Pong(Head(bridge[s]).pong_size))
      /\ messages_sent' = [messages_sent EXCEPT ![s] = @ + 1]
      /\ UNCHANGED <<link, connect, awaited_pong, channels, timeouts, handed, forwarded>>
  BY Zenon DEF HandlePing
<1>4. Head(bridge[s]) \in Msg /\ Head(bridge[s]).kind = "Ping"
  <2>1. bridge[s] \in Seq(Msg) /\ bridge[s] # <<>>
    BY Zenon, <1>1, <1>3, UnderType DEF TakeBolt, Take
  <2> QED BY Zenon, <1>3, <2>1, HeadTailProperties DEF TakeBolt
<1>5. PICK n \in PongSizes : Head(bridge[s]) = Ping(n)
  BY Zenon, <1>4, MsgOfKind
<1>6. wire' = Written(s, Pong(n))
  BY Zenon, <1>3, <1>5, MsgKinds
<1>7. /\ Pong(n) \in Sendable /\ Pong(n) \in Msg /\ (\A d : ~About(Pong(n), d))
      /\ \A k, l : Ping(k) # Pong(l)
  BY Zenon, MsgKinds DEF Msg, About
<1>8. wire' \in [Side -> Seq(Sendable)] /\ wire'[s] = wire[s]
  BY ZenonT(30), <1>1, <1>6, <1>7, WireWritten
<1>9. /\ messages_sent' \in [Side -> Nat] /\ messages_sent[s] \in Nat
      /\ messages_sent'[s] = messages_sent[s] + 1 /\ messages_sent'[Peer(s)] = messages_sent[Peer(s)]
  BY SMTT(30), <1>1, <1>2, <1>3 DEF TypeOK
<1>10. /\ Got(s) /\ Head(Under(s)) = Ping(n)
       /\ bridge' \in [Side -> Seq(Sendable \cup {PingPeer})]
       /\ bridge'[Peer(s)] = bridge[Peer(s)]
       /\ messages_received' \in [Side -> Nat]
       /\ messages_received'[Peer(s)] = messages_received[Peer(s)]
       /\ CountOK(Peer(s))'
  <2>1. "PingPeer" \notin {"Ping"}
    BY Zenon
  <2> QED BY ZenonT(30), <1>3, <1>5, <1>8, <1>9, <2>1, TakeBoltStep
<1>11. Sent(s, Pong(n))
  BY Zenon, <1>1, <1>6, <1>7, <1>10, SentShape
<1>12. TypeOK'
  BY ZenonT(30), <1>1, <1>3, <1>8, <1>9, <1>10 DEF TypeOK
<1>13. Counted(s)' = Counted(s) + 1
  BY SMTT(30), <1>3, <1>9 DEF Counted
<1>14. CountOK(s)'
  BY ZenonT(30), <1>1, <1>3, <1>7, <1>10, <1>11, <1>13, CountSend
<1>15. /\ \A x : In(Under(Peer(s)), x) => In(Under(Peer(s))', x)
       /\ link = "up" => In(Under(Peer(s))', Pong(n))
       /\ \A x : In(Under(s), x) /\ x # Ping(n) => In(Under(s)', x)
  BY Zenon, <1>1, <1>7, <1>10, <1>11, StaysUnder
<1>16. AwaitOK(s)'
  BY Zenon, <1>1, <1>3, <1>7, <1>15, AwaitKept
<1>17. AwaitOK(Peer(s))'
  <2> SUFFICES ASSUME link = "up", awaited_pong[Peer(s)] # 0
               PROVE  \/ In(Under(s)', Ping(awaited_pong[Peer(s)]))
                      \/ In(Under(Peer(s))', Pong(awaited_pong[Peer(s)]))
    BY Zenon, <1>2, <1>3 DEF AwaitOK, In
  <2>1. \/ In(Under(s), Ping(awaited_pong[Peer(s)]))
        \/ In(Under(Peer(s)), Pong(awaited_pong[Peer(s)]))
    BY Zenon, <1>1, <1>2 DEF AwaitOK
  <2>2. Ping(awaited_pong[Peer(s)]) = Ping(n) => awaited_pong[Peer(s)] = n
    BY MsgKinds
  <2> QED BY ZenonT(30), <1>15, <2>1, <2>2
<1>18. \A t \in Side : AwaitOK(t)' /\ CountOK(t)'
  BY Zenon, <1>10, <1>14, <1>16, <1>17, Sides
<1>19. ASSUME NEW d \in Chan PROVE ChanOK(d)'
  <2>1. NoneAdded(s, d) /\ NoneAdded(Peer(s), d)
    BY ZenonT(30), <1>1, <1>2, <1>7, <1>10, <1>11, NoneAddedBy
  <2>2. \A t \in Side : NoneAdded(t, d)
    BY Zenon, <2>1, Sides
  <2> QED BY ZenonT(30), <1>1, <1>3, <2>2, ChanFrame
<1> QED BY ZenonT(30), <1>1, <1>3, <1>12, <1>18, <1>19, PartsNext

(* A message of the peer that is not answered: neither a ping, nor a pong    *)
(* that is still awaited afterwards.                                         *)
LEMMA QuietStep ==
    ASSUME IInv, NEW s \in Side, NEW kinds, TakeBolt(s, kinds),
           kinds \cap {"PingPeer", "Ping"} = {},
           UNCHANGED <<link, wire, connect, messages_sent>>,
           awaited_pong'[Peer(s)] = awaited_pong[Peer(s)],
           \/ awaited_pong'[s] = 0
           \/ awaited_pong'[s] = awaited_pong[s] /\ "Pong" \notin kinds
    PROVE  /\ Got(s) /\ Under(Peer(s))' = Under(Peer(s))
           /\ Head(bridge[s]) = Head(Under(s)) /\ Head(Under(s)) \in Msg
           /\ Head(Under(s)).kind \in kinds
           /\ bridge' \in [Side -> Seq(Sendable \cup {PingPeer})]
           /\ messages_received' \in [Side -> Nat]
           /\ \A t \in Side : AwaitOK(t)' /\ CountOK(t)'
<1>1. /\ TypeOK /\ handed \in [Chan -> Nat] /\ forwarded \in [Chan -> Nat]
      /\ ~connect["remote"]
      /\ \A t \in Side : AwaitOK(t) /\ CountOK(t)
      /\ \A d \in Chan : ChanOK(d) /\ \A t \in Side : Single(Under(t), d)
  BY Zenon, Parts
<1>2. Peer(s) \in Side /\ Peer(s) # s /\ Peer(Peer(s)) = s
  BY Zenon, Sides
<1>3. "PingPeer" \notin kinds /\ "Ping" \notin kinds
  BY Zenon
<1>4. /\ Got(s) /\ Head(bridge[s]) = Head(Under(s)) /\ Head(Under(s)) \in Msg
      /\ Head(Under(s)).kind \in kinds
      /\ bridge' \in [Side -> Seq(Sendable \cup {PingPeer})]
      /\ bridge'[Peer(s)] = bridge[Peer(s)]
      /\ messages_received' \in [Side -> Nat]
      /\ messages_received'[Peer(s)] = messages_received[Peer(s)]
      /\ CountOK(Peer(s))'
  BY Zenon, <1>3, TakeBoltStep
<1>5. Under(Peer(s))' = Under(Peer(s))
  BY Zenon, <1>4 DEF Under
<1>6. Counted(s)' = Counted(s)
  BY Zenon DEF Counted
<1>7. CountOK(s)'
  BY ZenonT(30), <1>1, <1>4, <1>5, <1>6, CountSame
<1>8. \A x : In(Under(s), x) /\ x # Head(Under(s)) => In(Under(s)', x)
  BY Zenon, <1>1, <1>4, StaysUnder
<1>9. \A n : Head(Under(s)) # Ping(n) /\ ("Pong" \notin kinds => Head(Under(s)) # Pong(n))
  BY ZenonT(30), <1>3, <1>4, MsgKinds
<1>10. AwaitOK(Peer(s))'
  <2>1. \A n : In(Under(s), Ping(n)) => In(Under(s)', Ping(n))
    BY Zenon, <1>8, <1>9
  <2> QED BY Zenon, <1>1, <1>2, <1>5, <2>1, AwaitKept
<1>11. AwaitOK(s)'
  <2>1. CASE awaited_pong'[s] = 0
    BY Zenon, <2>1 DEF AwaitOK
  <2>2. CASE awaited_pong'[s] = awaited_pong[s] /\ "Pong" \notin kinds
    <3>1. \A n : In(Under(s), Pong(n)) => In(Under(s)', Pong(n))
      BY Zenon, <1>8, <1>9, <2>2
    <3> QED BY ZenonT(30), <1>1, <1>5, <2>2, <3>1, AwaitKept
  <2> QED BY Zenon, <2>1, <2>2
<1> QED BY ZenonT(30), <1>4, <1>5, <1>7, <1>10, <1>11, Sides

LEMMA HandlePongInv ==
    ASSUME IInv, NEW s \in Side, HandlePong(s)
    PROVE  IInv'
<1>1. /\ TypeOK /\ handed \in [Chan -> Nat] /\ forwarded \in [Chan -> Nat]
      /\ ~connect["remote"]
      /\ \A t \in Side : AwaitOK(t) /\ CountOK(t)
      /\ \A d \in Chan : ChanOK(d) /\ \A t \in Side : Single(Under(t), d)
  BY Zenon, Parts
<1>2. Peer(s) \in Side /\ Peer(s) # s /\ Peer(Peer(s)) = s
  BY Zenon, Sides
<1>3. /\ TakeBolt(s, {"Pong"}) /\ awaited_pong' = [awaited_pong EXCEPT ![s] = 0]
      /\ UNCHANGED <<link, wire, connect, channels, messages_sent, timeouts, handed, forwarded>>
      /\ {"Pong"} \cap {"PingPeer", "Ping"} = {}
  BY Zenon DEF HandlePong
<1>4. /\ awaited_pong' \in [Side -> PongSizes \cup {0}] /\ awaited_pong'[s] = 0
      /\ awaited_pong'[Peer(s)] = awaited_pong[Peer(s)]
  BY Zenon, <1>1, <1>2, <1>3 DEF TypeOK
<1>5. /\ Got(s) /\ Under(Peer(s))' = Under(Peer(s))
      /\ bridge' \in [Side -> Seq(Sendable \cup {PingPeer})]
      /\ messages_received' \in [Side -> Nat]
      /\ \A t \in Side : AwaitOK(t)' /\ CountOK(t)'
  BY Zenon, <1>3, <1>4, QuietStep
<1>6. TypeOK'
  BY ZenonT(30), <1>1, <1>3, <1>4, <1>5 DEF TypeOK
<1>7. ASSUME NEW d \in Chan PROVE ChanOK(d)'
  <2>1. NoneAdded(s, d) /\ NoneAdded(Peer(s), d)
    BY Zenon, <1>1, <1>2, <1>5, NoneAddedBy
  <2>2. \A t \in Side : NoneAdded(t, d)
    BY Zenon, <2>1, Sides
  <2> QED BY Zenon, <1>1, <1>3, <2>2, ChanFrame
<1> QED BY ZenonT(30), <1>1, <1>3, <1>5, <1>6, <1>7, PartsNext

LEMMA HandleOtherInv ==
    ASSUME IInv, NEW s \in Side, HandleOther(s)
    PROVE  IInv'
<1>1. /\ TypeOK /\ handed \in [Chan -> Nat] /\ forwarded \in [Chan -> Nat]
      /\ ~connect["remote"]
      /\ \A t \in Side : AwaitOK(t) /\ CountOK(t)
      /\ \A d \in Chan : ChanOK(d) /\ \A t \in Side : Single(Under(t), d)
  BY Zenon, Parts
<1>2. Peer(s) \in Side /\ Peer(s) # s /\ Peer(Peer(s)) = s
  BY Zenon, Sides
<1>3. /\ TakeBolt(s, {"Init"})
      /\ UNCHANGED <<link, wire, connect, awaited_pong, channels, messages_sent, timeouts,
                     handed, forwarded>>
      /\ {"Init"} \cap {"PingPeer", "Ping"} = {} /\ "Pong" \notin {"Init"}
  BY Zenon DEF HandleOther
<1>4. /\ Got(s) /\ Under(Peer(s))' = Under(Peer(s))
      /\ bridge' \in [Side -> Seq(Sendable \cup {PingPeer})]
      /\ messages_received' \in [Side -> Nat]
      /\ \A t \in Side : AwaitOK(t)' /\ CountOK(t)'
  BY Zenon, <1>3, QuietStep
<1>5. TypeOK'
  BY Zenon, <1>1, <1>3, <1>4 DEF TypeOK
<1>6. ASSUME NEW d \in Chan PROVE ChanOK(d)'
  <2>1. NoneAdded(s, d) /\ NoneAdded(Peer(s), d)
    BY Zenon, <1>1, <1>2, <1>4, NoneAddedBy
  <2>2. \A t \in Side : NoneAdded(t, d)
    BY Zenon, <2>1, Sides
  <2> QED BY ZenonT(30), <1>1, <1>3, <2>2, ChanFrame
<1> QED BY ZenonT(30), <1>1, <1>3, <1>4, <1>5, <1>6, PartsNext

LEMMA HandleForwardInv ==
    ASSUME IInv, NEW s \in Side, HandleForward(s)
    PROVE  IInv'
<1>1. /\ TypeOK /\ handed \in [Chan -> Nat] /\ forwarded \in [Chan -> Nat]
      /\ ~connect["remote"]
      /\ \A t \in Side : AwaitOK(t) /\ CountOK(t)
      /\ \A d \in Chan : ChanOK(d) /\ \A t \in Side : Single(Under(t), d)
  BY Zenon, Parts
<1>2. Peer(s) \in Side /\ Peer(s) # s /\ Peer(Peer(s)) = s
  BY Zenon, Sides
<1>3. /\ TakeBolt(s, ChannelKinds)
      /\ UNCHANGED <<link, wire, connect, awaited_pong, messages_sent, timeouts, handed>>
      /\ ChannelKinds \cap {"PingPeer", "Ping"} = {} /\ "Pong" \notin ChannelKinds
  BY Zenon, MsgKinds DEF HandleForward
<1>4. /\ Got(s) /\ Under(Peer(s))' = Under(Peer(s))
      /\ Head(bridge[s]) = Head(Under(s)) /\ Head(Under(s)) \in Msg
      /\ Head(Under(s)).kind \in ChannelKinds
      /\ bridge' \in [Side -> Seq(Sendable \cup {PingPeer})]
      /\ messages_received' \in [Side -> Nat]
      /\ \A t \in Side : AwaitOK(t)' /\ CountOK(t)'
  BY Zenon, <1>3, QuietStep
<1>5. PICK c \in Chan : \E j \in 1..Len(Script(c)) : Head(Under(s)) = Bolt(Script(c)[j], c)
  BY Zenon, <1>4, MsgOfKind
<1>6. /\ About(Head(Under(s)), c) /\ Head(Under(s)).chan = c
      /\ \A d \in Chan \ {c} : ~About(Head(Under(s)), d)
  BY SMTT(30), <1>4, <1>5, MsgKinds DEF About
<1>7. Under(s) \in Seq(Msg) /\ Under(s) # <<>> /\ Under(s)' = Tail(Under(s))
  BY Zenon, <1>1, <1>4, UnderType DEF Got
<1>8. In(Under(s), Head(Under(s)))
  BY Zenon, <1>7, TailFacts DEF In
<1>9. PICK i \in Nat : i = handed[c]
  BY Zenon, <1>1
<1>10. /\ i # forwarded[c] /\ s = Peer(Sender(i))
       /\ Head(Under(s)) = Bolt(Script(c)[i], c)
       /\ ListedAs(Sender(i), c, i) /\ ListedAs(Peer(Sender(i)), c, forwarded[c])
       /\ i = forwarded[c] + 1
  BY ZenonT(30), <1>1, <1>4, <1>6, <1>8, <1>9 DEF ChanOK
<1>11. /\ i \in 1..Len(Script(c)) /\ forwarded[c] = i - 1 /\ forwarded[c] + 1 = i
  <2>1. forwarded[c] \in Nat /\ i \in 0..Len(Script(c)) /\ Len(Script(c)) \in Nat
    BY Zenon, <1>1, <1>9, ChanTypes
  <2> QED BY <1>10, <2>1
<1>12. /\ forwarded' = [forwarded EXCEPT ![c] = i]
       /\ channels' = [channels EXCEPT ![s] = ListedAfterForward(@, Script(c)[i], c)]
  <2>1. Head(bridge[s]).chan = c /\ Head(bridge[s]).kind = Script(c)[i]
    <3>1. Bolt(Script(c)[i], c).kind = Script(c)[i]
      BY Zenon, MsgKinds
    <3> QED BY Zenon, <1>4, <1>6, <1>10, <3>1
  <2>2. /\ forwarded' = [forwarded EXCEPT ![c] = forwarded[c] + 1]
        /\ channels' = [channels EXCEPT ![s] = ListedAfterForward(channels[s], Script(c)[i], c)]
    BY Zenon, <2>1 DEF HandleForward
  <2> QED BY Zenon, <1>11, <2>2
<1>13. channels \in [Side -> SUBSET ({"Temporary", "Static"} \X Chan)]
  BY Zenon, <1>1 DEF TypeOK
<1>14. /\ channels'[s] = ListedAfterForward(channels[s], Script(c)[i], c)
       /\ channels'[Peer(s)] = channels[Peer(s)]
       /\ forwarded'[c] = i /\ \A d \in Chan \ {c} : forwarded'[d] = forwarded[d]
       /\ forwarded' \in [Chan -> Nat]
  BY Zenon, <1>1, <1>2, <1>12, <1>13
<1>15. channels' \in [Side -> SUBSET ({"Temporary", "Static"} \X Chan)]
  BY Zenon, <1>12, <1>13, OtherLists
<1>16. \A d \in Chan : forwarded'[d] \in 0..handed'[d] /\ handed'[d] \in 0..Len(Script(d))
  <2>1. \A d \in Chan : forwarded[d] \in 0..handed[d] /\ handed[d] \in 0..Len(Script(d))
    BY Zenon, ChanTypes
  <2>2. i \in 0..i
    OBVIOUS
  <2> QED BY ZenonT(30), <1>3, <1>9, <1>14, <2>1, <2>2
<1>17. TypeOK'
  BY ZenonT(30), <1>1, <1>3, <1>4, <1>15, <1>16 DEF TypeOK
<1>18. \A d \in Chan : NoneAdded(s, d) /\ NoneAdded(Peer(s), d)
  BY Zenon, <1>1, <1>2, <1>4, NoneAddedBy
<1>19. \A d \in Chan, t \in Side : NoneAdded(t, d)
  BY Zenon, <1>18, Sides
<1>20. ASSUME NEW d \in Chan \ {c} PROVE ChanOK(d)'
  <2>1. ASSUME NEW t \in Side
        PROVE  \A id \in {"Temporary", "Static"} :
                  <<id, d>> \in channels'[t] <=> <<id, d>> \in channels[t]
    <3>1. channels[s] \in SUBSET ({"Temporary", "Static"} \X Chan)
      BY Zenon, <1>13
    <3>2. \A id \in {"Temporary", "Static"} :
             <<id, d>> \in ListedAfterForward(channels[s], Script(c)[i], c)
                 <=> <<id, d>> \in channels[s]
      BY Zenon, <3>1, OtherLists
    <3> QED BY Zenon, <1>14, <3>2, Sides
  <2> QED BY ZenonT(30), <1>1, <1>3, <1>14, <1>19, <2>1, ChanFrame
<1>21. ChanOK(c)'
  <2>1. handed'[c] = forwarded'[c] /\ handed'[c] = i
    BY Zenon, <1>3, <1>9, <1>14
  <2>2. Sender(i) = Peer(s) /\ Sender(i) \in Side
    BY Zenon, <1>10, Sides
  <2>3. ListedAs(s, c, i)'
    <3>1. ListedAs(Peer(Sender(i)), c, i - 1)
      BY Zenon, <1>10, <1>11
    <3>2. ListedAs(Peer(Sender(i)), c, i)'
      BY Zenon, <1>10, <1>11, <1>14, <3>1, ForwardLists
    <3> QED BY Zenon, <1>10, <3>2
  <2>4. ListedAs(Peer(s), c, i)'
    BY Zenon, <1>10, <1>14, <2>2 DEF ListedAs
  <2>5. \A t \in Side : ListedAs(t, c, i)'
    BY Zenon, <2>3, <2>4, Sides
  <2>6. (handed[c] = forwarded[c] => \A t \in Side : ListedAs(t, c, handed[c]))'
    BY Zenon, <2>1, <2>5 DEF ListedAs
  <2>7. ASSUME NEW t \in Side, NEW x \in Msg, In(Under(t)', x), About(x, c)
        PROVE  FALSE
    <3>1. In(Under(t), x)
      BY Zenon, <1>19, <2>7 DEF NoneAdded
    <3>2. t = s
      BY ZenonT(30), <1>1, <1>9, <1>10, <2>7, <3>1 DEF ChanOK
    <3>3. Single(Under(s), c)
      BY Zenon, <1>1
    <3>4. \A y \in Msg : In(Tail(Under(s)), y) => ~About(y, c)
      BY ZenonT(30), <1>6, <1>7, <3>3, SingleKept
    <3> QED BY ZenonT(30), <1>7, <2>7, <3>2, <3>4
  <2>8. \A t \in Side : Single(Under(t)', c)
    BY Zenon, <1>19 DEF NoneAdded
  <2>9. /\ \A t \in Side : \A x \in Msg : In(Under(t), x)' <=> In(Under(t)', x)
        /\ \A t \in Side : Single(Under(t), c)' <=> Single(Under(t)', c)
    BY Zenon DEF In, Single
  <2> QED BY ZenonT(30), <2>1, <2>6, <2>7, <2>8, <2>9 DEF ChanOK
<1>22. \A d \in Chan : ChanOK(d)'
  BY Zenon, <1>20, <1>21
<1> QED BY ZenonT(30), <1>1, <1>3, <1>4, <1>14, <1>17, <1>22, PartsNext

LEMMA NextInv == IInv /\ [Next]_vars => IInv'
<1> SUFFICES ASSUME IInv, [Next]_vars PROVE IInv'
  BY Zenon
<1>1. CASE UNCHANGED vars
  <2>1. TypeOK' /\ handed' \in [Chan -> Nat] /\ forwarded' \in [Chan -> Nat] /\ ~connect'["remote"]
    BY Zenon, <1>1 DEF vars, IInv, TypeOK
  <2>2. \A s \in Side : AwaitOK(s)' /\ CountOK(s)'
    <3>1. \A s \in Side : AwaitOK(s) /\ CountOK(s)
      BY Zenon, Parts
    <3>2. \A s \in Side : AwaitOK(s)' <=> AwaitOK(s)
      BY Zenon, <1>1 DEF vars, AwaitOK, Under, In
    <3>3. \A s \in Side : CountOK(s)' <=> CountOK(s)
      BY Zenon, <1>1 DEF vars, CountOK, Counted, Arrived, Under, Bolts
    <3> QED BY ZenonT(30), <3>1, <3>2, <3>3
  <2>3. \A c \in Chan : ChanOK(c)'
    <3>1. \A c \in Chan : ChanOK(c)' <=> ChanOK(c)
      BY SMTT(30), <1>1 DEF vars, ChanOK, ListedAs, Under, In, Single
    <3> QED BY ZenonT(30), <3>1 DEF IInv
  <2> QED BY ZenonT(30), <2>1, <2>2, <2>3, PartsNext
<1>2. ASSUME NEW s \in Side, HandleBridge(s) PROVE IInv'
  BY ZenonT(30), <1>2, HandlePingPeerInv, HandlePingInv, HandlePongInv,
     HandleForwardInv,
     HandleOtherInv DEF HandleBridge
<1> QED
  BY ZenonT(30), <1>1, <1>2, OnReadyInv, HandleBoltInv, ListenerHandleInv,
     ListenerTimedOutInv,
     LinkBreaksInv DEF Next

LEMMA Invariance == Spec => []IInv
BY InitInv, NextInv, PTL DEF Spec

-----------------------------------------------------------------------------
(* The state of the two daemons and of the connection keeps its type, and no *)
(* more messages of a channel are forwarded than its channelds handed over.  *)
THEOREM TypeCorrect == Spec => []TypeOK
<1>1. IInv => TypeOK
  BY Zenon DEF IInv
<1> QED BY <1>1, Invariance, PTL

(* The pong that a runtime awaits is under way, or the ping that asks for    *)
(* it, however timeouts, pings and pongs of both ends overlap: ping          *)
(* overwrites awaited_pong and on_pong clears it for whichever pong.         *)
THEOREM AwaitedUnderWay == Spec => []AwaitedIsUnderWay
<1>1. IInv => AwaitedIsUnderWay
  BY Zenon DEF IInv
<1> QED BY <1>1, Invariance, PTL

(* messages_sent of one end and messages_received of the other differ by the *)
(* messages under way and the uncounted Init, and once the connection broke  *)
(* by what was lost.                                                         *)
THEOREM CountersAgree == Spec => []MessagesAreCounted
<1>1. IInv => MessagesAreCounted
  BY Zenon DEF IInv
<1> QED BY <1>1, Invariance, PTL

(* Between two messages of a channel both daemons list it under the same     *)
(* single id once each has sent a message of it.                             *)
THEOREM ListsAgree == Spec => []ChannelsAgree
<1>1. IInv => ChannelsAgree
  <2> SUFFICES ASSUME IInv, NEW c \in Chan, handed[c] = forwarded[c], handed[c] >= 2
               PROVE  \E id \in {"Temporary", "Static"} : \A s \in Side :
                        channels[s] \cap ({"Temporary", "Static"} \X {c}) = {<<id, c>>}
    BY Zenon DEF ChannelsAgree
  <2>1. /\ \A s \in Side : ListedAs(s, c, handed[c])
        /\ handed[c] \in Nat /\ handed[c] <= Len(Script(c))
    BY SMTT(30), ChanTypes DEF IInv, ChanOK
  <2>2. ASSUME NEW s \in Side, NEW id \in {"Temporary", "Static"}, <<id, c>> \in channels[s],
               \A o \in {"Temporary", "Static"} : o # id => <<o, c>> \notin channels[s]
        PROVE  channels[s] \cap ({"Temporary", "Static"} \X {c}) = {<<id, c>>}
    BY SMTT(30), <2>2
  <2>3. CASE c \in Opened /\ handed[c] = 2
    <3>1. \A s \in Side : <<"Temporary", c>> \in channels[s] /\ <<"Static", c>> \notin channels[s]
      BY SMTT(30), <2>1, <2>3 DEF ListedAs, HasSent
    <3> QED BY Zenon, <2>2, <3>1
  <2>4. CASE c \in Opened /\ handed[c] # 2
    <3>1. handed[c] >= 3 /\ \A s \in Side : ~HasSent(s, handed[c])
      BY <2>1, <2>4 DEF HasSent
    <3>2. \A s \in Side : <<"Static", c>> \in channels[s] /\ <<"Temporary", c>> \notin channels[s]
      BY ZenonT(30), <2>1, <2>4, <3>1 DEF ListedAs
    <3> QED BY Zenon, <2>2, <3>2
  <2>5. CASE c \notin Opened
    <3>1. handed[c] = 2
      BY SMTT(30), <2>1, <2>5, ScriptFacts
    <3>2. \A s \in Side : <<"Static", c>> \in channels[s] /\ <<"Temporary", c>> \notin channels[s]
      BY Zenon, <2>1, <2>5, <3>1 DEF ListedAs, HasSent
    <3> QED BY Zenon, <2>2, <3>2
  <2> QED BY Zenon, <2>3, <2>4, <2>5
<1> QED BY <1>1, Invariance, PTL

=============================================================================
