---------------------------- MODULE WatchdProofs ----------------------------
(***************************************************************************)
(* Proofs about Watchd, for every set of transactions and of services and  *)
(* for rings of every length: the types, what the worker polls, that the   *)
(* worker does not meet its unwrap, and that watchd implements TxTracker.  *)
(*                                                                         *)
(* The runtime's track_list and the worker's tracks are joined only by the *)
(* commands under way, so the invariant reads the commands in their order: *)
(* what track_list names is, or will be, in tracks, and every untrack      *)
(* command has a track entry of its own to remove.                         *)
(***************************************************************************)
EXTENDS Watchd, FiniteSetTheorems, SequenceTheorems, TLAPS

(* Everything on its way back to the runtime was seen by the server.         *)
KnownOK ==
    /\ \A i \in 1..Len(bridge) : bridge[i] \in known
    /\ \A i \in 1..Len(updates) :
          \A j \in 1..Len(updates[i]) : updates[i][j] \in known

(* The worker will have tx in its list once it has caught up.                *)
Polled(tx) ==
    \/ /\ Contains(tracks, tx)
       /\ \A i \in 1..Len(cmds) : cmds[i] # Cmd("untrack", tx)
    \/ \E j \in 1..Len(cmds) :
          /\ cmds[j] = Cmd("track", tx)
          /\ \A i \in 1..Len(cmds) : cmds[i] = Cmd("untrack", tx) => i < j

(* Every untrack command for tx finds an entry: one that is there or arrives *)
(* before it, and between two of them there is a track command.              *)
Matched(tx) ==
    \A k \in 1..Len(cmds) :
        cmds[k] = Cmd("untrack", tx) =>
            /\ \/ Contains(tracks, tx)
               \/ \E j \in 1..Len(cmds) : j < k /\ cmds[j] = Cmd("track", tx)
            /\ \A i \in 1..Len(cmds) :
                  i < k /\ cmds[i] = Cmd("untrack", tx) =>
                      \E j \in 1..Len(cmds) :
                          i < j /\ j < k /\ cmds[j] = Cmd("track", tx)

TrackedOK == \A tx \in Tx : track_list[tx] # NoService => Polled(tx)

MatchedOK == \A tx \in Tx \ withdrawn : Matched(tx)

IInv ==
    /\ TypeOK
    /\ KnownOK
    /\ worker = "running" => TrackedOK /\ MatchedOK

-----------------------------------------------------------------------------
(* Commands and lists.                                                       *)

(* A command is told by its first field.                                     *)
LEMMA CmdKinds ==
    /\ \A c \in Cmds : c[1] \in {"track", "untrack", "get"}
    /\ \A c \in Cmds : c[1] = "get" <=> c = GetTransactions
    /\ \A c \in Cmds : c[1] = "track" => c[2] \in Tx /\ c = Cmd("track", c[2])
    /\ \A c \in Cmds : c[1] = "untrack" => c[2] \in Tx /\ c = Cmd("untrack", c[2])
    /\ \A tx \in Tx : Cmd("track", tx) \in Cmds /\ Cmd("untrack", tx) \in Cmds
    /\ GetTransactions \in Cmds
    /\ \A t, u \in Tx : /\ Cmd("track", t) # Cmd("untrack", u)
                        /\ Cmd("untrack", t) # GetTransactions
                        /\ Cmd("track", t) # GetTransactions
                        /\ Cmd("track", t) = Cmd("track", u) => t = u
                        /\ Cmd("untrack", t) = Cmd("untrack", u) => t = u
<1>1. GetTransactions[1] = "get"
  BY Zenon DEF GetTransactions
<1>2. \A t : Cmd("track", t)[1] = "track" /\ Cmd("untrack", t)[1] = "untrack"
             /\ Cmd("track", t)[2] = t /\ Cmd("untrack", t)[2] = t
  BY Zenon DEF Cmd
<1>3. ASSUME NEW c \in Cmds
      PROVE  \/ c = GetTransactions
             \/ \E t \in Tx : c = Cmd("track", t) \/ c = Cmd("untrack", t)
  BY DEF Cmds, Cmd
<1>4. GetTransactions \in Cmds
  BY Zenon DEF Cmds
<1>5. \A tx \in Tx : Cmd("track", tx) \in Cmds /\ Cmd("untrack", tx) \in Cmds
  BY Zenon DEF Cmds, Cmd
<1> QED
  BY SMTT(30), <1>1, <1>2, <1>3, <1>4, <1>5

(* A nonempty set of natural numbers has a least element.                    *)
LEMMA LeastOf ==
    ASSUME NEW S \in SUBSET Nat, S # {}
    PROVE  Min(S) \in S /\ \A y \in S : Min(S) <= y
<1> DEFINE R == {r \in Nat \X Nat : r[1] < r[2]}
<1>0. IsWellFoundedOn(R, Nat)
  BY Zenon, NatLessThanWellFounded DEF OpToRel
<1>1. PICK x \in S : \A y \in S : ~(<<y, x>> \in R)
  <2> HIDE DEF R
  <2> QED BY Zenon, <1>0, WFMin
<1>2. ASSUME NEW y \in S PROVE x <= y
  <2>1. y < x => <<y, x>> \in R
    BY Zenon
  <2>2. ~(y < x)
    BY Zenon, <1>1, <2>1
  <2>3. x \in Nat /\ y \in Nat
    BY Zenon
  <2> QED BY <2>2, <2>3
<1> QED
  BY Zenon, <1>2 DEF Min

(* RemoveFirst keeps the type of a list and every other element of it.       *)
LEMMA RemoveFirstKeeps ==
    ASSUME NEW s \in Seq(Tx), NEW e \in Tx
    PROVE  /\ RemoveFirst(s, e) \in Seq(Tx)
           /\ \A x \in Tx : x # e /\ Contains(s, x) => Contains(RemoveFirst(s, e), x)
<1>1. CASE ~\E i \in 1..Len(s) : s[i] = e
  BY Zenon, <1>1 DEF RemoveFirst
<1>2. CASE \E i \in 1..Len(s) : s[i] = e
  <2> DEFINE I == {i \in 1..Len(s) : s[i] = e}
             p == Min(I)
             a == SubSeq(s, 1, p - 1)
             b == SubSeq(s, p + 1, Len(s))
  <2>1. I \in SUBSET Nat /\ I # {}
    BY <1>2
  <2>2. p \in I
    <3> HIDE DEF I
    <3> QED BY Zenon, <2>1, LeastOf
  <2>3. p \in 1..Len(s) /\ s[p] = e
    BY Zenon, <2>2
  <2>4. RemoveFirst(s, e) = a \o b
    BY Zenon, <1>2, <2>1 DEF RemoveFirst, RemoveAt, SelectInSeq
  <2> HIDE DEF p
  <2>5. /\ a \in Seq(Tx) /\ Len(a) = p - 1
        /\ \A i \in 1..p - 1 : a[i] = s[i]
    <3>1. \A i \in 1..p - 1 : s[i] \in Tx
      BY <2>3
    <3>2. 1 \in Int /\ p - 1 \in Int
      BY <2>3
    <3> QED BY SMTT(30), <2>3, <3>1, <3>2, SubSeqProperties
  <2>6. /\ b \in Seq(Tx) /\ Len(b) = Len(s) - p
        /\ \A i \in 1..Len(s) - p : b[i] = s[p + i]
    <3>1. \A i \in p + 1..Len(s) : s[i] \in Tx
      BY <2>3
    <3>2. p + 1 \in Int /\ Len(s) \in Int
      BY <2>3
    <3>3. /\ b \in Seq(Tx)
          /\ Len(b) = IF p + 1 <= Len(s) THEN Len(s) - (p + 1) + 1 ELSE 0
          /\ \A i \in 1..Len(s) - (p + 1) + 1 : b[i] = s[p + 1 + i - 1]
      BY SMTT(30), <3>1, <3>2, SubSeqProperties
    <3> HIDE DEF b
    <3> QED BY <2>3, <3>3
  <2> HIDE DEF a, b
  <2>7. /\ a \o b \in Seq(Tx) /\ Len(a \o b) = Len(a) + Len(b)
        /\ \A i \in 1..Len(a) + Len(b) :
              (a \o b)[i] = IF i <= Len(a) THEN a[i] ELSE b[i - Len(a)]
    BY Zenon, <2>5, <2>6, ConcatProperties
  <2>8. ASSUME NEW x \in Tx, x # e, Contains(s, x)
        PROVE  Contains(a \o b, x)
    <3>1. PICK i \in 1..Len(s) : s[i] = x
      BY Zenon, <2>8 DEF Contains
    <3>2. i # p
      BY Zenon, <2>3, <2>8, <3>1
    <3>3. CASE i < p
      <4>1. i \in 1..p - 1 /\ i \in 1..Len(a) + Len(b) /\ i <= Len(a)
        BY SMTT(30), <2>3, <2>5, <2>6, <3>3
      <4>2. (a \o b)[i] = x
        BY Zenon, <2>5, <2>7, <3>1, <4>1
      <4> QED BY Zenon, <2>7, <4>1, <4>2 DEF Contains
    <3>4. CASE i > p
      <4>1. /\ i - p \in 1..Len(s) - p /\ i - 1 \in 1..Len(a) + Len(b)
            /\ ~(i - 1 <= Len(a)) /\ i - 1 - Len(a) = i - p /\ p + (i - p) = i
        BY SMTT(30), <2>3, <2>5, <2>6, <3>4
      <4>2. (a \o b)[i - 1] = b[i - p]
        BY Zenon, <2>7, <4>1
      <4>3. b[i - p] = s[p + (i - p)]
        BY Zenon, <2>6, <4>1
      <4>4. (a \o b)[i - 1] = x
        BY Zenon, <3>1, <4>1, <4>2, <4>3
      <4> QED BY Zenon, <2>7, <4>1, <4>4 DEF Contains
    <3> QED BY SMTT(30), <2>3, <3>2, <3>3, <3>4
  <2> QED BY Zenon, <2>4, <2>7, <2>8
<1> QED BY Zenon, <1>1, <1>2

-----------------------------------------------------------------------------
(* The commands under way, when one is added and when one is taken.          *)

LEMMA CmdAdded ==
    ASSUME TypeOK, NEW c \in Cmds, cmds' = Append(cmds, c)
    PROVE  /\ cmds' \in Seq(Cmds)
           /\ Len(cmds) \in Nat /\ Len(cmds') = Len(cmds) + 1
           /\ \A i \in 1..Len(cmds) : cmds'[i] = cmds[i]
           /\ cmds'[Len(cmds) + 1] = c
BY SMTT(30), AppendProperties DEF TypeOK

LEMMA CmdTaken ==
    ASSUME TypeOK, cmds # <<>>, cmds' = Tail(cmds)
    PROVE  /\ cmds' \in Seq(Cmds) /\ Head(cmds) \in Cmds
           /\ Head(cmds) = cmds[1]
           /\ Len(cmds) \in Nat /\ Len(cmds) >= 1 /\ Len(cmds') = Len(cmds) - 1
           /\ \A i \in 1..Len(cmds') : cmds'[i] = cmds[i + 1]
           /\ \A i \in 1..Len(cmds) : i # 1 => i - 1 \in 1..Len(cmds') /\ cmds'[i - 1] = cmds[i]
<1>1. cmds \in Seq(Cmds)
  BY Zenon DEF TypeOK
<1>2. Head(cmds) = cmds[1] /\ Len(cmds) >= 1 /\ Len(cmds) \in Nat
  BY <1>1
<1>3. /\ cmds' \in Seq(Cmds) /\ Head(cmds) \in Cmds /\ Len(cmds') = Len(cmds) - 1
      /\ \A i \in 1..Len(cmds') : cmds'[i] = cmds[i + 1]
  BY Zenon, <1>1, HeadTailProperties
<1>4. ASSUME NEW i \in 1..Len(cmds), i # 1
      PROVE  i - 1 \in 1..Len(cmds') /\ cmds'[i - 1] = cmds[i]
  <2>1. i - 1 \in 1..Len(cmds') /\ i - 1 + 1 = i
    BY SMTT(30), <1>2, <1>3, <1>4
  <2> QED BY Zenon, <1>3, <2>1
<1> QED BY Zenon, <1>2, <1>3, <1>4

(* A command other than an untrack of tx, added at the end.                  *)
LEMMA AddKeeps ==
    ASSUME TypeOK, NEW tx \in Tx, NEW c \in Cmds, c # Cmd("untrack", tx),
           cmds' = Append(cmds, c), UNCHANGED tracks
    PROVE  /\ Polled(tx) => Polled(tx)'
           /\ Matched(tx) => Matched(tx)'
<1>1. /\ Len(cmds) \in Nat /\ Len(cmds') = Len(cmds) + 1
      /\ \A i \in 1..Len(cmds) : cmds'[i] = cmds[i]
      /\ cmds'[Len(cmds) + 1] = c
  BY Zenon, CmdAdded
<1>2. \A i \in 1..Len(cmds') : cmds'[i] = Cmd("untrack", tx) =>
           i \in 1..Len(cmds) /\ cmds[i] = Cmd("untrack", tx)
  BY SMTT(30), <1>1
<1>3. \A i \in 1..Len(cmds) : i \in 1..Len(cmds')
  BY <1>1
<1>4. Contains(tracks, tx) <=> Contains(tracks', tx)
  BY Zenon
<1>5. ASSUME Polled(tx) PROVE Polled(tx)'
  BY Zenon, <1>1, <1>2, <1>3, <1>4, <1>5 DEF Polled
<1>6. ASSUME Matched(tx) PROVE Matched(tx)'
  <2> SUFFICES ASSUME NEW k \in 1..Len(cmds'), cmds'[k] = Cmd("untrack", tx)
               PROVE  /\ \/ Contains(tracks', tx)
                         \/ \E j \in 1..Len(cmds') : j < k /\ cmds'[j] = Cmd("track", tx)
                      /\ \A i \in 1..Len(cmds') :
                            i < k /\ cmds'[i] = Cmd("untrack", tx) =>
                                \E j \in 1..Len(cmds') :
                                    i < j /\ j < k /\ cmds'[j] = Cmd("track", tx)
    BY Zenon DEF Matched
  <2>1. k \in 1..Len(cmds) /\ cmds[k] = Cmd("untrack", tx)
    BY Zenon, <1>2
  <2>2. \/ Contains(tracks, tx)
        \/ \E j \in 1..Len(cmds) : j < k /\ cmds[j] = Cmd("track", tx)
    BY Zenon, <1>6, <2>1 DEF Matched
  <2>3. \A i \in 1..Len(cmds) :
            i < k /\ cmds[i] = Cmd("untrack", tx) =>
                \E j \in 1..Len(cmds) : i < j /\ j < k /\ cmds[j] = Cmd("track", tx)
    BY Zenon, <1>6, <2>1 DEF Matched
  <2>4. \/ Contains(tracks', tx)
        \/ \E j \in 1..Len(cmds') : j < k /\ cmds'[j] = Cmd("track", tx)
    BY Zenon, <1>1, <1>3, <1>4, <2>2
  <2>5. ASSUME NEW i \in 1..Len(cmds'), i < k, cmds'[i] = Cmd("untrack", tx)
        PROVE  \E j \in 1..Len(cmds') : i < j /\ j < k /\ cmds'[j] = Cmd("track", tx)
    <3>1. i \in 1..Len(cmds) /\ cmds[i] = Cmd("untrack", tx)
      BY Zenon, <1>2, <2>5
    <3>2. PICK j \in 1..Len(cmds) : i < j /\ j < k /\ cmds[j] = Cmd("track", tx)
      BY Zenon, <2>3, <2>5, <3>1
    <3> QED BY Zenon, <1>1, <1>3, <3>2
  <2> QED BY Zenon, <2>4, <2>5
<1> QED BY Zenon, <1>5, <1>6

(* A track command for tx makes it polled.                                   *)
LEMMA AddTrack ==
    ASSUME TypeOK, NEW tx \in Tx, cmds' = Append(cmds, Cmd("track", tx))
    PROVE  Polled(tx)'
<1>1. /\ Len(cmds) \in Nat /\ Len(cmds') = Len(cmds) + 1
      /\ cmds'[Len(cmds) + 1] = Cmd("track", tx)
  BY Zenon, CmdAdded, CmdKinds
<1>2. Cmd("track", tx) # Cmd("untrack", tx)
  BY Zenon, CmdKinds
<1>3. Len(cmds) + 1 \in 1..Len(cmds')
  BY <1>1
<1>4. \A i \in 1..Len(cmds') : cmds'[i] = Cmd("untrack", tx) => i < Len(cmds) + 1
  BY SMTT(30), <1>1, <1>2
<1> QED BY Zenon, <1>1, <1>3, <1>4 DEF Polled

(* An untrack command for a polled tx has its entry.                         *)
LEMMA AddUntrack ==
    ASSUME TypeOK, NEW tx \in Tx, cmds' = Append(cmds, Cmd("untrack", tx)),
           UNCHANGED tracks, Polled(tx), Matched(tx)
    PROVE  Matched(tx)'
<1> DEFINE n == Len(cmds) + 1
<1>1. /\ Len(cmds) \in Nat /\ Len(cmds') = n
      /\ \A i \in 1..Len(cmds) : cmds'[i] = cmds[i]
  BY Zenon, CmdAdded, CmdKinds
<1>3. \A i \in 1..Len(cmds) : i \in 1..Len(cmds') /\ i < n
  BY <1>1
<1>4. \A i \in 1..Len(cmds') : i \in 1..Len(cmds) \/ i = n
  BY <1>1
<1>5. Contains(tracks, tx) <=> Contains(tracks', tx)
  BY Zenon
<1> SUFFICES ASSUME NEW k \in 1..Len(cmds'), cmds'[k] = Cmd("untrack", tx)
             PROVE  /\ \/ Contains(tracks', tx)
                       \/ \E j \in 1..Len(cmds') : j < k /\ cmds'[j] = Cmd("track", tx)
                    /\ \A i \in 1..Len(cmds') :
                          i < k /\ cmds'[i] = Cmd("untrack", tx) =>
                              \E j \in 1..Len(cmds') :
                                  i < j /\ j < k /\ cmds'[j] = Cmd("track", tx)
  BY Zenon DEF Matched
<1>6. CASE k = n
  <2>1. CASE Contains(tracks, tx) /\ \A i \in 1..Len(cmds) : cmds[i] # Cmd("untrack", tx)
    BY SMTT(30), <1>1, <1>3, <1>4, <1>5, <1>6, <2>1
  <2>2. CASE \E j \in 1..Len(cmds) :
                /\ cmds[j] = Cmd("track", tx)
                /\ \A i \in 1..Len(cmds) : cmds[i] = Cmd("untrack", tx) => i < j
    BY SMTT(30), <1>1, <1>3, <1>4, <1>6, <2>2
  <2> QED BY ZenonT(30), <2>1, <2>2 DEF Polled
<1>7. CASE k \in 1..Len(cmds)
  <2>1. cmds[k] = Cmd("untrack", tx)
    BY Zenon, <1>1, <1>7
  <2>2. \/ Contains(tracks, tx)
        \/ \E j \in 1..Len(cmds) : j < k /\ cmds[j] = Cmd("track", tx)
    BY Zenon, <1>7, <2>1 DEF Matched
  <2>3. \A i \in 1..Len(cmds) :
            i < k /\ cmds[i] = Cmd("untrack", tx) =>
                \E j \in 1..Len(cmds) : i < j /\ j < k /\ cmds[j] = Cmd("track", tx)
    BY Zenon, <1>7, <2>1 DEF Matched
  <2>4. \/ Contains(tracks', tx)
        \/ \E j \in 1..Len(cmds') : j < k /\ cmds'[j] = Cmd("track", tx)
    BY Zenon, <1>1, <1>3, <1>5, <2>2
  <2>5. ASSUME NEW i \in 1..Len(cmds'), i < k, cmds'[i] = Cmd("untrack", tx)
        PROVE  \E j \in 1..Len(cmds') : i < j /\ j < k /\ cmds'[j] = Cmd("track", tx)
    <3>1. i \in 1..Len(cmds)
      BY SMTT(30), <1>1, <1>7, <2>5
    <3>2. PICK j \in 1..Len(cmds) : i < j /\ j < k /\ cmds[j] = Cmd("track", tx)
      BY Zenon, <1>1, <2>3, <2>5, <3>1
    <3> QED BY Zenon, <1>1, <1>3, <3>2
  <2> QED BY Zenon, <2>4, <2>5
<1> QED BY ZenonT(30), <1>4, <1>6, <1>7

(* The worker takes a command: tx stays polled and matched when the list     *)
(* gains tx on its track command and loses it only on its untrack command.   *)
LEMMA TakeKeeps ==
    ASSUME TypeOK, NEW tx \in Tx, cmds # <<>>, cmds' = Tail(cmds),
           cmds[1] = Cmd("track", tx) => Contains(tracks', tx),
           Contains(tracks, tx) /\ cmds[1] # Cmd("untrack", tx) =>
               Contains(tracks', tx)
    PROVE  /\ Polled(tx) => Polled(tx)'
           /\ Matched(tx) => Matched(tx)'
<1>1. /\ Len(cmds) \in Nat /\ Len(cmds) >= 1 /\ Len(cmds') = Len(cmds) - 1
      /\ \A i \in 1..Len(cmds') : cmds'[i] = cmds[i + 1]
      /\ \A i \in 1..Len(cmds) : i # 1 => i - 1 \in 1..Len(cmds') /\ cmds'[i - 1] = cmds[i]
  BY Zenon, CmdTaken
<1>2. \A i \in 1..Len(cmds') : i + 1 \in 1..Len(cmds)
  BY <1>1
<1>3. 1 \in 1..Len(cmds)
  BY <1>1
<1>4. Cmd("track", tx) # Cmd("untrack", tx)
  BY Zenon, CmdKinds
<1>5. ASSUME Polled(tx) PROVE Polled(tx)'
  <2>1. CASE Contains(tracks, tx) /\ \A i \in 1..Len(cmds) : cmds[i] # Cmd("untrack", tx)
    BY SMTT(30), <1>1, <1>2, <1>3, <2>1 DEF Polled
  <2>2. ASSUME NEW j \in 1..Len(cmds), cmds[j] = Cmd("track", tx),
               \A i \in 1..Len(cmds) : cmds[i] = Cmd("untrack", tx) => i < j
        PROVE  Polled(tx)'
    <3>1. CASE j = 1
      <4>1. \A i \in 1..Len(cmds') : cmds'[i] # Cmd("untrack", tx)
        BY SMTT(30), <1>1, <1>2, <2>2, <3>1
      <4> QED BY Zenon, <2>2, <3>1, <4>1 DEF Polled
    <3>2. CASE j # 1
      <4>1. j - 1 \in 1..Len(cmds') /\ cmds'[j - 1] = Cmd("track", tx)
        BY Zenon, <1>1, <2>2, <3>2
      <4>2. \A i \in 1..Len(cmds') : cmds'[i] = Cmd("untrack", tx) => i < j - 1
        BY SMTT(30), <1>1, <1>2, <2>2
      <4> QED BY Zenon, <4>1, <4>2 DEF Polled
    <3> QED BY Zenon, <3>1, <3>2
  <2> QED BY Zenon, <1>5, <2>1, <2>2 DEF Polled
<1>6. ASSUME Matched(tx) PROVE Matched(tx)'
  <2> SUFFICES ASSUME NEW k \in 1..Len(cmds'), cmds'[k] = Cmd("untrack", tx)
               PROVE  /\ \/ Contains(tracks', tx)
                         \/ \E j \in 1..Len(cmds') : j < k /\ cmds'[j] = Cmd("track", tx)
                      /\ \A i \in 1..Len(cmds') :
                            i < k /\ cmds'[i] = Cmd("untrack", tx) =>
                                \E j \in 1..Len(cmds') :
                                    i < j /\ j < k /\ cmds'[j] = Cmd("track", tx)
    BY Zenon DEF Matched
  <2>1. k + 1 \in 1..Len(cmds) /\ cmds[k + 1] = Cmd("untrack", tx)
    BY Zenon, <1>1, <1>2
  <2>2. \/ Contains(tracks, tx)
        \/ \E j \in 1..Len(cmds) : j < k + 1 /\ cmds[j] = Cmd("track", tx)
    BY Zenon, <1>6, <2>1 DEF Matched
  <2>3. \A i \in 1..Len(cmds) :
            i < k + 1 /\ cmds[i] = Cmd("untrack", tx) =>
                \E j \in 1..Len(cmds) : i < j /\ j < k + 1 /\ cmds[j] = Cmd("track", tx)
    BY Zenon, <1>6, <2>1 DEF Matched
  <2>4. ASSUME NEW i \in 1..Len(cmds), i < k + 1, cmds[i] = Cmd("untrack", tx)
        PROVE  \E j \in 1..Len(cmds') :
                   i - 1 < j /\ j < k /\ cmds'[j] = Cmd("track", tx)
    <3>1. PICK j \in 1..Len(cmds) : i < j /\ j < k + 1 /\ cmds[j] = Cmd("track", tx)
      BY Zenon, <2>3, <2>4
    <3>2. j # 1
      BY <3>1
    <3>3. j - 1 \in 1..Len(cmds') /\ cmds'[j - 1] = Cmd("track", tx)
      BY Zenon, <1>1, <3>1, <3>2
    <3>4. i - 1 < j - 1 /\ j - 1 < k
      BY SMTT(30), <3>1
    <3> QED BY Zenon, <3>3, <3>4
  <2>5. \/ Contains(tracks', tx)
        \/ \E j \in 1..Len(cmds') : j < k /\ cmds'[j] = Cmd("track", tx)
    <3>1. CASE cmds[1] = Cmd("untrack", tx)
      BY SMTT(30), <1>3, <2>4, <3>1
    <3>2. CASE Contains(tracks, tx) /\ cmds[1] # Cmd("untrack", tx)
      BY Zenon, <3>2
    <3>3. ASSUME NEW j \in 1..Len(cmds), j < k + 1, cmds[j] = Cmd("track", tx), j # 1
          PROVE  \E l \in 1..Len(cmds') : l < k /\ cmds'[l] = Cmd("track", tx)
      BY SMTT(30), <1>1, <3>3
    <3> QED BY ZenonT(30), <2>2, <3>1, <3>2, <3>3
  <2>6. ASSUME NEW i \in 1..Len(cmds'), i < k, cmds'[i] = Cmd("untrack", tx)
        PROVE  \E j \in 1..Len(cmds') : i < j /\ j < k /\ cmds'[j] = Cmd("track", tx)
    <3>1. i + 1 \in 1..Len(cmds) /\ cmds[i + 1] = Cmd("untrack", tx) /\ i + 1 < k + 1
      BY SMTT(30), <1>1, <1>2, <2>6
    <3>2. i + 1 - 1 = i
      OBVIOUS
    <3> QED BY SMTT(30), <2>4, <3>1, <3>2
  <2> QED BY Zenon, <2>5, <2>6
<1> QED BY ZenonT(30), <1>5, <1>6

-----------------------------------------------------------------------------
(* The invariant, action by action.                                          *)

LEMMA InitInv == Init => IInv
<1> SUFFICES ASSUME Init PROVE IInv
  BY Zenon
<1>1. TypeOK
  BY WatchdAssumption DEF Init, TypeOK
<1>2. Len(cmds) = 0 /\ Len(updates) = 0 /\ Len(bridge) = 0
  BY Zenon DEF Init
<1>3. KnownOK
  BY <1>2 DEF KnownOK
<1>4. TrackedOK /\ MatchedOK
  BY <1>2 DEF TrackedOK, MatchedOK, Matched, Init
<1> QED BY Zenon, <1>1, <1>3, <1>4 DEF IInv

LEMMA TrackInv ==
    ASSUME IInv, NEW tx \in Tx, NEW service \in Service, Track(tx, service)
    PROVE  IInv'
<1>1. TypeOK
  BY Zenon DEF IInv
<1>2. Cmd("track", tx) \in Cmds
  BY Zenon, CmdKinds
<1>3. cmds' \in Seq(Cmds)
  BY Zenon, <1>1, <1>2, CmdAdded DEF Track, Send, TypeOK
<1>4. track_list' \in [Tx -> Service \cup {NoService}] /\ requests' \in 0..MaxRequests
  BY <1>1, WatchdAssumption DEF Track, TypeOK
<1>5. TypeOK'
  BY Zenon, <1>1, <1>3, <1>4 DEF Track, TypeOK
<1>6. KnownOK'
  BY Zenon DEF IInv, KnownOK, Track
<1>7. ASSUME worker' = "running" PROVE TrackedOK' /\ MatchedOK'
  <2>1. worker = "running" /\ cmds' = Append(cmds, Cmd("track", tx)) /\ UNCHANGED <<tracks, withdrawn>>
    BY Zenon, <1>7 DEF Track, Send
  <2>2. TrackedOK /\ MatchedOK
    BY Zenon, <2>1 DEF IInv
  <2>3. ASSUME NEW t \in Tx, track_list'[t] # NoService PROVE Polled(t)'
    <3>1. CASE t = tx
      BY Zenon, <1>1, <2>1, <3>1, AddTrack
    <3>2. CASE t # tx
      <4>1. track_list'[t] = track_list[t]
        BY Zenon, <1>1, <3>2 DEF Track, TypeOK
      <4>2. Polled(t)
        BY Zenon, <2>2, <2>3, <4>1 DEF TrackedOK
      <4>3. Cmd("track", tx) # Cmd("untrack", t)
        BY Zenon, CmdKinds
      <4> QED BY ZenonT(30), <1>1, <1>2, <2>1, <4>2, <4>3, AddKeeps
    <3> QED BY Zenon, <3>1, <3>2
  <2>4. ASSUME NEW t \in Tx \ withdrawn' PROVE Matched(t)'
    <3>1. t \in Tx /\ Matched(t)
      BY Zenon, <2>1, <2>2, <2>4 DEF MatchedOK
    <3>2. Cmd("track", tx) # Cmd("untrack", t)
      BY Zenon, <3>1, CmdKinds
    <3> QED BY ZenonT(30), <1>1, <1>2, <2>1, <3>1, <3>2, AddKeeps
  <2> QED BY Zenon, <2>3, <2>4 DEF TrackedOK, MatchedOK
<1> QED BY Zenon, <1>5, <1>6, <1>7 DEF IInv

LEMMA UntrackInv ==
    ASSUME IInv, NEW tx \in Tx, Untrack(tx)
    PROVE  IInv'
<1>1. TypeOK
  BY Zenon DEF IInv
<1>2. Cmd("untrack", tx) \in Cmds
  BY Zenon, CmdKinds
<1>3. cmds' \in Seq(Cmds)
  BY Zenon, <1>1, <1>2, CmdAdded DEF Untrack, Send, TypeOK
<1>4. /\ track_list' \in [Tx -> Service \cup {NoService}]
      /\ requests' \in 0..MaxRequests /\ withdrawn' \subseteq Tx
  BY <1>1, WatchdAssumption DEF Untrack, TypeOK
<1>5. TypeOK'
  BY Zenon, <1>1, <1>3, <1>4 DEF Untrack, TypeOK
<1>6. KnownOK'
  BY Zenon DEF IInv, KnownOK, Untrack
<1>7. ASSUME worker' = "running" PROVE TrackedOK' /\ MatchedOK'
  <2>1. worker = "running" /\ cmds' = Append(cmds, Cmd("untrack", tx)) /\ UNCHANGED tracks
    BY Zenon, <1>7 DEF Untrack, Send
  <2>2. TrackedOK /\ MatchedOK
    BY Zenon, <2>1 DEF IInv
  <2>3. \A t \in Tx : t # tx => Cmd("untrack", tx) # Cmd("untrack", t)
    BY Zenon, CmdKinds
  <2>4. ASSUME NEW t \in Tx, track_list'[t] # NoService PROVE Polled(t)'
    <3>1. t # tx /\ track_list'[t] = track_list[t]
      BY Zenon, <1>1, <2>4 DEF Untrack, TypeOK
    <3>2. Polled(t)
      BY Zenon, <2>2, <2>4, <3>1 DEF TrackedOK
    <3> QED BY ZenonT(30), <1>1, <1>2, <2>1, <2>3, <3>1, <3>2, AddKeeps
  <2>5. ASSUME NEW t \in Tx \ withdrawn' PROVE Matched(t)'
    <3>1. t \in Tx /\ t # tx /\ t \notin withdrawn
      BY Zenon, <2>5 DEF Untrack
    <3>2. Matched(t)
      BY Zenon, <2>2, <3>1 DEF MatchedOK
    <3> QED BY ZenonT(30), <1>1, <1>2, <2>1, <2>3, <3>1, <3>2, AddKeeps
  <2> QED BY Zenon, <2>4, <2>5 DEF TrackedOK, MatchedOK
<1> QED BY Zenon, <1>5, <1>6, <1>7 DEF IInv

LEMMA BridgeTaken ==
    ASSUME IInv, bridge # <<>>, bridge' = Tail(bridge)
    PROVE  /\ Head(bridge) \in Tx /\ Head(bridge) \in known
           /\ bridge' \in Seq(Tx)
           /\ \A i \in 1..Len(bridge') : bridge'[i] \in known
<1>1. bridge \in Seq(Tx) /\ \A i \in 1..Len(bridge) : bridge[i] \in known
  BY Zenon DEF IInv, TypeOK, KnownOK
<1>2. Head(bridge) = bridge[1] /\ 1 \in 1..Len(bridge)
  BY <1>1
<1>3. /\ bridge' \in Seq(Tx) /\ Head(bridge) \in Tx
      /\ Len(bridge') = Len(bridge) - 1
      /\ \A i \in 1..Len(bridge') : bridge'[i] = bridge[i + 1]
  BY Zenon, <1>1, HeadTailProperties
<1>4. \A i \in 1..Len(bridge') : i + 1 \in 1..Len(bridge)
  BY <1>1, <1>3
<1> QED BY Zenon, <1>1, <1>2, <1>3, <1>4

LEMMA HandleBridgeInv ==
    ASSUME IInv, HandleBridge
    PROVE  IInv'
<1> DEFINE tx == Head(bridge)
           service == track_list[tx]
<1>1. TypeOK
  BY Zenon DEF IInv
<1>2. /\ tx \in Tx /\ bridge' \in Seq(Tx)
      /\ \A i \in 1..Len(bridge') : bridge'[i] \in known
  BY Zenon, BridgeTaken DEF HandleBridge
<1>3. UNCHANGED <<tracks, updates, worker, known, requests, withdrawn, failures>>
  BY Zenon DEF HandleBridge
<1>4. KnownOK'
  BY Zenon, <1>2, <1>3 DEF IInv, KnownOK
<1>5. CASE service = NoService
  <2>1. UNCHANGED <<track_list, cmds, reports>>
    BY Zenon, <1>5 DEF HandleBridge
  <2>2. TypeOK'
    BY Zenon, <1>1, <1>2, <1>3, <2>1 DEF TypeOK
  <2>3. worker' = "running" => TrackedOK' /\ MatchedOK'
    BY <1>3, <2>1 DEF IInv, TrackedOK, MatchedOK, Polled, Matched
  <2> QED BY Zenon, <1>4, <2>2, <2>3 DEF IInv
<1>6. CASE service # NoService
  <2>1. /\ track_list' = [track_list EXCEPT ![tx] = NoService]
        /\ Send(Cmd("untrack", tx))
        /\ reports' = [reports EXCEPT ![service][tx] = @ + 1]
    BY Zenon, <1>6 DEF HandleBridge
  <2> HIDE DEF tx
  <2>2. Cmd("untrack", tx) \in Cmds /\ service \in Service
    BY Zenon, <1>1, <1>2, <1>6, CmdKinds DEF TypeOK
  <2>3. cmds' \in Seq(Cmds)
    BY Zenon, <1>1, <2>1, <2>2, CmdAdded DEF Send, TypeOK
  <2>4. track_list' \in [Tx -> Service \cup {NoService}]
    BY Zenon, <1>1, <2>1 DEF TypeOK
  <2>5. reports' \in [Service -> [Tx -> Nat]]
    <3> HIDE DEF service
    <3> QED BY SMTT(30), <1>1, <1>2, <2>1, <2>2 DEF TypeOK
  <2>6. TypeOK'
    BY ZenonT(30), <1>1, <1>2, <1>3, <2>3, <2>4, <2>5 DEF TypeOK
  <2>7. ASSUME worker' = "running" PROVE TrackedOK' /\ MatchedOK'
    <3>1. cmds' = Append(cmds, Cmd("untrack", tx)) /\ UNCHANGED tracks
      BY Zenon, <1>3, <2>1, <2>7 DEF Send
    <3>2. TrackedOK /\ MatchedOK
      BY Zenon, <1>3, <2>7 DEF IInv
    <3>3. \A t \in Tx : t # tx => Cmd("untrack", tx) # Cmd("untrack", t)
      BY Zenon, <1>2, CmdKinds
    <3>4. ASSUME NEW t \in Tx, track_list'[t] # NoService PROVE Polled(t)'
      <4>1. t # tx /\ track_list'[t] = track_list[t]
        BY Zenon, <1>1, <2>1, <3>4 DEF TypeOK
      <4>2. Polled(t)
        BY Zenon, <3>2, <3>4, <4>1 DEF TrackedOK
      <4> QED BY ZenonT(30), <1>1, <2>2, <3>1, <3>3, <4>1, <4>2, AddKeeps
    <3>5. ASSUME NEW t \in Tx \ withdrawn' PROVE Matched(t)'
      <4>1. t \in Tx /\ Matched(t)
        BY Zenon, <1>3, <3>2, <3>5 DEF MatchedOK
      <4>2. CASE t = tx
        <5>1. Polled(t)
          BY ZenonT(30), <1>2, <1>6, <3>2, <4>2 DEF TrackedOK
        <5> QED BY ZenonT(30), <1>1, <1>2, <3>1, <4>1, <4>2, <5>1, AddUntrack
      <4>3. CASE t # tx
        BY ZenonT(30), <1>1, <2>2, <3>1, <3>3, <4>1, <4>3, AddKeeps
      <4> QED BY Zenon, <4>2, <4>3
    <3> QED BY Zenon, <3>4, <3>5 DEF TrackedOK, MatchedOK
  <2> QED BY Zenon, <1>4, <2>6, <2>7 DEF IInv
<1> QED BY Zenon, <1>5, <1>6

LEMMA PacemakerInv ==
    ASSUME IInv, Pacemaker
    PROVE  IInv'
<1>1. TypeOK /\ TrackedOK /\ MatchedOK
  BY Zenon DEF IInv, Pacemaker
<1>2. cmds' = Append(cmds, GetTransactions) /\ GetTransactions \in Cmds
  BY Zenon, CmdKinds DEF Pacemaker
<1>3. UNCHANGED <<track_list, tracks, updates, bridge, worker, known, reports,
                  requests, withdrawn, failures>>
  BY Zenon DEF Pacemaker
<1>4. cmds' \in Seq(Cmds)
  BY Zenon, <1>1, <1>2, CmdAdded
<1>5. TypeOK'
  BY Zenon, <1>1, <1>3, <1>4 DEF TypeOK
<1>6. KnownOK'
  BY Zenon, <1>3 DEF IInv, KnownOK
<1>7. \A t \in Tx : GetTransactions # Cmd("untrack", t)
  BY Zenon, CmdKinds
<1>8. \A t \in Tx : (Polled(t) => Polled(t)') /\ (Matched(t) => Matched(t)')
  BY ZenonT(30), <1>1, <1>2, <1>3, <1>7, AddKeeps
<1>9. TrackedOK' /\ MatchedOK'
  BY Zenon, <1>1, <1>3, <1>8 DEF TrackedOK, MatchedOK
<1> QED BY Zenon, <1>5, <1>6, <1>9 DEF IInv

(* What the server answers is a batch of transactions it knows.              *)
LEMMA FetchKnown ==
    ASSUME IInv, NEW txs \in Seq(Tx), Fetch(txs)
    PROVE  /\ updates' \in Seq(Seq(Tx)) /\ failures' \in 0..MaxFailures
           /\ \A i \in 1..Len(updates') :
                 \A j \in 1..Len(updates'[i]) : updates'[i][j] \in known
<1>1. /\ updates \in Seq(Seq(Tx)) /\ failures \in 0..MaxFailures
      /\ \A i \in 1..Len(updates) :
            \A j \in 1..Len(updates[i]) : updates[i][j] \in known
  BY Zenon DEF IInv, TypeOK, KnownOK
<1>2. CASE ToSet(txs) \subseteq known /\ updates' = Append(updates, txs) /\ UNCHANGED failures
  <2>1. /\ updates' \in Seq(Seq(Tx)) /\ Len(updates') = Len(updates) + 1
        /\ \A i \in 1..Len(updates) : updates'[i] = updates[i]
        /\ updates'[Len(updates) + 1] = txs
    BY <1>1, <1>2, AppendProperties
  <2>2. \A j \in 1..Len(txs) : txs[j] \in known
    BY <1>2 DEF ToSet
  <2>3. \A i \in 1..Len(updates') : i \in 1..Len(updates) \/ i = Len(updates) + 1
    BY <1>1, <2>1
  <2> QED BY ZenonT(30), <1>1, <1>2, <2>1, <2>2, <2>3
<1>3. CASE UNCHANGED <<updates, failures>>
  BY Zenon, <1>1, <1>3
<1>4. CASE failures < MaxFailures /\ failures' = failures + 1 /\ UNCHANGED updates
  <2>1. failures' \in 0..MaxFailures
    BY SMTT(30), <1>1, <1>4, WatchdAssumption
  <2> QED BY Zenon, <1>1, <1>4, <2>1
<1> QED BY ZenonT(30), <1>2, <1>3, <1>4 DEF Fetch

LEMMA ProcessInv ==
    ASSUME IInv, Process
    PROVE  IInv'
<1>1. TypeOK /\ TrackedOK /\ MatchedOK /\ cmds # <<>> /\ cmds' = Tail(cmds)
  BY Zenon DEF IInv, Process
<1>2. UNCHANGED <<track_list, bridge, known, reports, requests, withdrawn>>
  BY Zenon DEF Process
<1>3. Head(cmds) = cmds[1] /\ cmds[1] \in Cmds /\ cmds' \in Seq(Cmds)
  BY Zenon, <1>1, CmdTaken
<1>4. tracks \in Seq(Tx) /\ updates \in Seq(Seq(Tx)) /\ failures \in 0..MaxFailures
      /\ worker \in {"running", "panicked"}
  BY Zenon, <1>1 DEF TypeOK
<1>5. \A i \in 1..Len(updates) :
         \A j \in 1..Len(updates[i]) : updates[i][j] \in known
  BY Zenon DEF IInv, KnownOK
<1>6. ASSUME tracks' \in Seq(Tx), updates' \in Seq(Seq(Tx)),
             failures' \in 0..MaxFailures, worker' \in {"running", "panicked"},
             \A i \in 1..Len(updates') :
                 \A j \in 1..Len(updates'[i]) : updates'[i][j] \in known,
             worker' = "running" => \A t \in Tx :
                 /\ cmds[1] = Cmd("track", t) => Contains(tracks', t)
                 /\ Contains(tracks, t) /\ cmds[1] # Cmd("untrack", t) =>
                       Contains(tracks', t)
      PROVE  IInv'
  <2>1. TypeOK'
    BY Zenon, <1>1, <1>2, <1>3, <1>6 DEF TypeOK
  <2>2. KnownOK'
    BY Zenon, <1>2, <1>6 DEF IInv, KnownOK
  <2>3. ASSUME worker' = "running" PROVE TrackedOK' /\ MatchedOK'
    <3>1. \A t \in Tx : (Polled(t) => Polled(t)') /\ (Matched(t) => Matched(t)')
      BY ZenonT(30), <1>1, <1>6, <2>3, TakeKeeps
    <3> QED BY ZenonT(30), <1>1, <1>2, <3>1 DEF TrackedOK, MatchedOK
  <2> QED BY Zenon, <2>1, <2>2, <2>3 DEF IInv
<1>7. CASE Head(cmds) = GetTransactions /\ ProcessGet
  <2>1. UNCHANGED <<tracks, worker>> /\ \A t \in Tx : cmds[1] # Cmd("track", t)
    BY Zenon, <1>3, <1>7, CmdKinds DEF ProcessGet
  <2>2. (UNCHANGED <<updates, failures>>) \/ Fetch(tracks)
    BY Zenon, <1>7 DEF ProcessGet
  <2>3. /\ updates' \in Seq(Seq(Tx)) /\ failures' \in 0..MaxFailures
        /\ \A i \in 1..Len(updates') :
              \A j \in 1..Len(updates'[i]) : updates'[i][j] \in known
    BY ZenonT(30), <1>4, <1>5, <2>2, FetchKnown
  <2> QED BY ZenonT(30), <1>4, <1>6, <2>1, <2>3
<1>8. CASE Head(cmds)[1] = "track" /\ ProcessTrack(Head(cmds)[2])
  <2> DEFINE tx == cmds[1][2]
  <2>1. tx \in Tx /\ cmds[1] = Cmd("track", tx)
    BY Zenon, <1>3, <1>8, CmdKinds
  <2>2. tracks' = Append(tracks, tx) /\ Fetch(<<tx>>) /\ UNCHANGED worker
    BY Zenon, <1>3, <1>8 DEF ProcessTrack
  <2> HIDE DEF tx
  <2>3. <<tx>> \in Seq(Tx)
    BY <2>1
  <2>4. /\ updates' \in Seq(Seq(Tx)) /\ failures' \in 0..MaxFailures
        /\ \A i \in 1..Len(updates') :
              \A j \in 1..Len(updates'[i]) : updates'[i][j] \in known
    BY Zenon, <2>2, <2>3, FetchKnown
  <2>5. /\ tracks' \in Seq(Tx) /\ Len(tracks') = Len(tracks) + 1
        /\ \A i \in 1..Len(tracks) : tracks'[i] = tracks[i]
        /\ tracks'[Len(tracks) + 1] = tx
    BY SMTT(30), <1>4, <2>1, <2>2, AppendProperties
  <2>6. Len(tracks) + 1 \in 1..Len(tracks') /\ \A i \in 1..Len(tracks) : i \in 1..Len(tracks')
    BY <1>4, <2>5
  <2>7. \A t \in Tx : cmds[1] = Cmd("track", t) => t = tx
    BY Zenon, <2>1, CmdKinds
  <2>8. Contains(tracks', tx) /\ \A t \in Tx : Contains(tracks, t) => Contains(tracks', t)
    BY Zenon, <2>5, <2>6 DEF Contains
  <2> QED BY ZenonT(30), <1>4, <1>6, <2>2, <2>4, <2>5, <2>7, <2>8
<1>9. CASE Head(cmds)[1] = "untrack" /\ ProcessUntrack(Head(cmds)[2])
  <2> DEFINE tx == cmds[1][2]
  <2>1. tx \in Tx /\ cmds[1] = Cmd("untrack", tx)
    BY Zenon, <1>3, <1>9, CmdKinds
  <2>2. ProcessUntrack(tx)
    BY Zenon, <1>3, <1>9
  <2> HIDE DEF tx
  <2>3. CASE tracks' = RemoveFirst(tracks, tx) /\ Fetch(<<tx>>) /\ UNCHANGED worker
    <3>1. <<tx>> \in Seq(Tx)
      BY <2>1
    <3>2. /\ updates' \in Seq(Seq(Tx)) /\ failures' \in 0..MaxFailures
          /\ \A i \in 1..Len(updates') :
                \A j \in 1..Len(updates'[i]) : updates'[i][j] \in known
      BY Zenon, <2>3, <3>1, FetchKnown
    <3>3. /\ tracks' \in Seq(Tx)
          /\ \A t \in Tx : t # tx /\ Contains(tracks, t) => Contains(tracks', t)
      BY Zenon, <1>4, <2>1, <2>3, RemoveFirstKeeps
    <3>4. \A t \in Tx : cmds[1] # Cmd("track", t)
      BY Zenon, <2>1, CmdKinds
    <3> QED BY ZenonT(30), <1>4, <1>6, <2>1, <2>3, <3>2, <3>3, <3>4
  <2>4. CASE worker' = "panicked" /\ UNCHANGED <<tracks, updates, failures>>
    BY ZenonT(30), <1>4, <1>5, <1>6, <2>4
  <2> QED BY Zenon, <2>2, <2>3, <2>4 DEF ProcessUntrack
<1> QED BY Zenon, <1>7, <1>8, <1>9 DEF Process

LEMMA WatcherInv ==
    ASSUME IInv, Watcher
    PROVE  IInv'
<1> DEFINE batch == Head(updates)
<1>1. /\ updates \in Seq(Seq(Tx)) /\ bridge \in Seq(Tx) /\ updates # <<>>
      /\ updates' = Tail(updates) /\ bridge' = bridge \o batch
      /\ UNCHANGED <<track_list, cmds, tracks, worker, known, reports, requests,
                     withdrawn, failures>>
  BY Zenon DEF IInv, TypeOK, Watcher
<1>2. /\ \A i \in 1..Len(bridge) : bridge[i] \in known
      /\ \A i \in 1..Len(updates) :
            \A j \in 1..Len(updates[i]) : updates[i][j] \in known
  BY Zenon DEF IInv, KnownOK
<1>3. /\ updates' \in Seq(Seq(Tx)) /\ batch \in Seq(Tx)
      /\ Len(updates') = Len(updates) - 1
      /\ \A i \in 1..Len(updates') : updates'[i] = updates[i + 1]
  BY Zenon, <1>1, HeadTailProperties
<1>4. batch = updates[1] /\ 1 \in 1..Len(updates)
      /\ \A i \in 1..Len(updates') : i + 1 \in 1..Len(updates)
  BY SMTT(30), <1>1, <1>3
<1>5. \A i \in 1..Len(batch) : batch[i] \in known
  BY Zenon, <1>2, <1>4
<1> HIDE DEF batch
<1>6. /\ bridge' \in Seq(Tx) /\ Len(bridge') = Len(bridge) + Len(batch)
      /\ \A i \in 1..Len(bridge) + Len(batch) : bridge'[i] =
            IF i <= Len(bridge) THEN bridge[i] ELSE batch[i - Len(bridge)]
  BY Zenon, <1>1, <1>3, ConcatProperties
<1>7. \A i \in 1..Len(bridge) + Len(batch) :
         IF i <= Len(bridge) THEN i \in 1..Len(bridge) ELSE i - Len(bridge) \in 1..Len(batch)
  BY SMTT(30), <1>1, <1>3
<1>8. \A i \in 1..Len(bridge') : bridge'[i] \in known
  BY ZenonT(30), <1>2, <1>5, <1>6, <1>7
<1>9. KnownOK'
  BY ZenonT(30), <1>1, <1>2, <1>3, <1>4, <1>8 DEF KnownOK
<1>10. TypeOK'
  BY Zenon, <1>1, <1>3, <1>6 DEF IInv, TypeOK
<1>11. worker' = "running" => TrackedOK' /\ MatchedOK'
  BY <1>1 DEF IInv, TrackedOK, MatchedOK, Polled, Matched
<1> QED BY Zenon, <1>9, <1>10, <1>11 DEF IInv

LEMMA AppearInv ==
    ASSUME IInv, NEW tx \in Tx, Appear(tx)
    PROVE  IInv'
<1>1. TypeOK'
  BY Zenon DEF IInv, TypeOK, Appear
<1>2. KnownOK'
  BY Zenon DEF IInv, KnownOK, Appear
<1>3. worker' = "running" => TrackedOK' /\ MatchedOK'
  BY DEF IInv, Appear, TrackedOK, MatchedOK, Polled, Matched
<1> QED BY Zenon, <1>1, <1>2, <1>3 DEF IInv

LEMMA NextInv == IInv /\ [Next]_vars => IInv'
<1> SUFFICES ASSUME IInv, [Next]_vars PROVE IInv'
  BY Zenon
<1>1. CASE UNCHANGED vars
  BY <1>1 DEF vars, IInv, TypeOK, KnownOK, TrackedOK, MatchedOK, Polled,
     Matched
<1> QED
  BY ZenonT(30), <1>1, TrackInv, UntrackInv, HandleBridgeInv, PacemakerInv,
     ProcessInv,
     WatcherInv, AppearInv DEF Next

LEMMA Invariance == Spec => []IInv
BY InitInv, NextInv, PTL DEF Spec

-----------------------------------------------------------------------------
(* The four threads keep the types of their state and of the channels        *)
(* between them, however many transactions are tracked.                      *)
THEOREM TypeCorrect == Spec => []TypeOK
<1>1. IInv => TypeOK
  BY Zenon DEF IInv
<1> QED BY <1>1, Invariance, PTL

(* A running worker that has no command left polls every transaction in the  *)
(* runtime's track_list, although the two lists are changed by different     *)
(* threads and joined only by the commands between them.                     *)
THEOREM TrackedArePolled == Spec => []TrackedIsPolled
<1>1. IInv => TrackedIsPolled
  <2> SUFFICES ASSUME IInv, worker = "running", cmds = <<>>,
                      NEW tx \in Tx, track_list[tx] # NoService
               PROVE  Contains(tracks, tx)
    BY Zenon DEF TrackedIsPolled
  <2>1. Polled(tx) /\ Len(cmds) = 0
    BY Zenon DEF IInv, TrackedOK
  <2> QED BY <2>1 DEF Polled
<1> QED BY <1>1, Invariance, PTL

(* The unwrap in the worker's Untrack panics at most on a transaction that   *)
(* a daemon withdrew: the untrack command of a transaction found always      *)
(* finds its entry in tracks.                                                *)
THEOREM WorkerKeepsRunning == Spec => WorkerRuns
<1>1. ASSUME IInv, [Next]_vars
      PROVE  [worker = "running" /\ worker' = "panicked" =>
                 Head(cmds)[2] \in withdrawn]_vars
  <2> SUFFICES ASSUME worker = "running", worker' = "panicked"
               PROVE  Head(cmds)[2] \in withdrawn
    BY Zenon
  <2>1. Process
    BY Zenon, <1>1 DEF Next, vars, Track, Untrack, HandleBridge, Pacemaker,
       Watcher, Appear
  <2>2. Head(cmds)[1] = "untrack" /\ ~Contains(tracks, Head(cmds)[2])
    BY Zenon, <2>1 DEF Process, ProcessGet, ProcessTrack, ProcessUntrack
  <2>3. Head(cmds) = cmds[1] /\ cmds[1] \in Cmds /\ 1 \in 1..Len(cmds)
    <3>1. /\ Head(cmds) = cmds[1] /\ Head(cmds) \in Cmds
          /\ Len(cmds) \in Nat /\ Len(cmds) >= 1
      BY Zenon, <1>1, <2>1, CmdTaken DEF IInv, Process
    <3> QED BY SMTT(30), <3>1
  <2>4. PICK tx \in Tx : cmds[1] = Cmd("untrack", tx) /\ tx = Head(cmds)[2]
    BY Zenon, <2>2, <2>3, CmdKinds
  <2>5. SUFFICES ASSUME tx \in Tx \ withdrawn PROVE FALSE
    BY Zenon, <2>4
  <2>6. Matched(tx)
    BY Zenon, <1>1, <2>5 DEF IInv, MatchedOK
  <2>7. ~Contains(tracks, tx)
    BY Zenon, <2>2, <2>4
  <2>8. PICK j \in 1..Len(cmds) : j < 1
    BY Zenon, <2>3, <2>4, <2>6, <2>7 DEF Matched
  <2> QED BY <2>8
<1> QED BY <1>1, Invariance, PTL DEF Spec, WorkerRuns

(* watchd implements the abstract tracker: a request is answered at most     *)
(* once, to the service that made it last, and only for a transaction the    *)
(* server has, whatever batches are still under way.                         *)
THEOREM TrackerImplemented == Spec => ImplementsTracker
<1>1. Init => Tracker!TrackerInit
  BY Zenon DEF Init, Tracker!TrackerInit
<1>2. ASSUME IInv, [Next]_vars
      PROVE  [Tracker!TrackerNext]_(Tracker!trackerVars)
  <2>1. ASSUME NEW tx \in Tx, NEW service \in Service, Track(tx, service)
        PROVE  Tracker!Request(tx, service)
    BY Zenon, <2>1 DEF Track, Tracker!Request
  <2>2. ASSUME NEW tx \in Tx, Untrack(tx)
        PROVE  Tracker!Withdraw(tx)
    BY Zenon, <2>2 DEF Untrack, Tracker!Withdraw
  <2>3. ASSUME HandleBridge
        PROVE  (\E tx \in Tx : Tracker!Answer(tx)) \/ UNCHANGED Tracker!trackerVars
    <3>1. Head(bridge) \in Tx /\ Head(bridge) \in known
      BY ZenonT(30), <1>2, <2>3, BridgeTaken DEF HandleBridge
    <3>2. CASE track_list[Head(bridge)] = NoService
      BY Zenon, <2>3, <3>2 DEF HandleBridge, Tracker!trackerVars
    <3>3. CASE track_list[Head(bridge)] # NoService
      <4>1. Tracker!Answer(Head(bridge))
        BY Zenon, <2>3, <3>1, <3>3 DEF HandleBridge, Tracker!Answer
      <4> QED BY Zenon, <3>1, <4>1
    <3> QED BY Zenon, <3>2, <3>3
  <2>4. ASSUME NEW tx \in Tx, Appear(tx)
        PROVE  Tracker!See(tx)
    BY Zenon, <2>4 DEF Appear, Tracker!See
  <2>5. ASSUME Pacemaker \/ Process \/ Watcher \/ UNCHANGED vars
        PROVE  UNCHANGED Tracker!trackerVars
    BY Zenon, <2>5 DEF Pacemaker, Process, Watcher, vars, Tracker!trackerVars
  <2> QED
    BY ZenonT(30), <1>2, <2>1, <2>2, <2>3, <2>4, <2>5
       DEF Next, Tracker!TrackerNext
<1> QED
  BY <1>1, <1>2, Invariance, PTL DEF Spec, ImplementsTracker,
     Tracker!TrackerSpec

=============================================================================
