-------------------------- MODULE NowPlayingProofs --------------------------
(***************************************************************************)
(* Proofs about NowPlaying, for lists, selections and histories of every   *)
(* length.                                                                 *)
(***************************************************************************)
EXTENDS NowPlayingMC, FiniteSetTheorems, SequenceTheorems, TLAPS

-----------------------------------------------------------------------------
(* Induction over the numbers up to n, and over the passes of a loop.      *)

(* What holds before the first pass, and after a pass if it held before it, *)
(* holds after each.                                                       *)
LEMMA Upward ==
    ASSUME NEW n \in Nat, NEW T, 0 \in T, \A m \in 1..n : m - 1 \in T => m \in T
    PROVE  0..n \subseteq T
<1> DEFINE B == (0..n) \ T
<1> SUFFICES ASSUME B # {} PROVE FALSE
  OBVIOUS
<1>1. B \subseteq Nat
  OBVIOUS
<1>2. PICK x \in B : \A y \in B : ~(<<y, x>> \in OpToRel(<, Nat))
  BY <1>1, NatLessThanWellFounded, WFMin
<1>3. \A y \in B : ~(y < x)
  <2> SUFFICES ASSUME NEW y \in B, y < x PROVE FALSE
    OBVIOUS
  <2>1. <<y, x>> \in OpToRel(<, Nat)
    BY <1>1 DEF OpToRel
  <2> QED BY <2>1, <1>2
<1>4. x \in 1..n /\ x - 1 \in 0..n
  OBVIOUS
<1>5. x - 1 \in T
  BY <1>3, <1>4
<1> QED BY <1>4, <1>5

(* A nonempty set of numbers has a least one.                              *)
LEMMA LeastNumber ==
    ASSUME NEW S, S \subseteq Nat, S # {}
    PROVE  Min(S) \in S /\ \A y \in S : Min(S) <= y
<1>1. PICK x \in S : \A y \in S : ~(<<y, x>> \in OpToRel(<, Nat))
  BY NatLessThanWellFounded, WFMin
<1>2. \A y \in S : x <= y
  <2> SUFFICES ASSUME NEW y \in S, y < x PROVE FALSE
    OBVIOUS
  <2>1. <<y, x>> \in OpToRel(<, Nat)
    BY DEF OpToRel
  <2> QED BY <2>1, <1>1
<1> QED BY <1>2 DEF Min

(* A loop of n passes: x before it, step[m] is pass m, and the value is in *)
(* S[m] after it.  The results of the passes are a function q.             *)
IsLoop(n, S, x, step) ==
    /\ n \in Nat /\ x \in S[0]
    /\ \A m \in 1..n : \A p \in S[m - 1] : step[m][p] \in S[m]
Passes(n, S, x, step, q) ==
    /\ q \in [0..n -> UNION {S[m] : m \in 0..n}] /\ q[0] = x
    /\ \A m \in 1..n : q[m] = step[m][q[m - 1]]
    /\ \A m \in 0..n : q[m] \in S[m]

LEMMA PassesExist ==
    ASSUME NEW n, NEW S, NEW x, NEW step, IsLoop(n, S, x, step)
    PROVE  \E q : Passes(n, S, x, step, q)
<1> USE DEF IsLoop
<1> DEFINE Upto(q, k) == /\ q = [m \in 0..k |-> IF m = 0 THEN x ELSE step[m][q[m - 1]]]
                         /\ \A m \in 0..k : q[m] \in S[m]
           T == {k \in 0..n : \E q : Upto(q, k)}
<1>1. 0 \in T
  <2> DEFINE q == [m \in 0..0 |-> x]
  <2>1. Upto(q, 0)
    <3>1. \A m \in 0..0 : m = 0
      OBVIOUS
    <3>2. q = [m \in 0..0 |-> IF m = 0 THEN x ELSE step[m][q[m - 1]]]
      BY <3>1
    <3> QED BY <3>1, <3>2
  <2> HIDE DEF q, Upto
  <2> QED BY <2>1
<1>2. ASSUME NEW m \in 1..n, m - 1 \in T PROVE m \in T
  <2>1. PICK r : Upto(r, m - 1)
    BY <1>2
  <2> DEFINE q == [i \in 0..m |-> IF i = m THEN step[m][r[m - 1]] ELSE r[i]]
  <2>2. \A i \in 0..(m - 1) : q[i] = r[i]
    OBVIOUS
  <2>3. q[m] = step[m][r[m - 1]] /\ q[m - 1] = r[m - 1] /\ DOMAIN q = 0..m
    BY <2>2
  <2>4. \A i \in 0..m : q[i] = IF i = 0 THEN x ELSE step[i][q[i - 1]]
    <3> SUFFICES ASSUME NEW i \in 0..m PROVE q[i] = IF i = 0 THEN x ELSE step[i][q[i - 1]]
      OBVIOUS
    <3>1. CASE i = m
      BY <3>1, <2>3
    <3>2. CASE i # m
      <4>1. r[i] = IF i = 0 THEN x ELSE step[i][r[i - 1]]
        BY <2>1, <3>2
      <4>2. i # 0 => i - 1 \in 0..(m - 1)
        BY <3>2
      <4> QED BY <3>2, <4>1, <4>2, <2>2
    <3> QED BY <3>1, <3>2
  <2>5. r[m - 1] \in S[m - 1]
    BY <2>1
  <2>6. \A i \in 0..m : q[i] \in S[i]
    <3> SUFFICES ASSUME NEW i \in 0..m PROVE q[i] \in S[i]
      OBVIOUS
    <3>1. CASE i = m
      BY <3>1, <2>3, <2>5
    <3>2. CASE i # m
      <4>1. i \in 0..(m - 1)
        BY <3>2
      <4> QED BY <4>1, <2>1, <2>2
    <3> QED BY <3>1, <3>2
  <2>7. Upto(q, m)
    <3>1. q = [i \in 0..m |-> q[i]]
      OBVIOUS
    <3> HIDE DEF q
    <3> QED BY <2>4, <2>6, <3>1
  <2> HIDE DEF q, Upto
  <2> QED BY <2>7
<1>3. n \in T
  <2> HIDE DEF T
  <2>1. 0..n \subseteq T
    BY <1>1, <1>2, Upward
  <2> QED BY <2>1
<1>4. PICK q : Upto(q, n)
  BY <1>3
<1>5. q \in [0..n -> UNION {S[m] : m \in 0..n}]
  BY <1>4
<1>6. q[0] = x /\ \A m \in 1..n : q[m] = step[m][q[m - 1]]
  BY <1>4
<1> QED BY <1>4, <1>5, <1>6 DEF Passes

-----------------------------------------------------------------------------
(* Lists.                                                                  *)

(* An element goes in at its place and shifts those behind it.             *)
LEMMA InsertAtList ==
    ASSUME NEW T, NEW s \in Seq(T), NEW e \in T, NEW i \in Nat, 1 <= i, i <= Len(s) + 1
    PROVE  /\ InsertAt(s, i, e) \in Seq(T) /\ Len(InsertAt(s, i, e)) = Len(s) + 1
           /\ \A j \in 1..(Len(s) + 1) :
                 InsertAt(s, i, e)[j] = IF j < i THEN s[j] ELSE IF j = i THEN e ELSE s[j - 1]
<1> DEFINE a == SubSeq(s, 1, i - 1)
           b == SubSeq(s, i, Len(s))
<1>1. a \in Seq(T) /\ Len(a) = i - 1 /\ \A j \in 1..(i - 1) : a[j] = s[j]
  OBVIOUS
<1>2. b \in Seq(T) /\ Len(b) = Len(s) - i + 1 /\ \A j \in 1..(Len(s) - i + 1) : b[j] = s[i + j - 1]
  OBVIOUS
<1> HIDE DEF a, b
<1>3. a \o <<e>> \in Seq(T) /\ Len(a \o <<e>>) = i
      /\ \A j \in 1..i : (a \o <<e>>)[j] = IF j < i THEN s[j] ELSE e
  BY <1>1
<1> DEFINE c == a \o <<e>>
<1> HIDE DEF c
<1>4. c \in Seq(T) /\ Len(c) = i /\ \A j \in 1..i : c[j] = IF j < i THEN s[j] ELSE e
  BY <1>3 DEF c
<1>5. c \o b \in Seq(T) /\ Len(c \o b) = Len(s) + 1
      /\ \A j \in 1..(Len(s) + 1) : (c \o b)[j] = IF j <= i THEN c[j] ELSE b[j - i]
  <2>1. Len(s) \in Nat /\ Len(c) + Len(b) = Len(s) + 1
    BY <1>2, <1>4
  <2>2. c \o b \in Seq(T) /\ Len(c \o b) = Len(c) + Len(b)
        /\ \A j \in 1..(Len(c) + Len(b)) : (c \o b)[j] = IF j <= Len(c) THEN c[j] ELSE b[j - Len(c)]
    BY <1>2, <1>4, ConcatProperties
  <2> QED BY <2>1, <2>2, <1>4
<1>6. \A j \in 1..(Len(s) + 1) : j > i => b[j - i] = s[j - 1]
  BY <1>2
<1>7. InsertAt(s, i, e) = c \o b
  BY DEF InsertAt, a, b, c
<1> QED BY <1>4, <1>5, <1>6, <1>7

(* An element goes, and those behind it move up.                           *)
LEMMA RemoveAtList ==
    ASSUME NEW T, NEW s \in Seq(T), NEW i \in 1..Len(s)
    PROVE  /\ RemoveAt(s, i) \in Seq(T) /\ Len(RemoveAt(s, i)) = Len(s) - 1
           /\ \A j \in 1..(Len(s) - 1) : RemoveAt(s, i)[j] = IF j < i THEN s[j] ELSE s[j + 1]
<1> DEFINE a == SubSeq(s, 1, i - 1)
           b == SubSeq(s, i + 1, Len(s))
<1>1. a \in Seq(T) /\ Len(a) = i - 1 /\ \A j \in 1..(i - 1) : a[j] = s[j]
  OBVIOUS
<1>2. b \in Seq(T) /\ Len(b) = Len(s) - i /\ \A j \in 1..(Len(s) - i) : b[j] = s[i + j]
  OBVIOUS
<1> HIDE DEF a, b
<1>3. a \o b \in Seq(T) /\ Len(a \o b) = Len(s) - 1
      /\ \A j \in 1..(Len(s) - 1) : (a \o b)[j] = IF j < i THEN a[j] ELSE b[j - (i - 1)]
  <2>1. Len(s) \in Nat /\ Len(a) + Len(b) = Len(s) - 1
    BY <1>1, <1>2
  <2>2. a \o b \in Seq(T) /\ Len(a \o b) = Len(a) + Len(b)
        /\ \A j \in 1..(Len(a) + Len(b)) : (a \o b)[j] = IF j <= Len(a) THEN a[j] ELSE b[j - Len(a)]
    BY <1>1, <1>2, ConcatProperties
  <2> QED BY <2>1, <2>2, <1>1
<1>4. \A j \in 1..(Len(s) - 1) : j >= i => b[j - (i - 1)] = s[j + 1]
  BY <1>2
<1>5. RemoveAt(s, i) = a \o b
  BY DEF RemoveAt, a, b
<1> QED BY <1>1, <1>3, <1>4, <1>5

(* The entries, and the members as TypeOK has them.                        *)
Entrys  == [id : Ids, forced : BOOLEAN]
Members == [list : Seq(Entrys), cur : 0..MaxCursor, hist : Seq(0..(MaxEntries - 1)),
            song : Ids \union {NoSong}, playing : BOOLEAN, paused : BOOLEAN, stopping : BOOLEAN,
            fadeOut : {"none", "runs", "overtaken"}, restart : BOOLEAN, playmode : Playmodes]

(* No two entries have one id; the bound on the length is one of Next.     *)
Distinct(list) == \A i, j \in DOMAIN list : list[i].id = list[j].id => i = j
Players == {p \in Members : Distinct(p.list) /\ Len(p.list) <= MaxEntries}

(* CursorInRange for every list: an empty one has the index zero, so that  *)
(* it is in range as soon as an entry is added.                            *)
InRange(p) ==
    p.playing /\ ~p.stopping /\ ~p.restart =>
        IF p.list = <<>> THEN p.cur = 0 ELSE p.cur < Len(p.list)

(* CursorFollowsSong, of any members.                                      *)
OnSong(p) ==
    p.playing /\ ~p.stopping /\ p.song \in IdsOf(p.list) =>
        p.cur < Len(p.list) /\ p.list[p.cur + 1].id = p.song

(* What only concerns the array leaves the rest of the player as it is.    *)
SameRest(p, q) ==
    /\ q.song = p.song /\ q.playing = p.playing /\ q.paused = p.paused
    /\ q.stopping = p.stopping /\ q.restart = p.restart /\ q.playmode = p.playmode

(* The sizes are numbers below Word, where subtraction is the usual one.   *)
LEMMA Sizes ==
    /\ MaxEntries \in Nat \ {0} /\ MaxCursor \in Nat /\ MaxEntries <= MaxCursor
    /\ Word \in Nat /\ MaxCursor < Word /\ MaxShuffleHistory \in Nat \ {0}
    /\ Ids \subseteq Nat \ {0}
  BY SizesAssumption DEF Ids

LEMMA MinusOne ==
    ASSUME NEW a \in 1..MaxCursor
    PROVE  Minus(a, 1) = a - 1
  BY Sizes DEF Minus

-----------------------------------------------------------------------------
(* MusikSongIdArray.                                                       *)

(* Players have another index, or another list.                            *)
LEMMA OtherCursor ==
    ASSUME NEW p \in Players, NEW c \in 0..MaxCursor
    PROVE  [p EXCEPT !.cur = c] \in Players
  BY DEF Players, Members

LEMMA OtherList ==
    ASSUME NEW p \in Players, NEW l \in Seq(Entrys), Distinct(l), Len(l) <= MaxEntries
    PROVE  [p EXCEPT !.list = l] \in Players
  BY DEF Players, Members

(* A list, its length and its index.                                       *)
LEMMA ListAndCursor ==
    ASSUME NEW p \in Players
    PROVE  /\ p.list \in Seq(Entrys) /\ Len(p.list) \in 0..MaxEntries /\ Count(p) = Len(p.list)
           /\ DOMAIN p.list = 1..Len(p.list) /\ (p.list = <<>> <=> Len(p.list) = 0)
           /\ p.cur \in 0..MaxCursor /\ Distinct(p.list)
<1>1. p \in Members /\ Distinct(p.list) /\ Len(p.list) <= MaxEntries
  BY DEF Players
<1>2. p.list \in Seq(Entrys) /\ p.cur \in 0..MaxCursor
  BY <1>1 DEF Members
<1>3. Len(p.list) \in Nat /\ DOMAIN p.list = 1..Len(p.list)
  BY <1>2
<1>4. p.list = <<>> <=> Len(p.list) = 0
  BY <1>2, EmptySeq
<1> QED BY <1>1, <1>2, <1>3, <1>4, Sizes DEF Count

(* CurrentIndex(n) takes what is in range, or the last, or zero.           *)
LEMMA SetCurrentIndexKeeps ==
    ASSUME NEW p \in Players, NEW n \in Nat
    PROVE  /\ SetCurrentIndex(p, n) \in Players
           /\ \E c \in 0..MaxCursor :
                 /\ SetCurrentIndex(p, n) = [p EXCEPT !.cur = c]
                 /\ p.list = <<>> => c = 0
                 /\ p.list # <<>> => c < Len(p.list)
                 /\ n < Len(p.list) => c = n
<1>1. /\ Len(p.list) \in 0..MaxEntries /\ Count(p) = Len(p.list)
      /\ p.list = <<>> <=> Len(p.list) = 0
  BY ListAndCursor
<1>2. CASE p.list = <<>>
  <2>1. SetCurrentIndex(p, n) = [p EXCEPT !.cur = 0] /\ 0 \in 0..MaxCursor
    BY <1>2, Sizes DEF SetCurrentIndex
  <2> QED BY <2>1, <1>1, <1>2, OtherCursor
<1>3. CASE p.list # <<>>
  <2> DEFINE c == Min({n, Count(p) - 1})
  <2>1. c \in {n, Count(p) - 1} /\ \A y \in {n, Count(p) - 1} : c <= y
    <3>1. {n, Count(p) - 1} \subseteq Nat
      BY <1>1, <1>3
    <3> QED BY <3>1, LeastNumber
  <2>2. SetCurrentIndex(p, n) = [p EXCEPT !.cur = c]
    BY <1>3 DEF SetCurrentIndex
  <2> HIDE DEF c
  <2>3. c \in 0..MaxCursor /\ c < Len(p.list) /\ (n < Len(p.list) => c = n)
    BY <2>1, <1>1, <1>3, Sizes
  <2> QED BY <2>2, <2>3, <1>3, OtherCursor
<1> QED BY <1>2, <1>3

(* The index is increased up to the last entry; that of an empty list,     *)
(* whose size minus one is large, always.                                  *)
LEMMA IncrCurrentIndexKeeps ==
    ASSUME NEW p \in Players, p.list = <<>> => p.cur < MaxCursor
    PROVE  /\ IncrCurrentIndex(p) \in Players
           /\ \E c \in 0..MaxCursor :
                 /\ IncrCurrentIndex(p) = [p EXCEPT !.cur = c]
                 /\ p.list # <<>> => c = IF p.cur < Len(p.list) - 1 THEN p.cur + 1 ELSE p.cur
<1>1. /\ Len(p.list) \in 0..MaxEntries /\ Count(p) = Len(p.list) /\ p.cur \in 0..MaxCursor
      /\ p.list = <<>> <=> Len(p.list) = 0
  BY ListAndCursor
<1>2. p.list # <<>> => Minus(Count(p), 1) = Len(p.list) - 1
  BY <1>1, MinusOne, Sizes
<1> DEFINE c == IF p.cur < Minus(Count(p), 1) THEN p.cur + 1 ELSE p.cur
<1>3. c \in 0..MaxCursor
  BY <1>1, <1>2, Sizes
<1>4. IncrCurrentIndex(p) = [p EXCEPT !.cur = c]
  <2>1. p \in Members
    BY DEF Players
  <2>2. p = [p EXCEPT !.cur = p.cur]
    BY <2>1 DEF Members
  <2> QED BY <2>2 DEF IncrCurrentIndex
<1> QED BY <1>1, <1>2, <1>3, <1>4, OtherCursor

LEMMA DecrCurrentIndexKeeps ==
    ASSUME NEW p \in Players
    PROVE  /\ DecrCurrentIndex(p) \in Players
           /\ DecrCurrentIndex(p) = [p EXCEPT !.cur = IF p.cur > 0 THEN p.cur - 1 ELSE p.cur]
<1>1. p.cur \in 0..MaxCursor
  BY ListAndCursor
<1>2. DecrCurrentIndex(p) = [p EXCEPT !.cur = IF p.cur > 0 THEN p.cur - 1 ELSE p.cur]
  <2>1. p \in Members
    BY DEF Players
  <2>2. p = [p EXCEPT !.cur = p.cur]
    BY <2>1 DEF Members
  <2> QED BY <2>2 DEF DecrCurrentIndex
<1>3. (IF p.cur > 0 THEN p.cur - 1 ELSE p.cur) \in 0..MaxCursor
  BY <1>1, Sizes
<1> QED BY <1>2, <1>3, OtherCursor

(* The members that an assignment to the list or the index leaves alone.   *)
LEMMA SameButCursor ==
    ASSUME NEW p \in Players, NEW c
    PROVE  /\ [p EXCEPT !.cur = c].cur = c /\ [p EXCEPT !.cur = c].list = p.list
           /\ SameRest(p, [p EXCEPT !.cur = c])
  BY DEF Players, Members, SameRest

LEMMA SameButList ==
    ASSUME NEW p \in Players, NEW l
    PROVE  /\ [p EXCEPT !.list = l].cur = p.cur /\ [p EXCEPT !.list = l].list = l
           /\ SameRest(p, [p EXCEPT !.list = l])
  BY DEF Players, Members, SameRest

(* What Insert does: an index of the new entry or behind it moves on, but  *)
(* not beyond what was the last entry.                                     *)
InsertedAt(p, e, i, q) ==
    /\ SameRest(p, q)
    /\ IF i <= Len(p.list)
       THEN /\ Len(q.list) = Len(p.list) + 1
            /\ \A j \in 1..(Len(p.list) + 1) :
                  q.list[j] = IF j < i + 1 THEN p.list[j] ELSE IF j = i + 1 THEN e ELSE p.list[j - 1]
       ELSE q.list = p.list
    /\ i > p.cur => q.cur = p.cur
    /\ i <= p.cur /\ p.list # <<>> =>
          q.cur = IF p.cur < Len(p.list) - 1 THEN p.cur + 1 ELSE p.cur

LEMMA InsertKeeps ==
    ASSUME NEW p \in Players, Len(p.list) < MaxEntries, NEW e \in Entrys, e.id \notin IdsOf(p.list),
           NEW i \in Nat, i <= p.cur /\ p.list = <<>> => p.cur < MaxCursor
    PROVE  Insert(p, e, i) \in Players /\ InsertedAt(p, e, i, Insert(p, e, i))
<1> DEFINE r == IF i <= p.cur THEN IncrCurrentIndex(p) ELSE p
           l == InsertAt(p.list, i + 1, e)
<1>1. /\ p.list \in Seq(Entrys) /\ Len(p.list) \in 0..MaxEntries /\ p.cur \in 0..MaxCursor
      /\ Count(p) = Len(p.list) /\ DOMAIN p.list = 1..Len(p.list) /\ Distinct(p.list)
  BY ListAndCursor
<1>2. /\ r \in Players /\ r.list = p.list /\ SameRest(p, r)
      /\ i > p.cur => r.cur = p.cur
      /\ i <= p.cur /\ p.list # <<>> =>
            r.cur = IF p.cur < Len(p.list) - 1 THEN p.cur + 1 ELSE p.cur
  <2>1. CASE i <= p.cur
    <3>1. PICK c \in 0..MaxCursor :
             /\ IncrCurrentIndex(p) = [p EXCEPT !.cur = c]
             /\ p.list # <<>> => c = IF p.cur < Len(p.list) - 1 THEN p.cur + 1 ELSE p.cur
      BY <2>1, IncrCurrentIndexKeeps
    <3>2. r = [p EXCEPT !.cur = c]
      BY <2>1, <3>1
    <3>3. /\ [p EXCEPT !.cur = c] \in Players /\ [p EXCEPT !.cur = c].cur = c
          /\ [p EXCEPT !.cur = c].list = p.list /\ SameRest(p, [p EXCEPT !.cur = c])
      BY OtherCursor, SameButCursor
    <3>4. r \in Players /\ r.list = p.list /\ SameRest(p, r) /\ r.cur = c
      BY <3>2, <3>3
    <3> HIDE DEF r
    <3> QED BY <2>1, <3>1, <3>4, <1>1
  <2>2. CASE ~(i <= p.cur)
    <3>1. r = p
      BY <2>2
    <3> HIDE DEF r
    <3> QED BY <2>2, <3>1 DEF SameRest
  <2> QED BY <2>1, <2>2
<1> HIDE DEF r
<1>3. CASE i <= Len(p.list)
  <2>1. /\ l \in Seq(Entrys) /\ Len(l) = Len(p.list) + 1
        /\ \A j \in 1..(Len(p.list) + 1) :
              l[j] = IF j < i + 1 THEN p.list[j] ELSE IF j = i + 1 THEN e ELSE p.list[j - 1]
    <3>1. i + 1 \in 1..(Len(p.list) + 1)
      BY <1>3, <1>1
    <3> DEFINE k == i + 1
               s == p.list
    <3>2. s \in Seq(Entrys) /\ k \in Nat /\ 1 <= k /\ k <= Len(s) + 1 /\ e \in Entrys
      BY <3>1, <1>1
    <3> HIDE DEF k, s
    <3>3. /\ InsertAt(s, k, e) \in Seq(Entrys) /\ Len(InsertAt(s, k, e)) = Len(s) + 1
          /\ \A j \in 1..(Len(s) + 1) : InsertAt(s, k, e)[j] =
                IF j < k THEN s[j] ELSE IF j = k THEN e ELSE s[j - 1]
      BY <3>2, InsertAtList
    <3>4. l = InsertAt(s, k, e)
      BY DEF k, s
    <3> HIDE DEF l
    <3> QED BY <3>3, <3>4 DEF k, s
  <2>2. Insert(p, e, i) = [r EXCEPT !.list = l]
    BY <1>1, <1>2, <1>3 DEF Insert, r, Count
  <2> HIDE DEF l
  <2>3. Distinct(l)
    <3>1. \A j \in 1..Len(p.list) : p.list[j].id # e.id
      BY <1>1 DEF IdsOf
    <3>2. DOMAIN l = 1..(Len(p.list) + 1)
      BY <2>1
    <3>3. \A j, k \in 1..Len(p.list) : p.list[j].id = p.list[k].id => j = k
      BY <1>1 DEF Distinct
    <3>4. SUFFICES ASSUME NEW j \in 1..(Len(p.list) + 1), NEW k \in 1..(Len(p.list) + 1),
                          l[j].id = l[k].id, j < k
                   PROVE  FALSE
      BY <3>2, <1>1 DEF Distinct
    <3>5. CASE j = i + 1
      <4>1. l[j] = e /\ l[k] = p.list[k - 1] /\ k - 1 \in 1..Len(p.list)
        BY <3>5, <3>4, <2>1, <1>1
      <4> QED BY <4>1, <3>4, <3>1
    <3>6. CASE k = i + 1
      <4>1. l[k] = e /\ l[j] = p.list[j] /\ j \in 1..Len(p.list)
        BY <3>6, <3>4, <2>1, <1>1
      <4> QED BY <4>1, <3>4, <3>1
    <3>7. CASE j # i + 1 /\ k # i + 1
      <4> DEFINE a == IF j < i + 1 THEN j ELSE j - 1
                 b == IF k < i + 1 THEN k ELSE k - 1
      <4>1. a \in 1..Len(p.list) /\ b \in 1..Len(p.list) /\ a < b
        BY <3>7, <3>4, <1>1, <1>3
      <4>2. l[j] = p.list[a] /\ l[k] = p.list[b]
        BY <3>7, <2>1
      <4> HIDE DEF a, b
      <4> QED BY <4>1, <4>2, <3>3, <3>4
    <3> QED BY <3>5, <3>6, <3>7
  <2>4. [r EXCEPT !.list = l] \in Players
    BY <2>1, <2>3, <1>1, <1>2, OtherList, Sizes
  <2>5. /\ [r EXCEPT !.list = l].cur = r.cur /\ [r EXCEPT !.list = l].list = l
        /\ SameRest(r, [r EXCEPT !.list = l])
    BY <1>2, SameButList
  <2>6. SameRest(p, [r EXCEPT !.list = l])
    BY <2>5, <1>2 DEF SameRest
  <2> QED BY <2>1, <2>2, <2>4, <2>5, <2>6, <1>2, <1>3 DEF InsertedAt
<1>4. CASE ~(i <= Len(p.list))
  <2>1. Insert(p, e, i) = r
    BY <1>1, <1>2, <1>4 DEF Insert, r, Count
  <2> QED BY <2>1, <1>2, <1>4 DEF InsertedAt
<1> QED BY <1>3, <1>4

(* What Detach and RemoveAt do: an index behind the entry moves with its   *)
(* song.                                                                   *)
RemovedAt(p, i, q) ==
    /\ SameRest(p, q)
    /\ Len(q.list) = Len(p.list) - 1
    /\ \A j \in 1..(Len(p.list) - 1) : q.list[j] = IF j < i + 1 THEN p.list[j] ELSE p.list[j + 1]
    /\ q.cur = IF i < p.cur THEN p.cur - 1 ELSE p.cur

LEMMA DetachKeeps ==
    ASSUME NEW p \in Players, NEW i \in Nat, i < Len(p.list)
    PROVE  Detach(p, i) \in Players /\ RemovedAt(p, i, Detach(p, i))
<1> DEFINE r == IF i < p.cur THEN DecrCurrentIndex(p) ELSE p
           l == RemoveAt(p.list, i + 1)
<1>1. /\ p.list \in Seq(Entrys) /\ Len(p.list) \in 0..MaxEntries /\ p.cur \in 0..MaxCursor
      /\ DOMAIN p.list = 1..Len(p.list) /\ Distinct(p.list)
  BY ListAndCursor
<1>2. /\ r \in Players /\ r.list = p.list /\ SameRest(p, r)
      /\ r.cur = IF i < p.cur THEN p.cur - 1 ELSE p.cur
  <2>1. CASE i < p.cur
    <3>1. r = [p EXCEPT !.cur = p.cur - 1] /\ p.cur - 1 \in 0..MaxCursor
      <4>1. p.cur > 0 /\ p.cur - 1 \in 0..MaxCursor
        BY <2>1, <1>1, Sizes
      <4>2. DecrCurrentIndex(p) = [p EXCEPT !.cur = p.cur - 1]
        BY <4>1, DecrCurrentIndexKeeps
      <4> QED BY <2>1, <4>1, <4>2
    <3> DEFINE c == p.cur - 1
    <3> HIDE DEF c
    <3>2. r = [p EXCEPT !.cur = c] /\ c \in 0..MaxCursor
      BY <3>1 DEF c
    <3>3. /\ [p EXCEPT !.cur = c] \in Players /\ [p EXCEPT !.cur = c].cur = c
          /\ [p EXCEPT !.cur = c].list = p.list /\ SameRest(p, [p EXCEPT !.cur = c])
      BY <3>2, OtherCursor, SameButCursor
    <3>4. r \in Players /\ r.list = p.list /\ SameRest(p, r) /\ r.cur = p.cur - 1
      BY <3>2, <3>3 DEF c
    <3> HIDE DEF r
    <3> QED BY <2>1, <3>4
  <2>2. CASE ~(i < p.cur)
    <3>1. r = p
      BY <2>2
    <3> HIDE DEF r
    <3> QED BY <2>2, <3>1 DEF SameRest
  <2> QED BY <2>1, <2>2
<1> HIDE DEF r
<1>3. /\ l \in Seq(Entrys) /\ Len(l) = Len(p.list) - 1
      /\ \A j \in 1..(Len(p.list) - 1) : l[j] = IF j < i + 1 THEN p.list[j] ELSE p.list[j + 1]
  <2>1. i + 1 \in 1..Len(p.list)
    BY <1>1
  <2> QED BY <2>1, <1>1, RemoveAtList
<1>4. Detach(p, i) = [r EXCEPT !.list = l]
  BY <1>2 DEF Detach, r
<1> HIDE DEF l
<1>5. Distinct(l)
  <2>1. \A j, k \in 1..Len(p.list) : p.list[j].id = p.list[k].id => j = k
    BY <1>1 DEF Distinct
  <2>2. DOMAIN l = 1..(Len(p.list) - 1)
    BY <1>3, <1>1
  <2>3. SUFFICES ASSUME NEW j \in 1..(Len(p.list) - 1), NEW k \in 1..(Len(p.list) - 1),
                        l[j].id = l[k].id
                 PROVE  j = k
    BY <2>2 DEF Distinct
  <2> DEFINE a == IF j < i + 1 THEN j ELSE j + 1
             b == IF k < i + 1 THEN k ELSE k + 1
  <2>4. a \in 1..Len(p.list) /\ b \in 1..Len(p.list) /\ (a = b => j = k)
    BY <1>1
  <2>5. l[j] = p.list[a] /\ l[k] = p.list[b]
    BY <1>3
  <2> HIDE DEF a, b
  <2> QED BY <2>1, <2>3, <2>4, <2>5
<1>6. [r EXCEPT !.list = l] \in Players
  <2>1. Len(l) <= MaxEntries
    BY <1>1, <1>3, Sizes
  <2> QED BY <2>1, <1>2, <1>3, <1>5, OtherList
<1>7. /\ [r EXCEPT !.list = l].cur = r.cur /\ [r EXCEPT !.list = l].list = l
      /\ SameRest(r, [r EXCEPT !.list = l])
  BY <1>2, SameButList
<1> HIDE DEF l
<1>8. SameRest(p, [r EXCEPT !.list = l])
  BY <1>7, <1>2 DEF SameRest
<1> QED BY <1>2, <1>3, <1>4, <1>6, <1>7, <1>8 DEF RemovedAt

(* A dragged entry changes its place, and the index stays in range.        *)
LEMMA MoveOneKeeps ==
    ASSUME NEW p \in Players, NEW from \in Nat, from < Len(p.list), NEW to \in Nat, to < Len(p.list),
           p.cur < MaxCursor \/ Len(p.list) > 1
    PROVE  LET q == MoveOne(p, from, to)
           IN  /\ q \in Players /\ Len(q.list) = Len(p.list) /\ SameRest(p, q)
               /\ InRange(p) => InRange(q)
<1> DEFINE d == Detach(p, from)
           e == p.list[from + 1]
           r == Insert(d, e, to)
<1>1. /\ p.list \in Seq(Entrys) /\ Len(p.list) \in 0..MaxEntries /\ p.cur \in 0..MaxCursor
      /\ DOMAIN p.list = 1..Len(p.list) /\ Distinct(p.list) /\ p.list # <<>>
  BY ListAndCursor
<1>2. d \in Players /\ RemovedAt(p, from, d)
  BY DetachKeeps
<1>3. e \in Entrys /\ from + 1 \in 1..Len(p.list)
  BY <1>1
<1> HIDE DEF d, e
<1>4. /\ Len(d.list) = Len(p.list) - 1 /\ SameRest(p, d) /\ DOMAIN d.list = 1..Len(d.list)
      /\ d.list = <<>> <=> Len(d.list) = 0
      /\ d.cur = IF from < p.cur THEN p.cur - 1 ELSE p.cur
  BY <1>2, ListAndCursor DEF RemovedAt
<1>5. e.id \notin IdsOf(d.list)
  <2> SUFFICES ASSUME NEW j \in 1..(Len(p.list) - 1), d.list[j].id = e.id PROVE FALSE
    BY <1>4 DEF IdsOf
  <2> DEFINE k == IF j < from + 1 THEN j ELSE j + 1
  <2>1. k \in 1..Len(p.list) /\ k # from + 1
    BY <1>1
  <2>2. d.list[j] = p.list[k]
    BY <1>2 DEF RemovedAt
  <2> HIDE DEF k
  <2> QED BY <2>1, <2>2, <1>1, <1>3 DEF Distinct, e
<1>6. Len(d.list) < MaxEntries /\ (to <= d.cur /\ d.list = <<>> => d.cur < MaxCursor)
  <2>1. Len(p.list) \in Nat /\ Len(p.list) <= MaxEntries /\ p.cur \in Nat /\ d.cur <= p.cur
    BY <1>1, <1>4, Sizes
  <2>2. d.list = <<>> => Len(p.list) = 1
    BY <2>1, <1>4
  <2>3. d.list = <<>> => p.cur < MaxCursor
    <3> SUFFICES ASSUME d.list = <<>> PROVE p.cur < MaxCursor
      OBVIOUS
    <3>1. Len(p.list) = 1
      BY <2>2
    <3>2. ~(Len(p.list) > 1)
      BY <3>1
    <3> QED BY <3>2
  <2>4. d.cur \in Nat
    BY <1>2, ListAndCursor
  <2> QED BY <2>1, <2>3, <2>4, <1>4, Sizes
<1>7. r \in Players /\ InsertedAt(d, e, to, r)
  BY <1>2, <1>3, <1>5, <1>6, InsertKeeps
<1>8. SameRest(p, r) /\ Len(r.list) = Len(p.list)
  <2>1. to <= Len(d.list)
    BY <1>1, <1>4
  <2> QED BY <2>1, <1>1, <1>4, <1>7 DEF InsertedAt, SameRest
<1> HIDE DEF r
<1>9. CASE CurrentIndex(p) = from
  <2> DEFINE q == SetCurrentIndex(r, to)
  <2>1. MoveOne(p, from, to) = q
    BY <1>9 DEF MoveOne, r, d, e
  <2>2. PICK c \in 0..MaxCursor : q = [r EXCEPT !.cur = c] /\ (r.list # <<>> => c < Len(r.list))
    BY <1>7, SetCurrentIndexKeeps
  <2>3. q \in Players
    BY <1>7, SetCurrentIndexKeeps
  <2>4. r.list # <<>>
    BY <1>1, <1>7, <1>8, ListAndCursor
  <2>5. [r EXCEPT !.cur = c].list = r.list /\ [r EXCEPT !.cur = c].cur = c
        /\ SameRest(r, [r EXCEPT !.cur = c])
    BY <1>7, SameButCursor
  <2> HIDE DEF q
  <2>6. SameRest(p, q) /\ q.list = r.list /\ q.cur < Len(q.list) /\ q.list # <<>>
    BY <2>2, <2>4, <2>5, <1>8 DEF SameRest
  <2> QED BY <2>1, <2>3, <2>6, <1>8 DEF InRange
<1>10. CASE CurrentIndex(p) # from
  <2>1. MoveOne(p, from, to) = r
    BY <1>10 DEF MoveOne, r, d, e
  <2>2. p.cur # from
    BY <1>1, <1>10 DEF CurrentIndex
  <2>3. ASSUME p.cur < Len(p.list) PROVE r.cur < Len(r.list) /\ r.list # <<>>
    <3>1. d.cur < Len(d.list) /\ d.list # <<>>
      BY <2>2, <2>3, <1>1, <1>4
    <3>2. r.cur <= d.cur + 1 /\ d.cur + 1 <= Len(d.list) /\ r.cur \in Nat
      BY <3>1, <1>2, <1>7, ListAndCursor DEF InsertedAt
    <3>3. r.list = <<>> <=> Len(r.list) = 0
      BY <1>7, ListAndCursor
    <3>4. Len(r.list) = Len(d.list) + 1 /\ Len(d.list) \in Nat
      BY <1>1, <1>2, <1>4, <1>8, ListAndCursor
    <3>5. r.cur < Len(r.list) /\ Len(r.list) # 0
      <4>1. d.cur \in Nat
        BY <1>2, ListAndCursor
      <4> QED BY <4>1, <3>2, <3>4
    <3> QED BY <3>3, <3>5
  <2> QED BY <2>1, <2>3, <1>1, <1>7, <1>8 DEF InRange, SameRest
<1> QED BY <1>9, <1>10

-----------------------------------------------------------------------------
(* CMusikPlayer: starting and stopping.                                    *)

(* A stop has happened, or is under way.                                   *)
Halted(p) == ~p.playing \/ p.stopping

LEMMA HaltedIsSafe ==
    ASSUME NEW p, Halted(p)
    PROVE  InRange(p) /\ OnSong(p)
  BY DEF Halted, InRange, OnSong

LEMMA FinalizeStopKeeps ==
    ASSUME NEW p \in Players
    PROVE  /\ FinalizeStop(p) \in Players /\ FinalizeStop(p).list = p.list
           /\ FinalizeStop(p).playing = FALSE
<1> DEFINE r == [p EXCEPT !.song = NoSong, !.playing = FALSE, !.paused = FALSE, !.stopping = FALSE]
<1>1. r \in Players /\ r.list = p.list /\ r.playing = FALSE
  BY DEF Players, Members
<1>2. FinalizeStop(p) = SetCurrentIndex(r, 0)
  BY DEF FinalizeStop
<1> HIDE DEF r
<1>3. PICK c \in 0..MaxCursor : SetCurrentIndex(r, 0) = [r EXCEPT !.cur = c]
  BY <1>1, SetCurrentIndexKeeps
<1>4. SetCurrentIndex(r, 0) \in Players
  BY <1>1, SetCurrentIndexKeeps
<1>5. [r EXCEPT !.cur = c].list = r.list /\ SameRest(r, [r EXCEPT !.cur = c])
  BY <1>1, SameButCursor
<1> QED BY <1>1, <1>2, <1>3, <1>4, <1>5 DEF SameRest

LEMMA StopKeeps ==
    ASSUME NEW p \in Players, NEW fade \in BOOLEAN
    PROVE  Stop(p, fade) \in Players /\ Stop(p, fade).list = p.list /\ Halted(Stop(p, fade))
<1>1. CASE p.stopping
  BY <1>1 DEF Stop, Halted
<1>2. CASE ~p.stopping /\ fade /\ StopFade
  <2> DEFINE r == [p EXCEPT !.stopping = TRUE, !.fadeOut = IF p.playing THEN "runs" ELSE @]
  <2>1. Stop(p, fade) = r
    BY <1>2 DEF Stop
  <2>2. r \in Players /\ r.list = p.list /\ r.stopping
    BY DEF Players, Members
  <2> HIDE DEF r
  <2> QED BY <2>1, <2>2 DEF Halted
<1>3. CASE ~p.stopping /\ ~(fade /\ StopFade)
  <2>1. Stop(p, fade) = FinalizeStop(p)
    BY <1>3 DEF Stop
  <2> QED BY <2>1, FinalizeStopKeeps DEF Halted
<1> QED BY <1>1, <1>2, <1>3

LEMMA SetCrossfadeTypeKeeps ==
    ASSUME NEW p \in Players
    PROVE  /\ SetCrossfadeType(p) \in Players /\ SetCrossfadeType(p).list = p.list
           /\ SetCrossfadeType(p).cur = p.cur /\ SameRest(p, SetCrossfadeType(p))
  BY DEF SetCrossfadeType, Players, Members, SameRest

(* A song is started at its place in the list.                             *)
LEMMA StartsSongKeeps ==
    ASSUME NEW p \in Players, NEW n \in Nat, n < Len(p.list)
    PROVE  LET q == StartsSong(p, n)
           IN  q \in Players /\ q.list = p.list /\ q.cur = n /\ q.song = p.list[n + 1].id
               /\ q.stopping = FALSE
<1> DEFINE a == [p EXCEPT !.stopping = FALSE, !.song = p.list[n + 1].id]
           b == SetCurrentIndex(a, n)
<1>1. p.list[n + 1] \in Entrys
  <2>1. p.list \in Seq(Entrys) /\ n + 1 \in 1..Len(p.list)
    BY ListAndCursor
  <2> QED BY <2>1
<1>2. a \in Players /\ a.list = p.list /\ a.song = p.list[n + 1].id /\ a.stopping = FALSE
  <2>1. p.list[n + 1].id \in Ids
    BY <1>1 DEF Entrys
  <2> QED BY <2>1 DEF Players, Members
<1> HIDE DEF a
<1>3. PICK c \in 0..MaxCursor : b = [a EXCEPT !.cur = c] /\ (n < Len(a.list) => c = n)
  BY <1>2, SetCurrentIndexKeeps
<1>4. b \in Players
  BY <1>2, SetCurrentIndexKeeps
<1>5. [a EXCEPT !.cur = c].list = a.list /\ [a EXCEPT !.cur = c].cur = c
      /\ SameRest(a, [a EXCEPT !.cur = c])
  BY <1>2, SameButCursor
<1> HIDE DEF b
<1>6. b.list = p.list /\ b.cur = n /\ b.song = p.list[n + 1].id /\ b.stopping = FALSE
  BY <1>2, <1>3, <1>5 DEF SameRest
<1>7. StartsSong(p, n) = SetCrossfadeType(b)
  BY DEF StartsSong, b, a
<1> QED BY <1>4, <1>6, <1>7, SetCrossfadeTypeKeeps DEF SameRest

(* However Play ends, the index is on the song that plays.                 *)
LEMMA PlayKeeps ==
    ASSUME NEW p \in Players, NEW n \in Nat, NEW file \in Files
    PROVE  LET q == Play(p, n, file)
           IN  q \in Players /\ q.list = p.list /\ InRange(q) /\ OnSong(q)
<1> DEFINE s == StartsSong(p, n)
<1>1. Count(p) = Len(p.list) /\ Len(p.list) \in Nat
  BY ListAndCursor, Sizes
<1>2. CASE n >= Count(p)
  <2>1. Play(p, n, file) = [p EXCEPT !.playing = FALSE]
    <3>1. ~(n < Count(p))
      BY <1>1, <1>2
    <3> QED BY <1>2, <3>1, Zenon DEF Play
  <2>2. /\ [p EXCEPT !.playing = FALSE] \in Players /\ [p EXCEPT !.playing = FALSE].list = p.list
        /\ Halted([p EXCEPT !.playing = FALSE])
    BY DEF Players, Members, Halted
  <2> QED BY <2>1, <2>2, HaltedIsSafe
<1>3. CASE n < Count(p) /\ file = "missing"
  <2>1. Play(p, n, file) = Stop(p, TRUE)
    BY <1>1, <1>3 DEF Play
  <2> QED BY <2>1, StopKeeps, HaltedIsSafe
<1>4. ASSUME n < Count(p)
      PROVE  s \in Players /\ s.list = p.list /\ s.cur = n /\ s.song = p.list[n + 1].id
             /\ s.stopping = FALSE
  BY <1>1, <1>4, StartsSongKeeps
<1> HIDE DEF s
<1>5. CASE n < Count(p) /\ file = "unreadable"
  <2>1. Play(p, n, file) = Stop(s, FALSE)
    BY <1>1, <1>5 DEF Play, s
  <2> QED BY <1>4, <1>5, <2>1, StopKeeps, HaltedIsSafe
<1>6. CASE n < Count(p) /\ file # "missing" /\ file # "unreadable"
  <2> DEFINE q == [s EXCEPT !.playing = TRUE, !.paused = FALSE]
  <2>1. Play(p, n, file) = q
    BY <1>1, <1>6 DEF Play, s
  <2>2. q \in Players /\ q.list = p.list /\ q.cur = n /\ q.song = p.list[n + 1].id
    BY <1>4, <1>6 DEF Players, Members
  <2> HIDE DEF q
  <2>3. InRange(q)
    BY <1>1, <1>6, <2>2, ListAndCursor DEF InRange
  <2>4. OnSong(q)
    BY <1>1, <1>6, <2>2 DEF OnSong
  <2> QED BY <2>1, <2>2, <2>3, <2>4
<1>7. n \in Nat /\ Count(p) \in Nat
  BY <1>1
<1> QED BY <1>2, <1>3, <1>5, <1>6, <1>7

LEMMA CurrentIndexIsNat ==
    ASSUME NEW p \in Players
    PROVE  CurrentIndex(p) \in Nat /\ (p.list # <<>> => CurrentIndex(p) = p.cur)
  BY ListAndCursor, Sizes DEF CurrentIndex

LEMMA PlayCurrentKeeps ==
    ASSUME NEW p \in Players, NEW file \in Files
    PROVE  LET q == PlayCurrent(p, file)
           IN  q \in Players /\ q.list = p.list /\ InRange(q) /\ OnSong(q)
  BY CurrentIndexIsNat, PlayKeeps DEF PlayCurrent

LEMMA PostPlayRestartKeeps ==
    ASSUME NEW p \in Players
    PROVE  LET q == PostPlayRestart(p)
           IN  q \in Players /\ q.list = p.list /\ q.restart /\ (q = p \/ Halted(q))
<1>1. CASE p.restart
  BY <1>1 DEF PostPlayRestart
<1>2. CASE ~p.restart
  <2> DEFINE r == IF p.playing THEN Stop(p, FALSE) ELSE p
             q == [r EXCEPT !.restart = TRUE]
  <2>1. r \in Players /\ r.list = p.list /\ Halted(r)
    BY StopKeeps DEF Halted
  <2>2. PostPlayRestart(p) = q
    BY <1>2 DEF PostPlayRestart
  <2> HIDE DEF r
  <2>3. q \in Players /\ q.list = p.list /\ q.restart /\ Halted(q)
    BY <2>1 DEF Players, Members, Halted
  <2> QED BY <2>2, <2>3
<1> QED BY <1>1, <1>2

(* One deleted entry.  If it was the current one the song is stopped, or a *)
(* restart is asked for.                                                   *)
LEMMA DeleteEntryKeeps ==
    ASSUME NEW p \in Players, NEW i \in Nat, i < Len(p.list)
    PROVE  LET q == DeleteEntry(p, i)
           IN  /\ q \in Players /\ Len(q.list) = Len(p.list) - 1
               /\ InRange(p) => InRange(q)
               /\ OnSong(p) => OnSong(q)
<1> DEFINE r == OnPlaylistEntryRemoving(p, i)
           q == RemoveEntry(r, i)
<1>1. /\ p.list \in Seq(Entrys) /\ Len(p.list) \in 0..MaxEntries /\ p.cur \in 0..MaxCursor
      /\ DOMAIN p.list = 1..Len(p.list) /\ Distinct(p.list) /\ p.list # <<>>
  BY ListAndCursor
<1>2. r \in Players /\ r.list = p.list /\ (Halted(r) \/ (r = p /\ (p.cur # i \/ p.restart)))
  <2>1. CASE CurrentIndex(p) # i
    <3>1. r = p
      BY <2>1 DEF OnPlaylistEntryRemoving
    <3> QED BY <3>1, <2>1, <1>1 DEF CurrentIndex
  <2>2. CASE CurrentIndex(p) = i /\ p.playing /\ ~p.paused
    <3>1. r = PostPlayRestart(p)
      BY <2>2 DEF OnPlaylistEntryRemoving
    <3> HIDE DEF r
    <3> QED BY <3>1, PostPlayRestartKeeps
  <2>3. CASE CurrentIndex(p) = i /\ ~(p.playing /\ ~p.paused)
    <3>1. r = Stop(p, TRUE)
      BY <2>3 DEF OnPlaylistEntryRemoving
    <3> HIDE DEF r
    <3> QED BY <3>1, StopKeeps
  <2> QED BY <2>1, <2>2, <2>3
<1> HIDE DEF r
<1>3. q \in Players /\ RemovedAt(r, i, q)
  BY <1>2, DetachKeeps DEF RemoveEntry
<1>4. DeleteEntry(p, i) = q
  BY DEF DeleteEntry, r
<1> HIDE DEF q
<1>5. /\ Len(q.list) = Len(p.list) - 1 /\ SameRest(r, q)
      /\ DOMAIN q.list = 1..(Len(p.list) - 1) /\ (q.list = <<>> <=> Len(q.list) = 0)
  BY <1>2, <1>3, ListAndCursor DEF RemovedAt
<1>6. CASE Halted(r)
  <2>1. Halted(q)
    BY <1>5, <1>6 DEF Halted, SameRest
  <2> QED BY <2>1, <1>3, <1>4, <1>5, HaltedIsSafe
<1>7. CASE r = p /\ (p.cur # i \/ p.restart)
  <2>1. InRange(p) => InRange(q)
    <3> SUFFICES ASSUME InRange(p), q.playing, ~q.stopping, ~q.restart
                 PROVE  IF q.list = <<>> THEN q.cur = 0 ELSE q.cur < Len(q.list)
      BY DEF InRange
    <3>1. p.cur # i /\ p.cur < Len(p.list)
      BY <1>1, <1>5, <1>7 DEF InRange, SameRest
    <3>2. q.cur = IF i < p.cur THEN p.cur - 1 ELSE p.cur
      BY <1>3, <1>7 DEF RemovedAt
    <3>3. q.cur < Len(p.list) - 1 /\ q.cur \in Nat
      BY <3>1, <3>2, <1>1, Sizes
    <3> QED BY <3>3, <1>1, <1>5
  <2>2. OnSong(p) => OnSong(q)
    <3> SUFFICES ASSUME OnSong(p), q.playing, ~q.stopping, q.song \in IdsOf(q.list)
                 PROVE  q.cur < Len(q.list) /\ q.list[q.cur + 1].id = q.song
      BY DEF OnSong
    <3>1. PICK j \in 1..(Len(p.list) - 1) : q.list[j].id = q.song
      BY <1>5 DEF IdsOf
    <3> DEFINE k == IF j < i + 1 THEN j ELSE j + 1
    <3>2. k \in 1..Len(p.list) /\ k # i + 1
      BY <1>1
    <3>3. p.list[k].id = p.song /\ p.song = q.song
      BY <3>1, <1>3, <1>5, <1>7 DEF RemovedAt, SameRest
    <3> HIDE DEF k
    <3>4. p.cur < Len(p.list) /\ p.list[p.cur + 1].id = p.song
      BY <3>2, <3>3, <1>1, <1>5, <1>7 DEF OnSong, IdsOf, SameRest
    <3>5. p.cur + 1 \in 1..Len(p.list)
      BY <3>4, <1>1
    <3>6. p.cur + 1 = k
      BY <3>2, <3>3, <3>4, <3>5, <1>1 DEF Distinct
    <3>7. q.cur + 1 = j /\ q.cur \in Nat
      <4>1. q.cur = IF i < p.cur THEN p.cur - 1 ELSE p.cur
        BY <1>3, <1>7 DEF RemovedAt
      <4>2. p.cur \in Nat /\ j \in Nat /\ 1 <= j
        BY <1>1, Sizes
      <4>3. k = IF j < i + 1 THEN j ELSE j + 1
        BY DEF k
      <4>4. p.cur = IF j < i + 1 THEN j - 1 ELSE j
        BY <4>2, <4>3, <3>6
      <4> QED BY <4>1, <4>2, <4>4
    <3> QED BY <3>1, <3>7, <1>1, <1>5
  <2> QED BY <2>1, <2>2, <1>3, <1>4, <1>5
<1> QED BY <1>2, <1>6, <1>7

-----------------------------------------------------------------------------
(* Loops over a selection.                                                 *)

(* What holds of the value before a loop, and is kept by each pass, holds  *)
(* of the value after it.                                                  *)
LEMMA PassesStay ==
    ASSUME NEW n \in Nat, NEW S, NEW q, q[0] \in S[0],
           \A m \in 1..n : q[m - 1] \in S[m - 1] => q[m] \in S[m]
    PROVE  q[n] \in S[n]
<1> DEFINE T == {m \in 0..n : q[m] \in S[m]}
<1>1. 0 \in T /\ \A m \in 1..n : m - 1 \in T => m \in T
  OBVIOUS
<1> HIDE DEF T
<1>2. 0..n \subseteq T
  BY <1>1, Upward
<1> QED BY <1>2 DEF T

(* The selected positions of a list of n, in ascending order.              *)
Ascending(sel, n) ==
    /\ \E k \in 1..n : sel \in [1..k -> 0..(n - 1)]
    /\ \A i, j \in DOMAIN sel : i < j => sel[i] < sel[j]

LEMMA SelectionRange ==
    ASSUME NEW n \in Nat, NEW sel, Ascending(sel, n)
    PROVE  /\ Len(sel) \in 1..n /\ sel \in [1..Len(sel) -> 0..(n - 1)]
           /\ \A m \in 1..Len(sel) : m - 1 <= sel[m] /\ sel[m] + (Len(sel) - m) <= n - 1
<1>1. PICK k \in 1..n : sel \in [1..k -> 0..(n - 1)]
  BY DEF Ascending
<1>2. sel \in Seq(0..(n - 1)) /\ Len(sel) = k /\ DOMAIN sel = 1..k
  BY <1>1
<1>3. \A i, j \in 1..k : i < j => sel[i] < sel[j]
  BY <1>2 DEF Ascending
<1>4. \A m \in 1..k : sel[m] \in 0..(n - 1)
  BY <1>1
<1> DEFINE T == {m \in 0..k : m = 0 \/ m - 1 <= sel[m]}
           U == {j \in 0..(k - 1) : sel[k - j] + j <= n - 1}
<1>5. 0 \in T /\ \A m \in 1..k : m - 1 \in T => m \in T
  <2>1. ASSUME NEW m \in 1..k, m - 1 \in T PROVE m \in T
    <3>1. CASE m = 1
      BY <3>1, <1>4
    <3>2. CASE m # 1
      <4>1. m - 1 \in 1..k /\ m - 2 <= sel[m - 1]
        BY <3>2, <2>1
      <4>2. sel[m - 1] < sel[m] /\ sel[m - 1] \in Int /\ sel[m] \in Int
        BY <4>1, <1>3, <1>4
      <4> QED BY <4>1, <4>2
    <3> QED BY <3>1, <3>2
  <2> QED BY <2>1
<1>6. 0 \in U /\ \A j \in 1..(k - 1) : j - 1 \in U => j \in U
  <2>1. 0 \in U
    BY <1>4
  <2>2. ASSUME NEW j \in 1..(k - 1), j - 1 \in U PROVE j \in U
    <3>1. k - (j - 1) \in 1..k /\ k - j \in 1..k /\ k - j < k - (j - 1)
      OBVIOUS
    <3>2. sel[k - j] < sel[k - (j - 1)] /\ sel[k - j] \in Int /\ sel[k - (j - 1)] \in Int
      BY <3>1, <1>3, <1>4
    <3>3. sel[k - (j - 1)] + (j - 1) <= n - 1
      BY <2>2
    <3> QED BY <3>2, <3>3
  <2> QED BY <2>1, <2>2
<1> HIDE DEF T, U
<1>7. 0..k \subseteq T
  BY <1>5, Upward
<1>8. 0..(k - 1) \subseteq U
  <2>1. k - 1 \in Nat
    OBVIOUS
  <2> QED BY <1>6, <2>1, Upward
<1>9. \A m \in 1..k : m - 1 <= sel[m]
  BY <1>7 DEF T
<1>10. ASSUME NEW m \in 1..k PROVE sel[m] + (k - m) <= n - 1
  <2>1. k - m \in 0..(k - 1) /\ k - (k - m) = m
    OBVIOUS
  <2>2. k - m \in U
    BY <2>1, <1>8
  <2> QED BY <2>1, <2>2 DEF U
<1> QED BY <1>1, <1>2, <1>9, <1>10

LEMMA DeleteEntriesKeeps ==
    ASSUME NEW p \in Players, NEW sel, Ascending(sel, Len(p.list))
    PROVE  LET q == DeleteEntries(p, sel)
           IN  /\ q \in Players
               /\ InRange(p) => InRange(q)
               /\ OnSong(p) => OnSong(q)
<1> DEFINE n == Len(p.list)
           k == Len(sel)
           S == [m \in 0..k |-> {x \in Players : /\ Len(x.list) = n - m
                                                 /\ InRange(p) => InRange(x)
                                                 /\ OnSong(p) => OnSong(x)}]
           step == [m \in 1..k |-> [x \in Players |-> DeleteEntry(x, sel[m] - (m - 1))]]
           deleted == CHOOSE g : g = [m \in 0..k |-> IF m = 0 THEN p
                                            ELSE DeleteEntry(g[m - 1], sel[m] - (m - 1))]
<1>1. DeleteEntries(p, sel) = deleted[k]
  BY DEF DeleteEntries
<1>2. n \in Nat /\ k \in 1..n /\ \A m \in 1..k : sel[m] \in Nat /\ m - 1 <= sel[m] /\ sel[m] <= n - 1
  <2>1. n \in Nat
    BY ListAndCursor, Sizes
  <2>2. /\ k \in 1..n /\ sel \in [1..k -> 0..(n - 1)]
        /\ \A m \in 1..k : m - 1 <= sel[m] /\ sel[m] + (k - m) <= n - 1
    BY <2>1, SelectionRange
  <2> QED BY <2>1, <2>2
<1> HIDE DEF n, k
<1>3. p \in S[0]
  BY <1>2 DEF n
<1>4. ASSUME NEW m \in 1..k, NEW x \in S[m - 1]
      PROVE  DeleteEntry(x, sel[m] - (m - 1)) \in S[m]
  <2> DEFINE i == sel[m] - (m - 1)
             y == DeleteEntry(x, i)
  <2>1. m - 1 \in 0..k /\ m \in 0..k
    BY <1>2
  <2>2. /\ x \in Players /\ Len(x.list) = n - (m - 1)
        /\ InRange(p) => InRange(x)
        /\ OnSong(p) => OnSong(x)
    BY <2>1
  <2>3. i \in Nat /\ i < Len(x.list)
    BY <1>2, <2>2
  <2> HIDE DEF i
  <2>4. /\ y \in Players /\ Len(y.list) = Len(x.list) - 1
        /\ InRange(x) => InRange(y)
        /\ OnSong(x) => OnSong(y)
    BY <2>2, <2>3, DeleteEntryKeeps
  <2>5. Len(y.list) = n - m
    BY <2>2, <2>4, <1>2
  <2> HIDE DEF y
  <2>6. y \in S[m]
    BY <2>1, <2>2, <2>4, <2>5
  <2> QED BY <2>6 DEF y, i
<1>5. \A m \in 1..k : \A x \in S[m - 1] : step[m][x] = DeleteEntry(x, sel[m] - (m - 1))
  <2> SUFFICES ASSUME NEW m \in 1..k, NEW x \in S[m - 1]
               PROVE  step[m][x] = DeleteEntry(x, sel[m] - (m - 1))
    OBVIOUS
  <2>1. m - 1 \in 0..k
    BY <1>2
  <2>2. x \in Players
    BY <2>1
  <2> QED BY <2>2
<1> HIDE DEF S, step
<1>6. PICK q : Passes(k, S, p, step, q)
  <2>1. \A m \in 1..k : \A x \in S[m - 1] : step[m][x] \in S[m]
    BY <1>4, <1>5
  <2>2. k \in Nat
    BY <1>2
  <2>3. IsLoop(k, S, p, step)
    BY <1>3, <2>1, <2>2 DEF IsLoop
  <2> QED BY <2>3, PassesExist
<1>7. q = [m \in 0..k |-> IF m = 0 THEN p ELSE DeleteEntry(q[m - 1], sel[m] - (m - 1))]
  <2>1. ASSUME NEW m \in 0..k
        PROVE  q[m] = IF m = 0 THEN p ELSE DeleteEntry(q[m - 1], sel[m] - (m - 1))
    <3>1. m # 0 => m \in 1..k /\ m - 1 \in 0..k
      BY <1>2
    <3> QED BY <3>1, <1>5, <1>6 DEF Passes
  <2>2. q = [m \in 0..k |-> q[m]]
    BY <1>6 DEF Passes
  <2> QED BY <2>1, <2>2
<1>8. deleted = [m \in 0..k |-> IF m = 0 THEN p ELSE DeleteEntry(deleted[m - 1], sel[m] - (m - 1))]
  BY <1>7
<1> HIDE DEF deleted
<1>9. deleted[k] \in S[k]
  <2>1. k \in Nat /\ 0 \in 0..k
    BY <1>2
  <2>2. deleted[0] = p
    BY <2>1, <1>8
  <2>3. \A m \in 1..k : deleted[m] = DeleteEntry(deleted[m - 1], sel[m] - (m - 1))
    <3> SUFFICES ASSUME NEW m \in 1..k
                 PROVE  deleted[m] = DeleteEntry(deleted[m - 1], sel[m] - (m - 1))
      OBVIOUS
    <3>1. m \in 0..k /\ m # 0
      BY <1>2
    <3> QED BY <3>1, <1>8
  <2>4. \A m \in 1..k : deleted[m - 1] \in S[m - 1] => deleted[m] \in S[m]
    BY <2>3, <1>4
  <2> QED BY <2>1, <2>2, <2>4, <1>3, PassesStay
<1> QED
  <2>1. k \in 0..k
    BY <1>2
  <2> QED BY <2>1, <1>1, <1>9 DEF S

-----------------------------------------------------------------------------
(* New entries.                                                            *)

(* A list of n entries has n ids, if no two are the same.                  *)
LEMMA IdsAreFinite ==
    ASSUME NEW list \in Seq(Entrys)
    PROVE  /\ IsFiniteSet(IdsOf(list)) /\ Cardinality(IdsOf(list)) \in Nat
           /\ Cardinality(IdsOf(list)) <= Len(list)
           /\ Distinct(list) => Cardinality(IdsOf(list)) = Len(list)
<1> DEFINE n == Len(list)
           f == [i \in 1..n |-> list[i].id]
<1>1. n \in Nat /\ DOMAIN list = 1..n
  OBVIOUS
<1>2. f \in Surjection(1..n, IdsOf(list))
  BY <1>1 DEF Surjection, IdsOf
<1>3. Distinct(list) => f \in Injection(1..n, IdsOf(list))
  BY <1>1 DEF Injection, IsInjective, IdsOf, Distinct
<1> HIDE DEF n, f
<1>4. IsFiniteSet(1..n) /\ Cardinality(1..n) = n
  <2>1. IsFiniteSet(1..n) /\ Cardinality(1..n) = IF 1 > n THEN 0 ELSE n - 1 + 1
    BY <1>1, FS_Interval
  <2> QED BY <2>1, <1>1
<1>5. /\ IsFiniteSet(IdsOf(list)) /\ Cardinality(IdsOf(list)) <= Cardinality(1..n)
      /\ Cardinality(IdsOf(list)) = Cardinality(1..n) <=> f \in Injection(1..n, IdsOf(list))
  BY <1>2, <1>4, FS_Surjection
<1>6. Cardinality(IdsOf(list)) \in Nat
  BY <1>5, FS_CardinalityType
<1> QED BY <1>3, <1>4, <1>5, <1>6 DEF n

(* Entries that may go into the list: their songs are not in it, nor       *)
(* playing.                                                                *)
AreNew(p, entries) ==
    /\ entries \in Seq(Entrys) /\ Distinct(entries)
    /\ \A i \in 1..Len(entries) : entries[i].id \notin IdsOf(p.list) /\ entries[i].id # p.song
    /\ Len(p.list) + Len(entries) <= MaxEntries

(* There are enough ids.                                                   *)
LEMMA NewIdsAreNew ==
    ASSUME NEW p \in Players, NEW k \in Nat, Room(p, k), NEW forced \in BOOLEAN
    PROVE  AreNew(p, Entries(NewIds(p, k), forced)) /\ Len(Entries(NewIds(p, k), forced)) = k
<1> DEFINE used == IdsOf(p.list) \union {p.song}
           free == Ids \ used
           ids == NewIds(p, k)
<1>1. p.list \in Seq(Entrys) /\ Len(p.list) \in Nat /\ MaxEntries \in Nat
  BY ListAndCursor, Sizes
<1>2. IsFiniteSet(used) /\ Cardinality(used) \in Nat /\ Cardinality(used) <= Len(p.list) + 1
  <2>1. /\ IsFiniteSet(IdsOf(p.list)) /\ Cardinality(IdsOf(p.list)) \in Nat
        /\ Cardinality(IdsOf(p.list)) <= Len(p.list)
    BY <1>1, IdsAreFinite
  <2>2. /\ IsFiniteSet(used)
        /\ Cardinality(used) = IF p.song \in IdsOf(p.list) THEN Cardinality(IdsOf(p.list))
                                                           ELSE Cardinality(IdsOf(p.list)) + 1
    BY <2>1, FS_AddElement
  <2> HIDE DEF used
  <2> QED BY <1>1, <2>1, <2>2
<1> HIDE DEF used
<1>3. IsFiniteSet(Ids) /\ Cardinality(Ids) = MaxEntries + 1
  <2> DEFINE m == MaxEntries + 1
  <2>1. m \in Nat /\ m >= 1
    BY <1>1
  <2> HIDE DEF m
  <2>2. IsFiniteSet(1..m) /\ Cardinality(1..m) = IF 1 > m THEN 0 ELSE m - 1 + 1
    BY <2>1, FS_Interval
  <2>3. IsFiniteSet(1..m) /\ Cardinality(1..m) = m
    BY <2>1, <2>2
  <2> QED BY <2>3 DEF Ids, m
<1>4. IsFiniteSet(free) /\ Cardinality(free) \in Nat
  <2>1. free \in SUBSET Ids
    OBVIOUS
  <2> HIDE DEF free
  <2>2. IsFiniteSet(free)
    BY <1>3, <2>1, FS_Subset
  <2> QED BY <2>2, FS_CardinalityType
<1>5. k <= Cardinality(free)
  <2>1. /\ IsFiniteSet(free \cup used)
        /\ Cardinality(free \cup used) =
              Cardinality(free) + Cardinality(used) - Cardinality(free \cap used)
    BY <1>2, <1>4, FS_Union
  <2>2. free \cap used = {}
    OBVIOUS
  <2>3. Cardinality(free \cap used) = 0
    BY <2>2, FS_EmptySet
  <2>4. Ids \in SUBSET (free \cup used)
    OBVIOUS
  <2>5. Cardinality(Ids) <= Cardinality(free \cup used)
    BY <2>1, <2>4, FS_Subset
  <2>6. Len(p.list) + k <= MaxEntries
    BY DEF Room
  <2> HIDE DEF free
  <2> QED BY <1>1, <1>2, <1>3, <1>4, <2>1, <2>3, <2>5, <2>6
<1>6. \E g \in Injection(1..k, free) : TRUE
  <2>1. ExistsBijection(1..Cardinality(free), free)
    BY <1>4, FS_CardinalityType
  <2> HIDE DEF free
  <2>2. PICK f : f \in Injection(1..Cardinality(free), free)
    BY <2>1 DEF ExistsBijection, Bijection
  <2> DEFINE g == [i \in 1..k |-> f[i]]
  <2>3. 1..k \subseteq 1..Cardinality(free)
    BY <1>4, <1>5
  <2>4. g \in [1..k -> free]
    BY <2>2, <2>3 DEF Injection
  <2>5. IsInjective(g)
    <3>1. \A i, j \in 1..k : f[i] = f[j] => i = j
      BY <2>2, <2>3 DEF Injection, IsInjective
    <3> QED BY <3>1 DEF IsInjective
  <2>6. g \in Injection(1..k, free)
    BY <2>4, <2>5 DEF Injection
  <2> QED BY <2>6
<1>7. ids \in Injection(1..k, free)
  <2>1. ids = CHOOSE g \in Injection(1..k, free) : TRUE
    BY DEF NewIds, used
  <2> HIDE DEF ids, free
  <2> QED BY <1>6, <2>1
<1> HIDE DEF ids
<1>8. ids \in [1..k -> free] /\ DOMAIN ids = 1..k /\ \A i, j \in 1..k : ids[i] = ids[j] => i = j
  BY <1>7 DEF Injection, IsInjective
<1> DEFINE es == Entries(ids, forced)
<1>9. es = [i \in 1..k |-> [id |-> ids[i], forced |-> forced]]
  BY <1>8 DEF Entries, Entry
<1>10. \A i \in 1..k : ids[i] \in Ids /\ ids[i] \notin used
  BY <1>8
<1> HIDE DEF free, es
<1>11. es \in Seq(Entrys) /\ Len(es) = k /\ DOMAIN es = 1..k /\ \A i \in 1..k : es[i].id = ids[i]
  <2>1. \A i \in 1..k : [id |-> ids[i], forced |-> forced] \in Entrys
    BY <1>10 DEF Entrys
  <2>2. es \in [1..k -> Entrys]
    BY <1>9, <2>1
  <2>3. \A i \in 1..k : es[i].id = ids[i]
    BY <1>9
  <2> QED BY <2>2, <2>3
<1>12. Distinct(es)
  BY <1>8, <1>11 DEF Distinct
<1>13. Len(p.list) + Len(es) <= MaxEntries
  BY <1>11 DEF Room
<1>14. \A i \in 1..Len(es) : es[i].id \notin IdsOf(p.list) /\ es[i].id # p.song
  BY <1>10, <1>11 DEF used
<1> QED BY <1>11, <1>12, <1>13, <1>14 DEF AreNew, es, ids

(* Enqueued entries leave the index where it is, unless they are played.   *)
LEMMA AddToPlaylistKeeps ==
    ASSUME NEW p \in Players, NEW entries, AreNew(p, entries), NEW play \in BOOLEAN, NEW file \in Files
    PROVE  LET q == AddToPlaylist(p, entries, play, file)
           IN  /\ q \in Players
               /\ InRange(p) => InRange(q)
               /\ OnSong(p) => OnSong(q)
<1> DEFINE l == p.list \o entries
           r == [p EXCEPT !.list = l]
<1>1. /\ p.list \in Seq(Entrys) /\ Len(p.list) \in 0..MaxEntries /\ p.cur \in 0..MaxCursor
      /\ DOMAIN p.list = 1..Len(p.list) /\ Distinct(p.list) /\ (p.list = <<>> <=> Len(p.list) = 0)
  BY ListAndCursor
<1>2. /\ entries \in Seq(Entrys) /\ Len(entries) \in Nat /\ DOMAIN entries = 1..Len(entries)
      /\ Distinct(entries) /\ Len(p.list) + Len(entries) <= MaxEntries
      /\ \A i \in 1..Len(entries) : entries[i].id \notin IdsOf(p.list) /\ entries[i].id # p.song
  BY DEF AreNew
<1>3. /\ l \in Seq(Entrys) /\ Len(l) = Len(p.list) + Len(entries) /\ DOMAIN l = 1..Len(l)
      /\ \A i \in 1..Len(l) : l[i] = IF i <= Len(p.list) THEN p.list[i] ELSE entries[i - Len(p.list)]
  <2>1. /\ l \in Seq(Entrys) /\ Len(l) = Len(p.list) + Len(entries)
        /\ \A i \in 1..(Len(p.list) + Len(entries)) :
              l[i] = IF i <= Len(p.list) THEN p.list[i] ELSE entries[i - Len(p.list)]
    BY <1>1, <1>2, ConcatProperties
  <2> HIDE DEF l
  <2> QED BY <2>1
<1> HIDE DEF l
<1>4. Distinct(l)
  <2> SUFFICES ASSUME NEW i \in 1..Len(l), NEW j \in 1..Len(l), l[i].id = l[j].id, i < j
               PROVE  FALSE
    BY <1>1, <1>2, <1>3 DEF Distinct
  <2>1. CASE j <= Len(p.list)
    <3>1. l[i] = p.list[i] /\ l[j] = p.list[j] /\ i \in 1..Len(p.list) /\ j \in 1..Len(p.list)
      BY <1>1, <1>2, <1>3, <2>1
    <3> QED BY <3>1, <1>1 DEF Distinct
  <2>2. CASE i <= Len(p.list) /\ ~(j <= Len(p.list))
    <3>1. l[i] = p.list[i] /\ i \in 1..Len(p.list)
      BY <1>1, <1>2, <1>3, <2>2
    <3>2. l[j] = entries[j - Len(p.list)] /\ j - Len(p.list) \in 1..Len(entries)
      BY <1>1, <1>2, <1>3, <2>2
    <3>3. l[i].id \in IdsOf(p.list)
      BY <3>1, <1>1 DEF IdsOf
    <3> QED BY <3>2, <3>3, <1>2
  <2>3. CASE ~(i <= Len(p.list)) /\ ~(j <= Len(p.list))
    <3>1. l[i] = entries[i - Len(p.list)] /\ i - Len(p.list) \in 1..Len(entries)
      BY <1>1, <1>2, <1>3, <2>3
    <3>2. l[j] = entries[j - Len(p.list)] /\ j - Len(p.list) \in 1..Len(entries)
      BY <1>1, <1>2, <1>3, <2>3
    <3>3. i - Len(p.list) = j - Len(p.list)
      BY <3>1, <3>2, <1>2 DEF Distinct
    <3> QED BY <3>3, <1>1, <1>2, <1>3
  <2>4. i \in Nat /\ j \in Nat /\ Len(p.list) \in Nat
    BY <1>1, <1>2, <1>3
  <2> QED BY <2>1, <2>2, <2>3, <2>4
<1>5. r \in Players
  BY <1>2, <1>3, <1>4, OtherList
<1>6. r.list = l /\ r.cur = p.cur /\ SameRest(p, r)
  BY SameButList
<1> HIDE DEF r
<1>7. CASE play
  <2> DEFINE s == SetCurrentIndex(r, Count(p))
  <2>1. s \in Players
    <3>1. Count(p) \in Nat
      BY ListAndCursor, Sizes
    <3> QED BY <3>1, <1>5, SetCurrentIndexKeeps
  <2>2. AddToPlaylist(p, entries, play, file) = PlayCurrent(s, file)
    BY <1>7 DEF AddToPlaylist, r, l
  <2> HIDE DEF s
  <2> QED BY <2>1, <2>2, PlayCurrentKeeps
<1>8. CASE ~play
  <2>1. AddToPlaylist(p, entries, play, file) = r
    BY <1>8 DEF AddToPlaylist, r, l
  <2>2. ASSUME InRange(p) PROVE InRange(r)
    <3>1. Len(p.list) = 0 \/ Len(p.list) <= Len(l)
      BY <1>1, <1>2, <1>3
    <3>2. (r.list = <<>>) <=> (Len(r.list) = 0)
      BY <1>5, ListAndCursor
    <3>3. p.cur < Len(p.list) => p.cur < Len(l) /\ Len(l) # 0
      BY <1>1, <1>2, <1>3
    <3>4. p.list = <<>> /\ p.cur = 0 /\ Len(l) # 0 => p.cur < Len(l)
      BY <1>1, <1>2, <1>3
    <3> QED BY <2>2, <3>2, <3>3, <3>4, <1>6 DEF InRange, SameRest
  <2>3. ASSUME OnSong(p) PROVE OnSong(r)
    <3> SUFFICES ASSUME r.playing, ~r.stopping, r.song \in IdsOf(l)
                 PROVE  r.cur < Len(l) /\ l[r.cur + 1].id = r.song
      BY <1>6 DEF OnSong
    <3>1. PICK i \in 1..Len(l) : l[i].id = p.song
      BY <1>3, <1>6 DEF IdsOf, SameRest
    <3>2. i <= Len(p.list)
      <4> SUFFICES ASSUME ~(i <= Len(p.list)) PROVE FALSE
        OBVIOUS
      <4>1. l[i] = entries[i - Len(p.list)] /\ i - Len(p.list) \in 1..Len(entries)
        BY <1>1, <1>2, <1>3
      <4> QED BY <4>1, <3>1, <1>2
    <3>3. p.song \in IdsOf(p.list)
      <4>1. i \in 1..Len(p.list) /\ p.list[i].id = p.song
        BY <3>1, <3>2, <1>1, <1>3
      <4> QED BY <4>1, <1>1 DEF IdsOf
    <3>4. p.cur < Len(p.list) /\ p.list[p.cur + 1].id = p.song
      BY <2>3, <3>3, <1>6 DEF OnSong, SameRest
    <3>5. p.cur + 1 \in 1..Len(l) /\ p.cur + 1 <= Len(p.list) /\ p.cur < Len(l)
      BY <3>4, <1>1, <1>2, <1>3
    <3> QED BY <3>4, <3>5, <1>3, <1>6 DEF SameRest
  <2> QED BY <2>1, <2>2, <2>3, <1>5
<1> QED BY <1>7, <1>8

(* An entry inserted behind the index leaves it where it is.               *)
LEMMA InsertBehindKeeps ==
    ASSUME NEW p \in Players, Len(p.list) < MaxEntries, NEW e \in Entrys, e.id \notin IdsOf(p.list),
           e.id # p.song, NEW i \in Nat, p.cur < i
    PROVE  LET q == Insert(p, e, i)
           IN  /\ q \in Players /\ SameRest(p, q) /\ q.cur = p.cur
               /\ Len(q.list) <= Len(p.list) + 1
               /\ IdsOf(q.list) \subseteq IdsOf(p.list) \union {e.id}
               /\ p.list # <<>> => q.list # <<>>
               /\ InRange(p) => InRange(q)
               /\ OnSong(p) => OnSong(q)
<1> DEFINE q == Insert(p, e, i)
<1>1. /\ Len(p.list) \in 0..MaxEntries /\ p.cur \in 0..MaxCursor /\ p.cur \in Nat
      /\ DOMAIN p.list = 1..Len(p.list) /\ Distinct(p.list) /\ (p.list = <<>> <=> Len(p.list) = 0)
  BY ListAndCursor, Sizes
<1>2. q \in Players /\ InsertedAt(p, e, i, q)
  BY <1>1, InsertKeeps
<1> HIDE DEF q
<1>3. /\ Len(q.list) \in Nat /\ DOMAIN q.list = 1..Len(q.list)
      /\ (q.list = <<>> <=> Len(q.list) = 0)
  BY <1>2, ListAndCursor, Sizes
<1>4. SameRest(p, q) /\ q.cur = p.cur
  BY <1>2 DEF InsertedAt
<1>5. CASE i <= Len(p.list)
  <2>1. /\ Len(q.list) = Len(p.list) + 1
        /\ \A j \in 1..(Len(p.list) + 1) :
              q.list[j] = IF j < i + 1 THEN p.list[j] ELSE IF j = i + 1 THEN e ELSE p.list[j - 1]
    BY <1>2, <1>5 DEF InsertedAt
  <2>2. \A j \in 1..Len(q.list) : j = i + 1 \/ \E k \in 1..Len(p.list) : q.list[j] = p.list[k]
    <3> SUFFICES ASSUME NEW j \in 1..Len(q.list), j # i + 1
                 PROVE  \E k \in 1..Len(p.list) : q.list[j] = p.list[k]
      OBVIOUS
    <3> DEFINE k == IF j < i + 1 THEN j ELSE j - 1
    <3>1. k \in 1..Len(p.list) /\ q.list[j] = p.list[k]
      BY <2>1, <1>1, <1>5
    <3> HIDE DEF k
    <3> QED BY <3>1
  <2>3. IdsOf(q.list) \subseteq IdsOf(p.list) \union {e.id}
    <3> SUFFICES ASSUME NEW j \in 1..Len(q.list)
                 PROVE  q.list[j].id \in IdsOf(p.list) \union {e.id}
      BY <1>3 DEF IdsOf
    <3>1. CASE j = i + 1
      BY <3>1, <2>1, <1>1, <1>5
    <3>2. CASE j # i + 1
      <4>1. PICK k \in 1..Len(p.list) : q.list[j] = p.list[k]
        BY <3>2, <2>2
      <4> QED BY <4>1, <1>1 DEF IdsOf
    <3> QED BY <3>1, <3>2
  <2>4. InRange(p) => InRange(q)
    <3>1. p.cur < Len(q.list) /\ Len(q.list) # 0
      BY <2>1, <1>1, <1>5
    <3> QED BY <3>1, <1>3, <1>4 DEF InRange
  <2>5. OnSong(p) => OnSong(q)
    <3> SUFFICES ASSUME OnSong(p), q.playing, ~q.stopping, q.song \in IdsOf(q.list)
                 PROVE  q.cur < Len(q.list) /\ q.list[q.cur + 1].id = q.song
      BY DEF OnSong
    <3>1. p.song \in IdsOf(p.list) /\ q.song = p.song
      BY <2>3, <1>4 DEF SameRest
    <3>2. p.cur < Len(p.list) /\ p.list[p.cur + 1].id = p.song
      BY <3>1, <1>4 DEF OnSong, SameRest
    <3>3. p.cur + 1 \in 1..(Len(p.list) + 1) /\ p.cur + 1 < i + 1 /\ p.cur < Len(q.list)
      BY <3>2, <2>1, <1>1
    <3> QED BY <3>1, <3>2, <3>3, <2>1, <1>4
  <2>6. p.list # <<>> => q.list # <<>>
    BY <2>1, <1>1, <1>3
  <2> QED BY <1>2, <1>4, <2>1, <2>3, <2>4, <2>5, <2>6, <1>1 DEF q
<1>6. CASE ~(i <= Len(p.list))
  <2>1. q.list = p.list
    BY <1>2, <1>6 DEF InsertedAt
  <2>2. InRange(p) => InRange(q)
    BY <2>1, <1>4 DEF InRange, SameRest
  <2>3. OnSong(p) => OnSong(q)
    BY <2>1, <1>4 DEF OnSong, SameRest
  <2> QED BY <1>1, <1>2, <1>4, <2>1, <2>2, <2>3 DEF q
<1> QED BY <1>5, <1>6

(* The songs to be played next go behind the current one.                  *)
LEMMA InsertToPlaylistKeeps ==
    ASSUME NEW p \in Players, NEW entries, AreNew(p, entries), NEW play \in BOOLEAN, NEW file \in Files
    PROVE  LET q == InsertToPlaylist(p, entries, play, file)
           IN  /\ q \in Players
               /\ InRange(p) => InRange(q)
               /\ OnSong(p) => OnSong(q)
<1> DEFINE n == Len(entries)
           at == CurrentIndex(p)
           S == [m \in 0..n |->
                   {x \in Players : /\ SameRest(p, x) /\ x.cur = p.cur /\ x.list # <<>>
                                    /\ Len(x.list) <= Len(p.list) + m
                                    /\ IdsOf(x.list) \subseteq IdsOf(p.list)
                                                        \union {entries[j].id : j \in 1..m}
                                    /\ InRange(p) => InRange(x)
                                    /\ OnSong(p) => OnSong(x)}]
           step == [m \in 1..n |-> [x \in Players |-> Insert(x, entries[m], at + m)]]
           inserted == CHOOSE g : g = [i \in 0..n |-> IF i = 0 THEN p
                                             ELSE Insert(g[i - 1], entries[i], at + i)]
<1>1. CASE p.list = <<>> \/ ~p.playing
  <2>1. InsertToPlaylist(p, entries, play, file) = AddToPlaylist(p, entries, play, file)
    BY <1>1, Zenon DEF InsertToPlaylist
  <2> QED BY <2>1, AddToPlaylistKeeps
<1>2. ASSUME p.list # <<>>, p.playing
      PROVE  InsertToPlaylist(p, entries, play, file) =
                IF play THEN PlayCurrent(SetCurrentIndex(inserted[n], at + 1), file) ELSE inserted[n]
  <2>1. CASE play
    <3>1. InsertToPlaylist(p, entries, play, file)
             = PlayCurrent(SetCurrentIndex(inserted[n], at + 1), file)
      BY <1>2, <2>1, Zenon DEF InsertToPlaylist
    <3> QED BY <3>1, <2>1
  <2>2. CASE ~play
    <3>1. InsertToPlaylist(p, entries, play, file) = inserted[n]
      BY <1>2, <2>2, Zenon DEF InsertToPlaylist
    <3> QED BY <3>1, <2>2
  <2> QED BY <2>1, <2>2
<1> SUFFICES ASSUME p.list # <<>>, p.playing
             PROVE  LET q == InsertToPlaylist(p, entries, play, file)
                    IN  /\ q \in Players
                        /\ InRange(p) => InRange(q)
                        /\ OnSong(p) => OnSong(q)
  BY <1>1
<1>3. /\ Len(p.list) \in 0..MaxEntries /\ Len(p.list) \in Nat /\ p.cur \in Nat /\ at = p.cur
  BY ListAndCursor, Sizes DEF CurrentIndex
<1>4. /\ entries \in Seq(Entrys) /\ n \in Nat /\ DOMAIN entries = 1..n
      /\ Distinct(entries) /\ Len(p.list) + n <= MaxEntries
      /\ \A i \in 1..n : entries[i].id \notin IdsOf(p.list) /\ entries[i].id # p.song
  BY DEF AreNew
<1> HIDE DEF n, at
<1>5. p \in S[0]
  <2>1. 0 \in 0..n /\ SameRest(p, p)
    BY <1>4 DEF SameRest
  <2> QED BY <2>1, <1>3
<1>6. ASSUME NEW m \in 1..n, NEW x \in S[m - 1]
      PROVE  Insert(x, entries[m], at + m) \in S[m]
  <2> DEFINE e == entries[m]
             y == Insert(x, e, at + m)
  <2>1. m - 1 \in 0..n /\ m \in 0..n
    BY <1>4
  <2>2. /\ x \in Players /\ SameRest(p, x) /\ x.cur = p.cur /\ x.list # <<>>
        /\ Len(x.list) <= Len(p.list) + (m - 1)
        /\ IdsOf(x.list) \subseteq IdsOf(p.list) \union {entries[j].id : j \in 1..(m - 1)}
        /\ InRange(p) => InRange(x)
        /\ OnSong(p) => OnSong(x)
    BY <2>1
  <2>3. Len(x.list) \in Nat
    BY <2>2, ListAndCursor, Sizes
  <2>4. Len(x.list) < MaxEntries /\ at + m \in Nat /\ x.cur < at + m
    BY <1>3, <1>4, <2>2, <2>3, Sizes
  <2>5. e \in Entrys /\ e.id # x.song
    BY <1>4, <2>2 DEF SameRest
  <2>6. e.id \notin IdsOf(x.list)
    <3>1. \A j \in 1..(m - 1) : entries[j].id # entries[m].id
      <4>1. \A j \in 1..(m - 1) : j \in DOMAIN entries /\ m \in DOMAIN entries /\ j # m
        BY <1>4
      <4> QED BY <4>1, <1>4 DEF Distinct
    <3> QED BY <3>1, <1>4, <2>2
  <2> HIDE DEF e, S
  <2>7. /\ y \in Players /\ SameRest(x, y) /\ y.cur = x.cur
        /\ Len(y.list) <= Len(x.list) + 1
        /\ IdsOf(y.list) \subseteq IdsOf(x.list) \union {e.id}
        /\ y.list # <<>>
        /\ InRange(x) => InRange(y)
        /\ OnSong(x) => OnSong(y)
    BY <2>2, <2>4, <2>5, <2>6, InsertBehindKeeps
  <2> HIDE DEF y
  <2>8. SameRest(p, y) /\ y.cur = p.cur
    BY <2>2, <2>7 DEF SameRest
  <2>9. Len(y.list) <= Len(p.list) + m
    <3>1. Len(y.list) \in Nat
      BY <2>7, ListAndCursor, Sizes
    <3> QED BY <3>1, <2>2, <2>3, <2>7, <1>3
  <2>10. IdsOf(y.list) \subseteq IdsOf(p.list) \union {entries[j].id : j \in 1..m}
    <3>1. \A j \in 1..(m - 1) : j \in 1..m
      OBVIOUS
    <3>2. m \in 1..m
      OBVIOUS
    <3> QED BY <3>1, <3>2, <2>2, <2>7 DEF e
  <2>11. y \in S[m]
    BY <2>1, <2>2, <2>7, <2>8, <2>9, <2>10 DEF S
  <2> QED BY <2>11 DEF y, e
<1>7. \A m \in 1..n : \A x \in S[m - 1] : step[m][x] = Insert(x, entries[m], at + m)
  <2> SUFFICES ASSUME NEW m \in 1..n, NEW x \in S[m - 1]
               PROVE  step[m][x] = Insert(x, entries[m], at + m)
    OBVIOUS
  <2>1. m - 1 \in 0..n
    BY <1>4
  <2>2. x \in Players
    BY <2>1
  <2> QED BY <2>2
<1> HIDE DEF S, step
<1>8. PICK q : Passes(n, S, p, step, q)
  <2>1. \A m \in 1..n : \A x \in S[m - 1] : step[m][x] \in S[m]
    BY <1>6, <1>7
  <2>2. IsLoop(n, S, p, step)
    BY <1>4, <1>5, <2>1 DEF IsLoop
  <2> QED BY <2>2, PassesExist
<1>9. q = [i \in 0..n |-> IF i = 0 THEN p ELSE Insert(q[i - 1], entries[i], at + i)]
  <2>1. ASSUME NEW m \in 0..n
        PROVE  q[m] = IF m = 0 THEN p ELSE Insert(q[m - 1], entries[m], at + m)
    <3>1. m # 0 => m \in 1..n /\ m - 1 \in 0..n
      BY <1>4
    <3> QED BY <3>1, <1>7, <1>8 DEF Passes
  <2>2. q = [m \in 0..n |-> q[m]]
    BY <1>8 DEF Passes
  <2> QED BY <2>1, <2>2
<1>10. inserted = [i \in 0..n |-> IF i = 0 THEN p ELSE Insert(inserted[i - 1], entries[i], at + i)]
  BY <1>9
<1> HIDE DEF inserted
<1>11. inserted[n] \in S[n]
  <2>1. inserted[0] = p
    BY <1>4, <1>10
  <2>2. \A m \in 1..n : inserted[m] = Insert(inserted[m - 1], entries[m], at + m)
    <3> SUFFICES ASSUME NEW m \in 1..n
                 PROVE  inserted[m] = Insert(inserted[m - 1], entries[m], at + m)
      OBVIOUS
    <3>1. m \in 0..n /\ m # 0
      BY <1>4
    <3> QED BY <3>1, <1>10
  <2>3. \A m \in 1..n : inserted[m - 1] \in S[m - 1] => inserted[m] \in S[m]
    BY <2>2, <1>6
  <2> QED BY <2>1, <2>3, <1>4, <1>5, PassesStay
<1>12. /\ inserted[n] \in Players
       /\ InRange(p) => InRange(inserted[n])
       /\ OnSong(p) => OnSong(inserted[n])
  <2>1. n \in 0..n
    BY <1>4
  <2> QED BY <2>1, <1>11 DEF S
<1>13. CASE play
  <2> DEFINE s == SetCurrentIndex(inserted[n], at + 1)
  <2>1. s \in Players
    <3>1. at + 1 \in Nat
      BY <1>3
    <3> QED BY <3>1, <1>12, SetCurrentIndexKeeps
  <2>2. InsertToPlaylist(p, entries, play, file) = PlayCurrent(s, file)
    BY <1>2, <1>13
  <2> HIDE DEF s
  <2> QED BY <2>1, <2>2, PlayCurrentKeeps
<1>14. CASE ~play
  BY <1>2, <1>12, <1>14
<1> QED BY <1>13, <1>14

(* A drag: every entry is taken from the list and put back into it.        *)
LEMMA MoveEntrysKeeps ==
    ASSUME NEW p \in Players, p.cur < MaxCursor, NEW sel, Ascending(sel, Len(p.list)),
           NEW to \in 0..Len(p.list)
    PROVE  LET q == MoveEntrys(p, to, sel)
           IN  /\ q \in Players /\ Len(q.list) = Len(p.list)
               /\ InRange(p) => InRange(q)
<1> DEFINE n == Len(p.list)
           k == Len(sel)
           A == {i \in DOMAIN sel : sel[i] < to}
           right == Len(sel) - Cardinality(A)
           From(m) == sel[Len(sel) - m + 1] + IF m <= right THEN m - 1 ELSE 0
           To(m) == IF m <= right THEN to ELSE to - (m - right)
           S == [m \in 0..k |-> {x \in Players : /\ Len(x.list) = n
                                                 /\ m = 0 => x.cur < MaxCursor
                                                 /\ InRange(p) => InRange(x)}]
           step == [m \in 1..k |-> [x \in Players |-> MoveOne(x, From(m), To(m))]]
           moved == CHOOSE g : g = [m \in 0..k |-> IF m = 0 THEN p
                                          ELSE MoveOne(g[m - 1], From(m), To(m))]
<1>1. MoveEntrys(p, to, sel) = moved[k]
  BY DEF MoveEntrys
<1>2. /\ n \in Nat /\ to \in 0..n /\ k \in 1..n /\ DOMAIN sel = 1..k
      /\ \A m \in 1..k : sel[m] \in Nat /\ m - 1 <= sel[m] /\ sel[m] + (k - m) <= n - 1
  <2>1. n \in Nat
    BY ListAndCursor, Sizes
  <2>2. /\ k \in 1..n /\ sel \in [1..k -> 0..(n - 1)]
        /\ \A m \in 1..k : m - 1 <= sel[m] /\ sel[m] + (k - m) <= n - 1
    BY <2>1, SelectionRange
  <2> QED BY <2>1, <2>2
<1> HIDE DEF n
<1>3. /\ right \in 0..k /\ k - right <= to /\ (right > 0 => to < n)
  <2>1. IsFiniteSet(1..k) /\ Cardinality(1..k) = k
    <3>1. IsFiniteSet(1..k) /\ Cardinality(1..k) = IF 1 > k THEN 0 ELSE k - 1 + 1
      BY <1>2, FS_Interval
    <3> QED BY <3>1, <1>2
  <2>2. IsFiniteSet(1..to) /\ Cardinality(1..to) = to
    <3>1. 1 \in Int /\ to \in Int /\ to \in Nat
      BY <1>2
    <3>2. IsFiniteSet(1..to) /\ Cardinality(1..to) = IF 1 > to THEN 0 ELSE to - 1 + 1
      BY <3>1, FS_Interval
    <3> QED BY <3>1, <3>2
  <2>3. A \in SUBSET (1..k) /\ A \in SUBSET (1..to)
    <3>1. \A i \in 1..k : sel[i] < to => i \in 1..to
      BY <1>2
    <3> QED BY <3>1, <1>2
  <2>4. to >= n => A = 1..k
    BY <1>2
  <2> HIDE DEF A
  <2>5. IsFiniteSet(A) /\ Cardinality(A) \in Nat /\ Cardinality(A) <= k /\ Cardinality(A) <= to
    <3>1. IsFiniteSet(A) /\ Cardinality(A) <= Cardinality(1..k)
      BY <2>1, <2>3, FS_Subset
    <3>2. Cardinality(A) <= Cardinality(1..to)
      BY <2>2, <2>3, FS_Subset
    <3> QED BY <3>1, <3>2, <2>1, <2>2, FS_CardinalityType
  <2>6. to >= n => right = 0
    BY <2>4, <2>1, <1>2
  <2> QED BY <2>5, <2>6, <1>2
<1> HIDE DEF right, A
<1>4. ASSUME NEW m \in 1..k
      PROVE  From(m) \in Nat /\ From(m) < n /\ To(m) \in Nat /\ To(m) < n
  <2>1. k - m + 1 \in 1..k
    BY <1>2
  <2>2. sel[k - m + 1] \in Nat /\ sel[k - m + 1] + (m - 1) <= n - 1
    BY <2>1, <1>2
  <2>3. From(m) \in Nat /\ From(m) < n
    <3>1. From(m) = sel[k - m + 1] + (m - 1) \/ From(m) = sel[k - m + 1]
      <4>1. sel[k - m + 1] + 0 = sel[k - m + 1]
        BY <2>2
      <4> QED BY <4>1
    <3> HIDE DEF From
    <3> QED BY <3>1, <2>2, <1>2
  <2>4. CASE m <= right
    BY <2>3, <2>4, <1>2, <1>3
  <2>5. CASE ~(m <= right)
    <3>1. To(m) = to - (m - right)
      BY <2>5
    <3>2. 1 <= m - right /\ m - right <= to
      BY <2>5, <1>2, <1>3
    <3> HIDE DEF To
    <3> QED BY <2>3, <3>1, <3>2, <1>2, <1>3
  <2> QED BY <2>4, <2>5
<1> HIDE DEF k, From, To
<1>5. p \in S[0]
  BY <1>2 DEF n
<1>6. ASSUME NEW m \in 1..k, NEW x \in S[m - 1]
      PROVE  MoveOne(x, From(m), To(m)) \in S[m]
  <2> DEFINE a == From(m)
             b == To(m)
             y == MoveOne(x, a, b)
  <2>1. m - 1 \in 0..k /\ m \in 0..k
    BY <1>2
  <2>2. /\ x \in Players /\ Len(x.list) = n
        /\ m - 1 = 0 => x.cur < MaxCursor
        /\ InRange(p) => InRange(x)
    BY <2>1
  <2>3. a \in Nat /\ a < Len(x.list) /\ b \in Nat /\ b < Len(x.list)
    BY <1>4, <2>2
  <2>4. x.cur < MaxCursor \/ Len(x.list) > 1
    BY <1>2, <2>2
  <2> HIDE DEF a, b, S
  <2>5. /\ y \in Players /\ Len(y.list) = Len(x.list)
        /\ InRange(x) => InRange(y)
    BY <2>2, <2>3, <2>4, MoveOneKeeps
  <2> HIDE DEF y
  <2>6. y \in S[m]
    BY <2>1, <2>2, <2>5 DEF S
  <2> QED BY <2>6 DEF y, a, b
<1>7. \A m \in 1..k : \A x \in S[m - 1] : step[m][x] = MoveOne(x, From(m), To(m))
  <2> SUFFICES ASSUME NEW m \in 1..k, NEW x \in S[m - 1]
               PROVE  step[m][x] = MoveOne(x, From(m), To(m))
    OBVIOUS
  <2>1. m - 1 \in 0..k
    BY <1>2
  <2>2. x \in Players
    BY <2>1
  <2> QED BY <2>2
<1> HIDE DEF S, step
<1>8. PICK q : Passes(k, S, p, step, q)
  <2>1. \A m \in 1..k : \A x \in S[m - 1] : step[m][x] \in S[m]
    BY <1>6, <1>7
  <2>2. IsLoop(k, S, p, step)
    BY <1>2, <1>5, <2>1 DEF IsLoop
  <2> QED BY <2>2, PassesExist
<1>9. q = [m \in 0..k |-> IF m = 0 THEN p ELSE MoveOne(q[m - 1], From(m), To(m))]
  <2>1. ASSUME NEW m \in 0..k
        PROVE  q[m] = IF m = 0 THEN p ELSE MoveOne(q[m - 1], From(m), To(m))
    <3>1. m # 0 => m \in 1..k /\ m - 1 \in 0..k
      BY <1>2
    <3> QED BY <3>1, <1>7, <1>8 DEF Passes
  <2>2. q = [m \in 0..k |-> q[m]]
    BY <1>8 DEF Passes
  <2> QED BY <2>1, <2>2
<1>10. moved = [m \in 0..k |-> IF m = 0 THEN p ELSE MoveOne(moved[m - 1], From(m), To(m))]
  BY <1>9
<1> HIDE DEF moved
<1>11. moved[k] \in S[k]
  <2>1. k \in Nat /\ 0 \in 0..k
    BY <1>2
  <2>2. moved[0] = p
    BY <2>1, <1>10
  <2>3. \A m \in 1..k : moved[m] = MoveOne(moved[m - 1], From(m), To(m))
    <3> SUFFICES ASSUME NEW m \in 1..k
                 PROVE  moved[m] = MoveOne(moved[m - 1], From(m), To(m))
      OBVIOUS
    <3>1. m \in 0..k /\ m # 0
      BY <1>2
    <3> QED BY <3>1, <1>10
  <2>4. \A m \in 1..k : moved[m - 1] \in S[m - 1] => moved[m] \in S[m]
    BY <2>3, <1>6
  <2> QED BY <2>1, <2>2, <2>4, <1>5, PassesStay
<1> QED
  <2>1. k \in 0..k
    BY <1>2
  <2> QED BY <2>1, <1>1, <1>11 DEF S, n

-----------------------------------------------------------------------------
(* A drag: where the entries go.                                           *)

(* Before counts an initial part of an ascending selection.                *)
LEMMA BeforeCounts ==
    ASSUME NEW n \in Nat, NEW sel, Ascending(sel, n), NEW x \in Nat
    PROVE  /\ Before(sel, x) \in 0..Len(sel)
           /\ \A m \in 1..Len(sel) : m <= Before(sel, x) <=> sel[m] < x
<1> DEFINE k == Len(sel)
           S == {m \in DOMAIN sel : sel[m] < x}
           Z == {m \in 1..k : x <= sel[m]}
<1>1. k \in 1..n /\ DOMAIN sel = 1..k /\ \A m \in 1..k : sel[m] \in Nat
  <2>1. k \in 1..n /\ sel \in [1..k -> 0..(n - 1)]
    BY SelectionRange
  <2> QED BY <2>1
<1>2. \A i, j \in 1..k : i < j => sel[i] < sel[j]
  BY <1>1 DEF Ascending
<1> HIDE DEF k
<1>3. PICK b \in 0..k : \A m \in 1..k : m <= b <=> sel[m] < x
  <2>1. CASE Z = {}
    <3>1. \A m \in 1..k : m <= k /\ sel[m] < x
      BY <2>1, <1>1
    <3> QED BY <3>1, <1>1
  <2>2. CASE Z # {}
    <3>1. Min(Z) \in Z /\ \A m \in Z : Min(Z) <= m
      <4>1. Z \subseteq Nat
        OBVIOUS
      <4> QED BY <4>1, <2>2, LeastNumber
    <3> DEFINE c == Min(Z)
    <3>2. c \in 1..k /\ x <= sel[c]
      BY <3>1
    <3>3. \A m \in 1..k : m < c => sel[m] < x
      <4> SUFFICES ASSUME NEW m \in 1..k, m < c, x <= sel[m] PROVE FALSE
        BY <1>1
      <4>1. m \in Z
        OBVIOUS
      <4>2. c <= m
        BY <4>1, <3>1
      <4> HIDE DEF c
      <4> QED BY <4>2, <3>2
    <3> HIDE DEF c
    <3>4. \A m \in 1..k : ~(m < c) => ~(sel[m] < x)
      <4> SUFFICES ASSUME NEW m \in 1..k, ~(m < c), sel[m] < x PROVE FALSE
        OBVIOUS
      <4>1. m = c \/ c < m
        BY <3>2
      <4>2. sel[m] \in Nat /\ sel[c] \in Nat
        BY <1>1, <3>2
      <4>3. m = c \/ sel[c] < sel[m]
        BY <4>1, <1>2, <3>2
      <4> QED BY <4>2, <4>3, <3>2
    <3>5. c - 1 \in 0..k /\ \A m \in 1..k : m <= c - 1 <=> m < c
      BY <3>2, <1>1
    <3>6. \A m \in 1..k : m <= c - 1 <=> sel[m] < x
      BY <3>3, <3>4, <3>5
    <3> QED BY <3>5, <3>6
  <2> QED BY <2>1, <2>2
<1>4. S = 1..b
  BY <1>1, <1>3
<1>5. Cardinality(1..b) = b
  <2>1. 1 \in Int /\ b \in Int
    BY <1>1
  <2>2. Cardinality(1..b) = IF 1 > b THEN 0 ELSE b - 1 + 1
    BY <2>1, FS_Interval
  <2> QED BY <2>2, <1>1
<1>6. Before(sel, x) = b
  BY <1>4, <1>5 DEF Before
<1> QED BY <1>3, <1>6 DEF k

(* The entries between two selected ones take up the room between them.    *)
LEMMA GapsGrow ==
    ASSUME NEW n \in Nat, NEW sel, Ascending(sel, n),
           NEW c \in 1..Len(sel), NEW d \in 1..Len(sel), c <= d
    PROVE  sel[c] - c <= sel[d] - d
<1> DEFINE k == Len(sel)
           T == {j \in 0..(k - c) : sel[c] - c <= sel[c + j] - (c + j)}
<1>1. k \in 1..n /\ DOMAIN sel = 1..k /\ \A m \in 1..k : sel[m] \in Nat
  <2>1. k \in 1..n /\ sel \in [1..k -> 0..(n - 1)]
    BY SelectionRange
  <2> QED BY <2>1
<1>2. \A i, j \in 1..k : i < j => sel[i] < sel[j]
  BY <1>1 DEF Ascending
<1>3. c \in 1..k /\ d \in 1..k
  OBVIOUS
<1> HIDE DEF k
<1>4. 0 \in T
  BY <1>1, <1>3
<1>5. ASSUME NEW j \in 1..(k - c), j - 1 \in T PROVE j \in T
  <2>1. c + j \in 1..k /\ c + (j - 1) \in 1..k /\ c + (j - 1) < c + j
    BY <1>1, <1>3
  <2>2. sel[c + (j - 1)] < sel[c + j] /\ sel[c + (j - 1)] \in Nat /\ sel[c + j] \in Nat /\ sel[c] \in Nat
    BY <2>1, <1>1, <1>2, <1>3
  <2>3. sel[c] - c <= sel[c + (j - 1)] - (c + (j - 1))
    BY <1>5
  <2>4. sel[c] - c <= sel[c + j] - (c + j)
    <3> DEFINE u == sel[c + (j - 1)]
               v == sel[c + j]
               w == sel[c]
    <3>1. u < v /\ u \in Nat /\ v \in Nat /\ w \in Nat /\ w - c <= u - (c + (j - 1))
      BY <2>2, <2>3
    <3> HIDE DEF u, v, w
    <3>2. w - c <= v - (c + j)
      BY <3>1, <1>3
    <3> QED BY <3>2 DEF v, w
  <2> QED BY <2>4
<1> HIDE DEF T
<1>6. k - c \in Nat
  BY <1>1, <1>3
<1>7. 0..(k - c) \subseteq T
  BY <1>4, <1>5, <1>6, Upward
<1>8. d - c \in 0..(k - c) /\ c + (d - c) = d
  BY <1>1, <1>3
<1>9. d - c \in T
  BY <1>7, <1>8
<1> QED BY <1>8, <1>9 DEF T

(* Members whose current index may be anywhere: what a drag does to the    *)
(* list depends on no index.                                               *)
Anywhere == [list : Seq(Entrys), cur : Nat, hist : Seq(0..(MaxEntries - 1)),
             song : Ids \union {NoSong}, playing : BOOLEAN, paused : BOOLEAN, stopping : BOOLEAN,
             fadeOut : {"none", "runs", "overtaken"}, restart : BOOLEAN, playmode : Playmodes]

LEMMA AnywhereUpdates ==
    ASSUME NEW p \in Anywhere
    PROVE  /\ p.list \in Seq(Entrys) /\ p.cur \in Nat
           /\ \A c \in Nat : [p EXCEPT !.cur = c] \in Anywhere /\ [p EXCEPT !.cur = c].list = p.list
           /\ \A l \in Seq(Entrys) : [p EXCEPT !.list = l] \in Anywhere /\ [p EXCEPT !.list = l].list = l
  BY DEF Anywhere

(* The index moves, and the list is as it was.                             *)
LEMMA IndexOnly ==
    ASSUME NEW p \in Anywhere, NEW n \in Nat
    PROVE  /\ IncrCurrentIndex(p) \in Anywhere /\ IncrCurrentIndex(p).list = p.list
           /\ DecrCurrentIndex(p) \in Anywhere /\ DecrCurrentIndex(p).list = p.list
           /\ SetCurrentIndex(p, n) \in Anywhere /\ SetCurrentIndex(p, n).list = p.list
<1>1. p.list \in Seq(Entrys) /\ p.cur \in Nat
  BY AnywhereUpdates
<1>2. \A c \in Nat : [p EXCEPT !.cur = c] \in Anywhere /\ [p EXCEPT !.cur = c].list = p.list
  BY AnywhereUpdates
<1>3. IncrCurrentIndex(p) \in Anywhere /\ IncrCurrentIndex(p).list = p.list
  <2>1. CASE p.cur < Minus(Count(p), 1)
    <3>1. IncrCurrentIndex(p) = [p EXCEPT !.cur = p.cur + 1] /\ p.cur + 1 \in Nat
      BY <2>1, <1>1 DEF IncrCurrentIndex
    <3> QED BY <3>1, <1>2
  <2>2. CASE ~(p.cur < Minus(Count(p), 1))
    BY <2>2 DEF IncrCurrentIndex
  <2> QED BY <2>1, <2>2
<1>4. DecrCurrentIndex(p) \in Anywhere /\ DecrCurrentIndex(p).list = p.list
  <2>1. CASE p.cur > 0
    <3>1. DecrCurrentIndex(p) = [p EXCEPT !.cur = p.cur - 1] /\ p.cur - 1 \in Nat
      BY <2>1, <1>1 DEF DecrCurrentIndex
    <3> QED BY <3>1, <1>2
  <2>2. CASE ~(p.cur > 0)
    BY <2>2 DEF DecrCurrentIndex
  <2> QED BY <2>1, <2>2
<1>5. SetCurrentIndex(p, n) \in Anywhere /\ SetCurrentIndex(p, n).list = p.list
  <2> DEFINE c == IF p.list = <<>> THEN 0 ELSE Min({n, Count(p) - 1})
  <2>1. c \in Nat
    <3>1. CASE p.list = <<>>
      BY <3>1
    <3>2. CASE p.list # <<>>
      <4>1. Count(p) - 1 \in Nat
        BY <3>2, <1>1 DEF Count
      <4>2. Min({n, Count(p) - 1}) \in {n, Count(p) - 1}
        <5>1. {n, Count(p) - 1} \subseteq Nat /\ {n, Count(p) - 1} # {}
          BY <4>1
        <5> QED BY <5>1, LeastNumber
      <4> QED BY <3>2, <4>1, <4>2
    <3> QED BY <3>1, <3>2
  <2>2. SetCurrentIndex(p, n) = [p EXCEPT !.cur = c]
    BY DEF SetCurrentIndex
  <2> HIDE DEF c
  <2> QED BY <2>1, <2>2, <1>2
<1> QED BY <1>3, <1>4, <1>5

(* Where the entry at place j goes when the one at from moves to to.       *)
Shifted(from, to, j) ==
    IF j = from THEN to
    ELSE IF to <= j /\ j < from THEN j + 1
    ELSE IF from < j /\ j <= to THEN j - 1 ELSE j

LEMMA MoveOneShifts ==
    ASSUME NEW p \in Anywhere, NEW from \in Nat, NEW to \in Nat, from < Len(p.list), to < Len(p.list)
    PROVE  LET q == MoveOne(p, from, to)
           IN  /\ q \in Anywhere /\ Len(q.list) = Len(p.list)
               /\ \A j \in 0..(Len(p.list) - 1) : q.list[Shifted(from, to, j) + 1] = p.list[j + 1]
<1> DEFINE n == Len(p.list)
           d == Detach(p, from)
           e == p.list[from + 1]
           r == Insert(d, e, to)
           q == MoveOne(p, from, to)
<1>1. p.list \in Seq(Entrys) /\ n \in Nat /\ DOMAIN p.list = 1..n /\ from + 1 \in 1..n
  BY AnywhereUpdates
<1>2. e \in Entrys
  BY <1>1
<1>3. /\ d \in Anywhere /\ Len(d.list) = n - 1
      /\ \A j \in 1..(n - 1) : d.list[j] = IF j < from + 1 THEN p.list[j] ELSE p.list[j + 1]
  <2> DEFINE x == IF from < p.cur THEN DecrCurrentIndex(p) ELSE p
             l == RemoveAt(p.list, from + 1)
  <2>1. x \in Anywhere /\ x.list = p.list
    BY <1>1, IndexOnly
  <2>2. /\ l \in Seq(Entrys) /\ Len(l) = n - 1
        /\ \A j \in 1..(n - 1) : l[j] = IF j < from + 1 THEN p.list[j] ELSE p.list[j + 1]
    BY <1>1, RemoveAtList
  <2>3. d = [x EXCEPT !.list = l]
    BY <2>1 DEF Detach
  <2> HIDE DEF x, l, d
  <2>4. d \in Anywhere /\ d.list = l
    BY <2>1, <2>2, <2>3, AnywhereUpdates
  <2> QED BY <2>2, <2>4
<1> HIDE DEF d, e, n
<1>4. /\ r \in Anywhere /\ Len(r.list) = n
      /\ \A j \in 1..n : r.list[j] = IF j < to + 1 THEN d.list[j]
                                     ELSE IF j = to + 1 THEN e ELSE d.list[j - 1]
  <2> DEFINE x == IF to <= d.cur THEN IncrCurrentIndex(d) ELSE d
             l == InsertAt(d.list, to + 1, e)
  <2>1. x \in Anywhere /\ x.list = d.list /\ d.list \in Seq(Entrys)
    BY <1>1, <1>3, IndexOnly, AnywhereUpdates
  <2>2. to + 1 \in Nat /\ 1 <= to + 1 /\ to + 1 <= Len(d.list) + 1 /\ Len(d.list) + 1 = n
    BY <1>1, <1>3 DEF n
  <2>3. /\ l \in Seq(Entrys) /\ Len(l) = n
        /\ \A j \in 1..n : l[j] = IF j < to + 1 THEN d.list[j]
                                  ELSE IF j = to + 1 THEN e ELSE d.list[j - 1]
    <3> DEFINE i == to + 1
               s == d.list
    <3>1. i \in Nat /\ 1 <= i /\ i <= Len(s) + 1 /\ s \in Seq(Entrys)
      BY <2>1, <2>2
    <3> HIDE DEF i, s
    <3>2. /\ InsertAt(s, i, e) \in Seq(Entrys) /\ Len(InsertAt(s, i, e)) = Len(s) + 1
          /\ \A j \in 1..(Len(s) + 1) :
                InsertAt(s, i, e)[j] = IF j < i THEN s[j] ELSE IF j = i THEN e ELSE s[j - 1]
      BY <3>1, <1>2, InsertAtList
    <3> QED BY <3>2, <2>2 DEF i, s
  <2>4. to <= Count(d)
    BY <2>2, <1>1, <1>3 DEF Count, n
  <2>5. r = [x EXCEPT !.list = l]
    BY <2>1, <2>4 DEF Insert
  <2> HIDE DEF x, l, r
  <2>6. r \in Anywhere /\ r.list = l
    BY <2>1, <2>3, <2>5, AnywhereUpdates
  <2> QED BY <2>3, <2>6
<1> HIDE DEF r
<1>5. q \in Anywhere /\ q.list = r.list
  <2>1. q = IF CurrentIndex(p) = from THEN SetCurrentIndex(r, to) ELSE r
    BY DEF MoveOne, r, d, e
  <2> HIDE DEF q
  <2>2. r \in Anywhere
    BY <1>4
  <2>3. SetCurrentIndex(r, to) \in Anywhere /\ SetCurrentIndex(r, to).list = r.list
    BY <2>2, IndexOnly
  <2>4. CASE CurrentIndex(p) = from
    BY <2>1, <2>3, <2>4
  <2>5. CASE CurrentIndex(p) # from
    BY <2>1, <2>2, <2>5
  <2> QED BY <2>4, <2>5
<1> HIDE DEF q
<1>6. ASSUME NEW j \in 0..(n - 1) PROVE r.list[Shifted(from, to, j) + 1] = p.list[j + 1]
  <2>1. from \in Nat /\ to \in Nat /\ from < n /\ to < n /\ n \in Nat
    BY <1>1 DEF n
  <2>2. CASE j = from
    <3>1. Shifted(from, to, j) = to /\ to + 1 \in 1..n
      BY <2>1, <2>2 DEF Shifted
    <3>2. r.list[to + 1] = e
      BY <3>1, <1>4
    <3> QED BY <3>1, <3>2, <2>2 DEF e
  <2>3. CASE j < from /\ j < to
    <3>1. Shifted(from, to, j) = j /\ j + 1 \in 1..n /\ j + 1 \in 1..(n - 1) /\ j + 1 < to + 1 /\ j + 1 < from + 1
      BY <2>1, <2>3 DEF Shifted
    <3> QED BY <3>1, <1>3, <1>4
  <2>4. CASE j < from /\ to <= j
    <3>1. /\ Shifted(from, to, j) = j + 1 /\ j + 2 \in 1..n /\ j + 1 \in 1..(n - 1)
          /\ ~(j + 2 < to + 1) /\ j + 2 # to + 1 /\ j + 1 < from + 1 /\ j + 2 - 1 = j + 1 /\ j + 1 + 1 = j + 2
      BY <2>1, <2>4 DEF Shifted
    <3>2. r.list[j + 2] = d.list[j + 1]
      BY <3>1, <1>4
    <3>3. d.list[j + 1] = p.list[j + 1]
      BY <3>1, <1>3
    <3> QED BY <3>1, <3>2, <3>3
  <2>5. CASE from < j /\ j <= to
    <3>1. /\ Shifted(from, to, j) = j - 1 /\ j - 1 + 1 = j /\ j \in 1..n /\ j \in 1..(n - 1)
          /\ j < to + 1 /\ ~(j < from + 1)
      BY <2>1, <2>5 DEF Shifted
    <3>2. r.list[j] = d.list[j]
      BY <3>1, <1>4
    <3>3. d.list[j] = p.list[j + 1]
      BY <3>1, <1>3
    <3> QED BY <3>1, <3>2, <3>3
  <2>6. CASE from < j /\ to < j
    <3>1. /\ Shifted(from, to, j) = j /\ j + 1 \in 1..n /\ j \in 1..(n - 1)
          /\ ~(j + 1 < to + 1) /\ j + 1 # to + 1 /\ j + 1 - 1 = j /\ ~(j < from + 1)
      BY <2>1, <2>6 DEF Shifted
    <3>2. r.list[j + 1] = d.list[j]
      BY <3>1, <1>4
    <3>3. d.list[j] = p.list[j + 1]
      BY <3>1, <1>3
    <3> QED BY <3>1, <3>2, <3>3
  <2> QED BY <2>1, <2>2, <2>3, <2>4, <2>5, <2>6
<1> QED BY <1>4, <1>5, <1>6 DEF q, n

(* The place of entry i after m passes over k selected entries, of which t *)
(* lie before the target and b before i: a selected entry that was moved is *)
(* in the block, which grows to the left; the others made room.            *)
Spot(k, t, to, m, i, b, selected) ==
    IF selected /\ b >= k - m THEN to - (IF m <= k - t THEN 0 ELSE m - (k - t)) + (b - (k - m))
    ELSE IF i < to THEN i - (IF b <= k - m THEN 0 ELSE b - (k - m))
    ELSE i + (IF m <= k - b THEN m ELSE k - b)

(* The selected entry c, at s, entry i and the target among the selected    *)
(* entries: the entries between two of them take up the room between them. *)
Around(k, c, t, b, to, i, s, selected) ==
    /\ to \in Nat /\ i \in Nat /\ s \in Nat /\ t \in 0..k /\ b \in 0..k /\ selected \in BOOLEAN
    /\ selected => b < k /\ (b = c - 1 <=> i = s)
    /\ ~selected => i # s
    /\ c <= t <=> s < to
    /\ c <= b <=> s < i
    /\ i < to => b <= t
    /\ ~(i < to) => t <= b
    /\ c <= b => s - c < i - b
    /\ c <= t => s - c < to - t
    /\ ~selected /\ i < to => i - b < to - t

(* Pass m takes the selected entry k - m + 1, which was at s; the shift of *)
(* that pass brings every entry from its place to its next place.          *)
TakenFrom(k, t, m, s) == s + IF m <= k - t THEN m - 1 ELSE 0
PutAt(k, t, to, m)    == IF m <= k - t THEN to ELSE to - (m - (k - t))

LEMMA SpotShifts ==
    ASSUME NEW k \in Nat, NEW m \in 1..k, NEW t, NEW b, NEW to, NEW i, NEW s, NEW selected,
           Around(k, k - m + 1, t, b, to, i, s, selected)
    PROVE  Spot(k, t, to, m, i, b, selected)
             = Shifted(TakenFrom(k, t, m, s), PutAt(k, t, to, m), Spot(k, t, to, m - 1, i, b, selected))
<1> USE DEF Around
<1>0. k - m + 1 - 1 = k - m
  OBVIOUS
<1> DEFINE old == Spot(k, t, to, m - 1, i, b, selected)
           new == Spot(k, t, to, m, i, b, selected)
<1>1. CASE m <= k - t
  <2>1. t < k - m + 1 /\ ~(s < to) /\ m - 1 <= k - t
    BY <1>1
  <2>2. SUFFICES new = Shifted(s + (m - 1), to, old)
    BY <1>1 DEF TakenFrom, PutAt
  <2>3. CASE selected /\ b >= k - m + 1
    <3>1. old = to + (b - (k - m + 1)) /\ new = to + (b - (k - m))
      BY <1>1, <2>1, <2>3 DEF Spot
    <3> HIDE DEF old, new
    <3>2. b < k /\ b >= k - m + 1
      BY <2>3
    <3>3. to <= old /\ old < s + (m - 1) /\ new = old + 1 /\ old \in Int
      BY <3>1, <3>2, <2>1
    <3> QED BY <3>3, <2>1 DEF Shifted
  <2>4. CASE selected /\ b = k - m
    <3>0. i = s /\ ~(i < to) /\ ~(b >= k - (m - 1)) /\ m - 1 <= k - b /\ b - (k - m) = 0
      BY <2>1, <2>4
    <3>1. old = i + (m - 1) /\ i = s /\ new = to
      BY <1>1, <2>4, <3>0 DEF Spot
    <3> HIDE DEF old, new
    <3> QED BY <3>1 DEF Shifted
  <2>5. CASE ~(selected /\ b >= k - m) /\ i < to
    <3>1. b <= k - m
      BY <2>1, <2>5
    <3>2. old = i /\ new = i
      BY <3>1, <2>5 DEF Spot
    <3> HIDE DEF old, new
    <3> QED BY <3>2, <2>1, <2>5 DEF Shifted
  <2>6. CASE ~(selected /\ b >= k - m) /\ ~(i < to) /\ b <= k - m
    <3>1. old = i + (m - 1) /\ new = i + m
      BY <2>6 DEF Spot
    <3>2. i < s
      BY <2>6
    <3> HIDE DEF old, new
    <3> QED BY <3>1, <3>2, <2>6 DEF Shifted
  <2>7. CASE ~(selected /\ b >= k - m) /\ ~(i < to) /\ b > k - m
    <3>1. old = i + (k - b) /\ new = i + (k - b)
      BY <2>7 DEF Spot
    <3>2. s - (k - m + 1) < i - b
      BY <2>7
    <3>3. s + (m - 1) < old
      BY <3>1, <3>2
    <3> HIDE DEF old, new
    <3> QED BY <3>1, <3>3, <2>1 DEF Shifted
  <2> QED BY <2>3, <2>4, <2>5, <2>6, <2>7
<1>2. CASE ~(m <= k - t)
  <2> DEFINE j == m - (k - t)
  <2>1. k - m + 1 <= t /\ s < to /\ s - (k - m + 1) < to - t /\ j \in 1..t
    BY <1>2
  <2>2. SUFFICES new = Shifted(s, to - j, old)
    BY <1>2 DEF TakenFrom, PutAt
  <2>3. s <= to - j
    BY <2>1
  <2>4. CASE selected /\ b >= k - m + 1
    <3>1. new = to - j + (b - (k - m))
      BY <1>2, <2>4 DEF Spot
    <3>2. old = to - (j - 1) + (b - (k - m + 1))
      <4>1. CASE m - 1 <= k - t
        <5>1. j = 1
          BY <4>1, <2>1
        <5> QED BY <4>1, <5>1, <2>4 DEF Spot
      <4>2. CASE ~(m - 1 <= k - t)
        BY <4>2, <2>4 DEF Spot
      <4> QED BY <4>1, <4>2
    <3> HIDE DEF old, new, j
    <3>3. new = old /\ to - j < old /\ old \in Int
      BY <3>1, <3>2, <2>1, <2>4
    <3> QED BY <3>3, <2>1, <2>3 DEF Shifted
  <2>5. CASE selected /\ b = k - m
    <3>1. i = s /\ i < to /\ ~(b >= k - (m - 1)) /\ b <= k - (m - 1) /\ b - (k - m) = 0
      BY <2>1, <2>5
    <3>2. old = i
      BY <3>1 DEF Spot
    <3>3. new = to - j
      BY <1>2, <2>5, <3>1 DEF Spot
    <3> HIDE DEF old, new, j
    <3> QED BY <3>1, <3>2, <3>3 DEF Shifted
  <2>6. CASE ~(selected /\ b >= k - m) /\ i < to /\ b <= k - m
    <3>1. i < s /\ old = i /\ new = i
      BY <2>6 DEF Spot
    <3> HIDE DEF old, new
    <3> QED BY <3>1, <2>1, <2>3 DEF Shifted
  <2>7. CASE ~(selected /\ b >= k - m) /\ i < to /\ b > k - m
    <3>1. old = i - (b - (k - m + 1)) /\ new = i - (b - (k - m))
      BY <2>7 DEF Spot
    <3>2. s < old /\ new = old - 1
      <4>1. s - (k - m + 1) < i - b
        BY <2>7
      <4> HIDE DEF old, new
      <4> QED BY <3>1, <4>1
    <3>3. old <= to - j
      <4>1. ~selected
        <5>1. b >= k - m
          BY <2>7
        <5> QED BY <2>7, <5>1, Zenon
      <4>2. i - b < to - t
        BY <4>1, <2>7
      <4> QED BY <3>1, <4>2
    <3> HIDE DEF old, new, j
    <3> QED BY <3>1, <3>2, <3>3, <2>1 DEF Shifted
  <2>8. CASE ~(selected /\ b >= k - m) /\ ~(i < to)
    <3>1. t <= b
      BY <2>8
    <3>2. old = i + (k - b) /\ new = i + (k - b)
      BY <1>2, <3>1, <2>8 DEF Spot
    <3>3. to - j < old
      BY <3>2, <2>1, <2>8
    <3> HIDE DEF old, new, j
    <3> QED BY <3>2, <3>3, <2>1, <2>3 DEF Shifted
  <2> QED BY <2>4, <2>5, <2>6, <2>7, <2>8
<1> QED BY <1>1, <1>2

(* An ascending selection is as SpotShifts wants it.                       *)
LEMMA SelectionIsAround ==
    ASSUME NEW n \in Nat, NEW sel, Ascending(sel, n), NEW to \in 0..n,
           NEW c \in 1..Len(sel), NEW i \in 0..(n - 1)
    PROVE  Around(Len(sel), c, Before(sel, to), Before(sel, i), to, i, sel[c], i \in ToSet(sel))
<1> DEFINE k == Len(sel)
           t == Before(sel, to)
           b == Before(sel, i)
           s == sel[c]
           selected == i \in ToSet(sel)
<1>1. k \in 1..n /\ DOMAIN sel = 1..k /\ \A m \in 1..k : sel[m] \in Nat
  <2>1. k \in 1..n /\ sel \in [1..k -> 0..(n - 1)]
    BY SelectionRange
  <2> QED BY <2>1
<1>2. t \in 0..k /\ \A m \in 1..k : m <= t <=> sel[m] < to
  <2>1. to \in Nat
    OBVIOUS
  <2> QED BY <2>1, BeforeCounts
<1>3. b \in 0..k /\ \A m \in 1..k : m <= b <=> sel[m] < i
  <2>1. i \in Nat
    OBVIOUS
  <2> QED BY <2>1, BeforeCounts
<1>4. \A m, j \in 1..k : m <= j => sel[m] - m <= sel[j] - j
  BY GapsGrow
<1>5. selected <=> \E m \in 1..k : i = sel[m]
  BY <1>1 DEF ToSet
<1>6. c \in 1..k /\ i \in Nat /\ to \in Nat /\ s \in Nat
  BY <1>1
<1> HIDE DEF k, t, b, selected
<1>7. selected => b < k /\ (b = c - 1 <=> i = s)
  <2> SUFFICES ASSUME selected PROVE b < k /\ (b = c - 1 <=> i = s)
    OBVIOUS
  <2>1. PICK m \in 1..k : i = sel[m]
    BY <1>5
  <2>2. b = m - 1
    <3>1. ~(m <= b)
      BY <2>1, <1>1, <1>3
    <3>2. \A j \in 1..k : j < m => j <= b
      <4> SUFFICES ASSUME NEW j \in 1..k, j < m PROVE j <= b
        OBVIOUS
      <4>1. sel[j] - j <= sel[m] - m /\ sel[j] \in Nat /\ sel[m] \in Nat
        BY <1>1, <1>4
      <4>2. sel[j] < i
        BY <4>1, <2>1
      <4> QED BY <4>2, <1>3
    <3>3. m = 1 \/ m - 1 \in 1..k
      BY <1>1
    <3>4. m - 1 <= b
      <4>1. CASE m = 1
        BY <4>1, <1>3
      <4>2. CASE m - 1 \in 1..k
        BY <4>2, <3>2
      <4> QED BY <3>3, <4>1, <4>2
    <3> QED BY <3>1, <3>4, <1>3
  <2>3. b = c - 1 => i = s
    BY <2>1, <2>2, <1>6
  <2>4. i = s => b = c - 1
    <3> SUFFICES ASSUME sel[m] = sel[c] PROVE m = c
      BY <2>1, <2>2, <1>6
    <3>1. m <= c => sel[m] - m <= sel[c] - c
      BY <1>4, <1>6
    <3>2. c <= m => sel[c] - c <= sel[m] - m
      BY <1>4, <1>6
    <3>3. sel[c] \in Nat /\ sel[m] \in Nat
      BY <1>1, <1>6
    <3> QED BY <3>1, <3>2, <3>3, <1>1, <1>6
  <2> QED BY <2>2, <2>3, <2>4, <1>1, <1>3
<1>8. ~selected => i # s
  BY <1>5, <1>6
<1>9. (c <= t <=> s < to) /\ (c <= b <=> s < i)
  BY <1>2, <1>3, <1>6
<1>10. i < to => b <= t
  <2> SUFFICES ASSUME i < to, t < b PROVE FALSE
    BY <1>2, <1>3
  <2>1. b \in 1..k /\ sel[b] \in Nat
    BY <1>1, <1>2, <1>3
  <2>2. sel[b] < i /\ ~(sel[b] < to)
    BY <2>1, <1>2, <1>3
  <2> QED BY <2>1, <2>2, <1>6
<1>11. ~(i < to) => t <= b
  <2> SUFFICES ASSUME ~(i < to), b < t PROVE FALSE
    BY <1>2, <1>3
  <2>1. t \in 1..k /\ sel[t] \in Nat
    BY <1>1, <1>2, <1>3
  <2>2. sel[t] < to /\ ~(sel[t] < i)
    BY <2>1, <1>2, <1>3
  <2> QED BY <2>1, <2>2, <1>6
<1>12. c <= b => s - c < i - b
  <2> SUFFICES ASSUME c <= b PROVE s - c < i - b
    OBVIOUS
  <2>1. b \in 1..k
    BY <1>1, <1>3, <1>6
  <2>2. sel[b] < i /\ sel[c] - c <= sel[b] - b /\ sel[b] \in Nat
    BY <2>1, <1>1, <1>3, <1>4, <1>6
  <2> QED BY <2>1, <2>2, <1>6
<1>13. c <= t => s - c < to - t
  <2> SUFFICES ASSUME c <= t PROVE s - c < to - t
    OBVIOUS
  <2>1. t \in 1..k
    BY <1>1, <1>2, <1>6
  <2>2. sel[t] < to /\ sel[c] - c <= sel[t] - t /\ sel[t] \in Nat
    BY <2>1, <1>1, <1>2, <1>4, <1>6
  <2> QED BY <2>1, <2>2, <1>6
<1>14. ~selected /\ i < to => i - b < to - t
  <2> SUFFICES ASSUME ~selected, i < to PROVE i - b < to - t
    OBVIOUS
  <2>1. CASE b = t
    BY <2>1, <1>2, <1>6
  <2>2. CASE b < t
    <3>1. b + 1 \in 1..k /\ t \in 1..k /\ b + 1 <= t
      BY <2>2, <1>1, <1>2, <1>3
    <3>2. sel[b + 1] - (b + 1) <= sel[t] - t /\ sel[b + 1] \in Nat /\ sel[t] \in Nat
      BY <3>1, <1>1, <1>4
    <3>3. sel[t] < to
      BY <3>1, <1>2
    <3>4. ~(sel[b + 1] < i) /\ sel[b + 1] # i
      BY <3>1, <1>3, <1>5
    <3> DEFINE u == sel[b + 1]
               v == sel[t]
    <3>5. i < u /\ u - (b + 1) <= v - t /\ v < to /\ u \in Nat /\ v \in Nat
      BY <3>2, <3>3, <3>4, <1>6
    <3>6. b \in Nat /\ t \in Nat
      BY <1>2, <1>3
    <3> HIDE DEF u, v
    <3> QED BY <3>5, <3>6, <1>6
  <2> QED BY <2>1, <2>2, <1>10, <1>2, <1>3
<1>15. selected \in BOOLEAN
  BY DEF selected
<1>16. Around(k, c, t, b, to, i, s, selected)
  BY <1>2, <1>3, <1>6, <1>7, <1>8, <1>9, <1>10, <1>11, <1>12, <1>13, <1>14, <1>15, Zenon DEF Around
<1> QED BY <1>16 DEF k, t, b, selected

(* After every pass each entry is at its spot, and at its place when the    *)
(* loop is done.                                                            *)
LEMMA MoveEntrysPlaces ==
    ASSUME NEW p \in Anywhere, NEW sel, Ascending(sel, Len(p.list)), NEW to \in 0..Len(p.list)
    PROVE  Rearranged(p.list, MoveEntrys(p, to, sel).list, sel, to)
<1> DEFINE n == Len(p.list)
           k == Len(sel)
           t == Before(sel, to)
           right == k - t
           From(m) == sel[k - m + 1] + IF m <= right THEN m - 1 ELSE 0
           To(m) == IF m <= right THEN to ELSE to - (m - right)
           At(m, i) == Spot(k, t, to, m, i, Before(sel, i), i \in ToSet(sel))
           S == [m \in 0..k |->
                   {x \in Anywhere : /\ Len(x.list) = n
                                     /\ \A i \in 0..(n - 1) : /\ At(m, i) \in 0..(n - 1)
                                                              /\ x.list[At(m, i) + 1] = p.list[i + 1]}]
           step == [m \in 1..k |-> [x \in Anywhere |-> MoveOne(x, From(m), To(m))]]
           moved == CHOOSE g : g = [m \in 0..k |-> IF m = 0 THEN p
                                          ELSE MoveOne(g[m - 1], From(m), To(m))]
<1>1. MoveEntrys(p, to, sel) = moved[k]
  BY DEF MoveEntrys, Before
<1>2. n \in Nat /\ k \in 1..n /\ to \in 0..n /\ Ascending(sel, n)
  <2>1. n \in Nat
    BY AnywhereUpdates
  <2> QED BY <2>1, SelectionRange
<1> HIDE DEF n
<1>3. ASSUME NEW m \in 1..k, NEW i \in 0..(n - 1)
      PROVE  At(m, i) = Shifted(From(m), To(m), At(m - 1, i))
  <2> DEFINE c == k - m + 1
             b == Before(sel, i)
             s == sel[c]
             selected == i \in ToSet(sel)
  <2>1. c \in 1..k /\ k \in Nat /\ m \in 1..k
    BY <1>2
  <2>2. Around(k, c, t, b, to, i, s, selected)
    BY <2>1, <1>2, SelectionIsAround
  <2> HIDE DEF k, t, b, s, selected
  <2>3. Spot(k, t, to, m, i, b, selected)
          = Shifted(TakenFrom(k, t, m, s), PutAt(k, t, to, m), Spot(k, t, to, m - 1, i, b, selected))
    BY <2>1, <2>2, SpotShifts
  <2> QED BY <2>3 DEF s, b, selected, TakenFrom, PutAt
<1>4. ASSUME NEW m \in 1..k
      PROVE  From(m) \in Nat /\ From(m) < n /\ To(m) \in Nat /\ To(m) < n
  <2> DEFINE c == k - m + 1
             s == sel[c]
  <2>1. c \in 1..k /\ 0 \in 0..(n - 1)
    BY <1>2
  <2>2. /\ s \in Nat /\ t \in 0..k
        /\ c <= t <=> s < to
        /\ c <= t => s - c < to - t
    BY <2>1, <1>2, SelectionIsAround DEF Around
  <2>5. s + (k - c) <= n - 1
    BY <2>1, <1>2, SelectionRange
  <2> HIDE DEF k, t, s
  <2>3. CASE m <= right
    <3>1. From(m) = s + (m - 1) /\ To(m) = to
      BY <2>3 DEF s
    <3>2. ~(s < to)
      BY <2>1, <2>2, <2>3, <1>2
    <3> QED BY <3>1, <3>2, <2>2, <2>5, <1>2
  <2>4. CASE ~(m <= right)
    <3>1. From(m) = s + 0 /\ To(m) = to - (m - right)
      BY <2>4 DEF s
    <3>2. s < to /\ s - c < to - t
      BY <2>1, <2>2, <2>4, <1>2
    <3> QED BY <3>1, <3>2, <2>2, <2>4, <2>5, <1>2
  <2> QED BY <2>3, <2>4
<1>5. p \in S[0]
  <2>1. ASSUME NEW i \in 0..(n - 1) PROVE At(0, i) = i
    <3> DEFINE b == Before(sel, i)
               selected == i \in ToSet(sel)
    <3>1. b \in 0..k /\ (selected => b < k)
      <4>1. 1 \in 1..k
        BY <1>2
      <4> QED BY <4>1, <1>2, SelectionIsAround DEF Around
    <3> HIDE DEF b, k, t
    <3>2. ~(selected /\ b >= k - 0)
      BY <3>1, <1>2
    <3>3. Spot(k, t, to, 0, i, b, selected) = i
      <4>1. b <= k - 0 /\ 0 <= k - b
        BY <3>1, <1>2
      <4> HIDE DEF selected
      <4> QED BY <3>2, <4>1, <1>2 DEF Spot
    <3> QED BY <3>3 DEF b
  <2> HIDE DEF At
  <2> QED BY <2>1, <1>2 DEF n
<1> HIDE DEF k, From, To, At
<1>6. ASSUME NEW m \in 1..k, NEW x \in S[m - 1]
      PROVE  MoveOne(x, From(m), To(m)) \in S[m]
  <2> DEFINE a == From(m)
             b == To(m)
             y == MoveOne(x, a, b)
  <2>1. m - 1 \in 0..k /\ m \in 0..k
    BY <1>2
  <2>2. /\ x \in Anywhere /\ Len(x.list) = n
        /\ \A i \in 0..(n - 1) : /\ At(m - 1, i) \in 0..(n - 1)
                                 /\ x.list[At(m - 1, i) + 1] = p.list[i + 1]
    BY <2>1
  <2>3. a \in Nat /\ a < n /\ b \in Nat /\ b < n
    BY <1>4
  <2> HIDE DEF a, b, S
  <2>4. /\ y \in Anywhere /\ Len(y.list) = n
        /\ \A j \in 0..(n - 1) : y.list[Shifted(a, b, j) + 1] = x.list[j + 1]
    BY <2>2, <2>3, MoveOneShifts
  <2> HIDE DEF y
  <2>5. ASSUME NEW i \in 0..(n - 1)
        PROVE  At(m, i) \in 0..(n - 1) /\ y.list[At(m, i) + 1] = p.list[i + 1]
    <3> DEFINE j == At(m - 1, i)
    <3>1. j \in 0..(n - 1) /\ x.list[j + 1] = p.list[i + 1]
      BY <2>2
    <3>2. At(m, i) = Shifted(a, b, j)
      BY <1>3 DEF a, b
    <3> HIDE DEF j
    <3>3. Shifted(a, b, j) \in 0..(n - 1)
      BY <3>1, <2>3, <1>2 DEF Shifted
    <3> QED BY <3>1, <3>2, <3>3, <2>4
  <2>6. y \in S[m]
    BY <2>1, <2>4, <2>5 DEF S
  <2> QED BY <2>6 DEF y, a, b
<1>7. \A m \in 1..k : \A x \in S[m - 1] : step[m][x] = MoveOne(x, From(m), To(m))
  <2> SUFFICES ASSUME NEW m \in 1..k, NEW x \in S[m - 1]
               PROVE  step[m][x] = MoveOne(x, From(m), To(m))
    OBVIOUS
  <2>1. m - 1 \in 0..k
    BY <1>2
  <2>2. x \in Anywhere
    BY <2>1
  <2> QED BY <2>2
<1> HIDE DEF S, step
<1>8. PICK q : Passes(k, S, p, step, q)
  <2>1. \A m \in 1..k : \A x \in S[m - 1] : step[m][x] \in S[m]
    BY <1>6, <1>7
  <2>2. IsLoop(k, S, p, step)
    BY <1>2, <1>5, <2>1 DEF IsLoop
  <2> QED BY <2>2, PassesExist
<1>9. q = [m \in 0..k |-> IF m = 0 THEN p ELSE MoveOne(q[m - 1], From(m), To(m))]
  <2>1. ASSUME NEW m \in 0..k
        PROVE  q[m] = IF m = 0 THEN p ELSE MoveOne(q[m - 1], From(m), To(m))
    <3>1. m # 0 => m \in 1..k /\ m - 1 \in 0..k
      BY <1>2
    <3> QED BY <3>1, <1>7, <1>8 DEF Passes
  <2>2. q = [m \in 0..k |-> q[m]]
    BY <1>8 DEF Passes
  <2> QED BY <2>1, <2>2
<1>10. moved = [m \in 0..k |-> IF m = 0 THEN p ELSE MoveOne(moved[m - 1], From(m), To(m))]
  BY <1>9
<1> HIDE DEF moved
<1>11. moved[k] \in S[k]
  <2>1. k \in Nat /\ 0 \in 0..k
    BY <1>2
  <2>2. moved[0] = p
    BY <2>1, <1>10
  <2>3. \A m \in 1..k : moved[m] = MoveOne(moved[m - 1], From(m), To(m))
    <3> SUFFICES ASSUME NEW m \in 1..k
                 PROVE  moved[m] = MoveOne(moved[m - 1], From(m), To(m))
      OBVIOUS
    <3>1. m \in 0..k /\ m # 0
      BY <1>2
    <3> QED BY <3>1, <1>10
  <2>4. \A m \in 1..k : moved[m - 1] \in S[m - 1] => moved[m] \in S[m]
    BY <2>3, <1>6
  <2> QED BY <2>1, <2>2, <2>4, <1>5, PassesStay
<1>12. /\ Len(moved[k].list) = n
       /\ \A i \in 0..(n - 1) : moved[k].list[At(k, i) + 1] = p.list[i + 1]
  <2>1. k \in 0..k
    BY <1>2
  <2> QED BY <2>1, <1>11 DEF S
<1>13. ASSUME NEW i \in 0..(n - 1) PROVE At(k, i) = Place(sel, to, i)
  <2> DEFINE b == Before(sel, i)
             selected == i \in ToSet(sel)
  <2>1. t \in 0..k /\ b \in 0..k
    <3>1. 1 \in 1..k
      BY <1>2
    <3> QED BY <3>1, <1>2, SelectionIsAround DEF Around, k
  <2>2. At(k, i) = Spot(k, t, to, k, i, b, selected)
    BY DEF At
  <2>3. Place(sel, to, i) = IF selected THEN to - t + b ELSE i - b + IF i < to THEN 0 ELSE k
    BY DEF Place, k
  <2> HIDE DEF t, b, selected
  <2>4. CASE selected
    <3>1. b >= k - k /\ k - k = 0
      BY <2>1, <1>2
    <3>2. Spot(k, t, to, k, i, b, selected) = to - (IF k <= k - t THEN 0 ELSE k - (k - t)) + (b - (k - k))
      BY <2>4, <3>1 DEF Spot
    <3>3. Spot(k, t, to, k, i, b, selected) = to - t + b
      BY <3>2, <2>1, <1>2
    <3> QED BY <2>2, <2>3, <2>4, <3>3
  <2>5. CASE ~selected
    <3>1. Spot(k, t, to, k, i, b, selected)
            = IF i < to THEN i - (IF b <= k - k THEN 0 ELSE b - (k - k))
              ELSE i + (IF k <= k - b THEN k ELSE k - b)
      BY <2>5 DEF Spot
    <3>2. Spot(k, t, to, k, i, b, selected) = i - b + IF i < to THEN 0 ELSE k
      BY <3>1, <2>1, <1>2
    <3> QED BY <2>2, <2>3, <2>5, <3>2
  <2> QED BY <2>4, <2>5
<1> QED BY <1>1, <1>12, <1>13 DEF n, Rearranged

-----------------------------------------------------------------------------
(* The next and the previous song.                                         *)

(* The unsigned difference is a number, whatever it wraps to.              *)
LEMMA MinusIsNat ==
    ASSUME NEW a \in Nat
    PROVE  Minus(a, 1) \in Nat
  BY Sizes DEF Minus

(* A longer history, with what was drawn at its end.                       *)
LEMMA OtherHistory ==
    ASSUME NEW p \in Players, NEW hist \in Seq(0..(MaxEntries - 1)), NEW r \in 0..(MaxEntries - 1)
    PROVE  [p EXCEPT !.hist = Append(hist, r)] \in Players
<1>1. Append(hist, r) \in Seq(0..(MaxEntries - 1))
  OBVIOUS
<1> DEFINE h == Append(hist, r)
<1> HIDE DEF h
<1>2. h \in Seq(0..(MaxEntries - 1)) => [p EXCEPT !.hist = h] \in Players
  BY DEF Players, Members
<1> QED BY <1>1, <1>2 DEF h

(* The loop that cuts the history ends inside it.                          *)
LEMMA CutHistoryType ==
    ASSUME NEW T, NEW hist \in Seq(T)
    PROVE  CutHistory(hist) \in Seq(T)
<1> DEFINE n == Len(hist)
           K == {k \in 0..n : k >= (n - k) \div 2}
           k == Min(K)
<1>1. n \in Nat
  OBVIOUS
<1>2. n \in K
  BY <1>1
<1>3. k \in K
  <2>1. K \subseteq Nat /\ K # {}
    BY <1>1, <1>2
  <2> HIDE DEF K
  <2> QED BY <2>1, LeastNumber
<1>4. CutHistory(hist) = SubSeq(hist, k + 1, n)
  BY DEF CutHistory
<1>5. k \in 0..n
  BY <1>3
<1> HIDE DEF k, K
<1> QED BY <1>4, <1>5

LEMMA ShuffledKeeps ==
    ASSUME NEW p \in Players, NEW r \in 0..(MaxEntries - 1)
    PROVE  Shuffled(p, r) \in Players
<1> DEFINE T       == 0..(MaxEntries - 1)
           cut     == IF Len(p.hist) = Count(p) THEN CutHistory(p.hist) ELSE p.hist
           rotated == IF Len(cut) >= MaxShuffleHistory THEN Tail(cut) ELSE cut
<1>1. p.hist \in Seq(T)
  BY DEF Players, Members
<1>2. cut \in Seq(T)
  BY <1>1, CutHistoryType
<1> HIDE DEF cut
<1>3. rotated \in Seq(T)
  <2>1. CASE Len(cut) >= MaxShuffleHistory
    <3>1. Len(cut) # 0
      BY <1>2, <2>1, Sizes
    <3>2. cut # <<>>
      BY <3>1
    <3> QED BY <1>2, <2>1, <3>2
  <2>2. CASE ~(Len(cut) >= MaxShuffleHistory)
    BY <1>2, <2>2
  <2> QED BY <2>1, <2>2
<1>4. Shuffled(p, r) = [p EXCEPT !.hist = Append(rotated, r)]
  BY DEF Shuffled, cut
<1> HIDE DEF rotated
<1> QED BY <1>3, <1>4, OtherHistory

(* A forced entry: its mark goes, and the index moves onto it.             *)
LEMMA PlayForcedKeeps ==
    ASSUME NEW p \in Players, NextIsForced(p), NEW file \in Files
    PROVE  LET q == PlayForced(p, file)
           IN  q \in Players /\ InRange(q) /\ OnSong(q)
<1> DEFINE k == CurrentIndex(p) + 2
           l == [p.list EXCEPT ![k].forced = FALSE]
           a == [p EXCEPT !.list = l]
           q == IncrCurrentIndex(a)
           b == [q EXCEPT !.hist = Append(@, CurrentIndex(q))]
<1>1. /\ p.list \in Seq(Entrys) /\ Len(p.list) \in 0..MaxEntries /\ p.cur \in 0..MaxCursor
      /\ DOMAIN p.list = 1..Len(p.list) /\ Distinct(p.list) /\ Count(p) = Len(p.list)
      /\ CurrentIndex(p) \in Nat
  BY ListAndCursor, CurrentIndexIsNat
<1>2. k \in 1..Len(p.list)
  BY <1>1 DEF NextIsForced
<1>3. l \in Seq(Entrys) /\ Len(l) = Len(p.list) /\ DOMAIN l = 1..Len(p.list)
      /\ \A i \in 1..Len(p.list) : l[i].id = p.list[i].id
  <2>1. [p.list[k] EXCEPT !.forced = FALSE] \in Entrys
        /\ [p.list[k] EXCEPT !.forced = FALSE].id = p.list[k].id
    <3>1. p.list[k] \in Entrys
      BY <1>1, <1>2
    <3> QED BY <3>1 DEF Entrys
  <2>2. l = [p.list EXCEPT ![k] = [p.list[k] EXCEPT !.forced = FALSE]]
    OBVIOUS
  <2> DEFINE e == [p.list[k] EXCEPT !.forced = FALSE]
  <2> HIDE DEF e, k
  <2> QED BY <2>1, <2>2, <1>1, <1>2 DEF e
<1>4. PlayForced(p, file) = PlayCurrent(b, file)
  BY DEF PlayForced
<1> HIDE DEF l, k
<1>5. Distinct(l)
  BY <1>1, <1>3 DEF Distinct
<1>6. a \in Players /\ a.list = l /\ a.list # <<>>
  <2>1. Len(l) <= MaxEntries /\ l # <<>>
    BY <1>1, <1>2, <1>3
  <2> QED BY <2>1, <1>3, <1>5, OtherList, SameButList
<1> HIDE DEF a
<1>7. q \in Players
  BY <1>6, IncrCurrentIndexKeeps
<1>8. CurrentIndex(q) \in 0..(MaxEntries - 1)
  <2>1. PICK c \in 0..MaxCursor :
           /\ q = [a EXCEPT !.cur = c]
           /\ c = IF a.cur < Len(a.list) - 1 THEN a.cur + 1 ELSE a.cur
    BY <1>6, IncrCurrentIndexKeeps
  <2>2. q.cur = c /\ q.list = l
    BY <2>1, <1>6, SameButCursor
  <2>3. a.cur = p.cur
    BY <1>3, <1>5, SameButList DEF a
  <2>4. p.cur = CurrentIndex(p) /\ p.cur < Len(p.list) - 1
    <3>1. p.list # <<>>
      BY <1>1, <1>2
    <3> QED BY <3>1, <1>1, CurrentIndexIsNat DEF NextIsForced
  <2>5. c \in 0..(MaxEntries - 1)
    BY <2>1, <2>3, <2>4, <1>1, <1>3, <1>6, Sizes
  <2> QED BY <2>2, <2>5, Sizes DEF CurrentIndex
<1> HIDE DEF q
<1>9. b \in Players
  <2>1. q.hist \in Seq(0..(MaxEntries - 1))
    BY <1>7 DEF Players, Members
  <2>2. b = [q EXCEPT !.hist = Append(q.hist, CurrentIndex(q))]
    OBVIOUS
  <2> HIDE DEF b
  <2> QED BY <2>1, <2>2, <1>7, <1>8, OtherHistory
<1> HIDE DEF b
<1> QED BY <1>4, <1>9, PlayCurrentKeeps
LEMMA NextSongKeeps ==
    ASSUME NEW p \in Players, p.cur < MaxCursor, NEW r \in 0..(MaxEntries - 1), NEW file \in Files
    PROVE  LET q == NextSong(p, r, file)
           IN  /\ q \in Players
               /\ InRange(p) => InRange(q)
               /\ OnSong(p) => OnSong(q)
<1>1. CurrentIndex(p) \in Nat /\ CurrentIndex(p) + 1 \in Nat /\ r \in Nat
  BY CurrentIndexIsNat, Sizes
<1>2. CASE p.playmode = "normal"
  <2>1. CASE CurrentIndex(p) >= Minus(Count(p), 1)
    <3>1. NextSong(p, r, file) = Stop(p, TRUE)
      BY <1>2, <2>1 DEF NextSong
    <3> QED BY <3>1, StopKeeps, HaltedIsSafe
  <2>2. CASE ~(CurrentIndex(p) >= Minus(Count(p), 1))
    <3>1. NextSong(p, r, file) = Play(p, CurrentIndex(p) + 1, file)
      BY <1>2, <2>2 DEF NextSong
    <3> QED BY <3>1, <1>1, PlayKeeps
  <2> QED BY <2>1, <2>2
<1>3. CASE p.playmode = "repeatSong"
  <2>1. NextSong(p, r, file) = PlayCurrent(p, file)
    BY <1>3 DEF NextSong
  <2> QED BY <2>1, PlayCurrentKeeps
<1>4. CASE p.playmode = "repeatList"
  <2> DEFINE s == IF CurrentIndex(p) = Minus(Count(p), 1) THEN SetCurrentIndex(p, 0)
                  ELSE IncrCurrentIndex(p)
  <2>1. NextSong(p, r, file) = PlayCurrent(s, file)
    BY <1>4 DEF NextSong
  <2>2. s \in Players
    BY SetCurrentIndexKeeps, IncrCurrentIndexKeeps
  <2> HIDE DEF s
  <2> QED BY <2>1, <2>2, PlayCurrentKeeps
<1>5. CASE p.playmode = "shuffle" /\ p.list = <<>>
  <2>1. NextSong(p, r, file) = p
    BY <1>5 DEF NextSong
  <2> QED BY <2>1
<1>6. CASE p.playmode = "shuffle" /\ p.list # <<>> /\ NextIsForced(p)
  <2>1. NextSong(p, r, file) = PlayForced(p, file)
    BY <1>6 DEF NextSong
  <2> QED BY <2>1, <1>6, PlayForcedKeeps
<1>7. CASE p.playmode = "shuffle" /\ p.list # <<>> /\ ~NextIsForced(p)
  <2>1. NextSong(p, r, file) = Play(Shuffled(p, r), r, file)
    BY <1>7, Zenon DEF NextSong
  <2> QED BY <2>1, <1>1, ShuffledKeeps, PlayKeeps
<1> QED
  <2>1. p.playmode \in {"normal", "repeatSong", "repeatList", "shuffle"}
    BY PlaymodesAssumption DEF Players, Members
  <2> QED BY <2>1, <1>2, <1>3, <1>4, <1>5, <1>6, <1>7

LEMMA PrevSongKeeps ==
    ASSUME NEW p \in Players, NEW started \in BOOLEAN, NEW file \in Files
    PROVE  LET q == PrevSong(p, started, file)
           IN  /\ q \in Players
               /\ InRange(p) => InRange(q)
               /\ OnSong(p) => OnSong(q)
<1>1. CASE started \/ p.playmode = "repeatSong"
  <2>1. PrevSong(p, started, file) = PlayCurrent(p, file)
    BY <1>1 DEF PrevSong
  <2> QED BY <2>1, PlayCurrentKeeps
<1>2. CASE ~started /\ p.playmode = "normal"
  <2>1. PrevSong(p, started, file) = PlayCurrent(DecrCurrentIndex(p), file)
    BY <1>2 DEF PrevSong
  <2> QED BY <2>1, DecrCurrentIndexKeeps, PlayCurrentKeeps
<1>3. CASE ~started /\ p.playmode = "repeatList"
  <2> DEFINE s == IF CurrentIndex(p) <= 0 THEN SetCurrentIndex(p, Minus(Count(p), 1))
                  ELSE DecrCurrentIndex(p)
  <2>1. PrevSong(p, started, file) = PlayCurrent(s, file)
    BY <1>3 DEF PrevSong
  <2>2. s \in Players
    <3>1. Minus(Count(p), 1) \in Nat
      BY MinusIsNat, ListAndCursor, Sizes
    <3> QED BY <3>1, SetCurrentIndexKeeps, DecrCurrentIndexKeeps
  <2> HIDE DEF s
  <2> QED BY <2>1, <2>2, PlayCurrentKeeps
<1>4. CASE ~started /\ p.playmode = "shuffle" /\ Len(p.hist) < 2
  <2>1. PrevSong(p, started, file) = p
    BY <1>4 DEF PrevSong
  <2> QED BY <2>1
<1>5. CASE ~started /\ p.playmode = "shuffle" /\ ~(Len(p.hist) < 2)
  <2> DEFINE h == p.hist[Len(p.hist) - 1]
  <2>1. PrevSong(p, started, file) = PlayCurrent(SetCurrentIndex(p, h), file)
    BY <1>5 DEF PrevSong
  <2>2. h \in Nat
    <3>1. p.hist \in Seq(0..(MaxEntries - 1))
      BY DEF Players, Members
    <3>2. Len(p.hist) \in Nat
      BY <3>1
    <3>3. Len(p.hist) - 1 \in 1..Len(p.hist)
      BY <3>2, <1>5
    <3>4. h \in 0..(MaxEntries - 1)
      BY <3>1, <3>3, ElementOfSeq
    <3> QED BY <3>4, Sizes
  <2> HIDE DEF h
  <2>3. SetCurrentIndex(p, h) \in Players
    BY <2>2, SetCurrentIndexKeeps
  <2> QED BY <2>1, <2>3, PlayCurrentKeeps
<1> QED
  <2>1. p.playmode \in {"normal", "repeatSong", "repeatList", "shuffle"}
    BY PlaymodesAssumption DEF Players, Members
  <2> QED BY <2>1, <1>1, <1>2, <1>3, <1>4, <1>5
-----------------------------------------------------------------------------
(* The handlers, and the specification.                                    *)

(* Another list, whose index starts over.                                  *)
LEMMA SetPlaylistKeeps ==
    ASSUME NEW p \in Players, NEW l \in Seq(Entrys), Distinct(l), Len(l) <= MaxEntries
    PROVE  /\ SetPlaylist(p, l) \in Players /\ SetPlaylist(p, l).list = l
           /\ SetPlaylist(p, l).cur = 0
<1>1. <<>> \in Seq(0..(MaxEntries - 1)) /\ 0 \in 0..MaxCursor
  BY Sizes
<1> QED BY <1>1 DEF SetPlaylist, Players, Members

LEMMA EmptyList == <<>> \in Seq(Entrys) /\ Distinct(<<>>) /\ Len(<<>>) <= MaxEntries /\ Len(<<>>) = 0
  BY Sizes DEF Distinct

(* Everything that is said of a state; the last part does not hold of      *)
(* lists whose entries are dragged.                                        *)
CursorInv == np \in Players /\ InRange(np)

LEMMA InitKeeps == Init => CursorInv /\ OnSong(np)
<1> SUFFICES ASSUME Init PROVE CursorInv /\ OnSong(np)
  OBVIOUS
<1>1. PICK k \in 0..MaxEntries, cur \in 0..(MaxEntries - 1), mode \in Playmodes :
         np = SetCurrentIndex(
                [list |-> [i \in 1..k |-> Entry(i, FALSE)], cur |-> 0, hist |-> <<>>,
                 song |-> NoSong, playing |-> FALSE, paused |-> FALSE,
                 stopping |-> FALSE, fadeOut |-> "none", restart |-> FALSE, playmode |-> mode],
                cur)
  BY DEF Init
<1> DEFINE l == [i \in 1..k |-> Entry(i, FALSE)]
           p == [list |-> l, cur |-> 0, hist |-> <<>>,
                 song |-> NoSong, playing |-> FALSE, paused |-> FALSE,
                 stopping |-> FALSE, fadeOut |-> "none", restart |-> FALSE, playmode |-> mode]
<1>2. l \in Seq(Entrys) /\ Len(l) = k /\ k \in Nat /\ k <= MaxEntries /\ DOMAIN l = 1..k
  <2>1. \A i \in 1..k : Entry(i, FALSE) \in Entrys
    BY Sizes DEF Entry, Entrys, Ids
  <2>2. k \in Nat /\ k <= MaxEntries
    BY Sizes
  <2>3. l \in [1..k -> Entrys]
    BY <2>1
  <2> HIDE DEF l
  <2>4. l \in Seq(Entrys) /\ DOMAIN l = 1..k
    BY <2>2, <2>3
  <2>5. Len(l) = k
    BY <2>2, <2>4
  <2> QED BY <2>2, <2>4, <2>5
<1>3. Distinct(l)
  BY <1>2 DEF Distinct, Entry
<1> HIDE DEF l
<1>4. <<>> \in Seq(0..(MaxEntries - 1)) /\ 0 \in 0..MaxCursor /\ cur \in Nat
  BY Sizes
<1>5. p \in Players /\ p.playing = FALSE
  BY <1>2, <1>3, <1>4 DEF Players, Members
<1>6. np = SetCurrentIndex(p, cur)
  BY <1>1 DEF l
<1> HIDE DEF p
<1>7. PICK c \in 0..MaxCursor : SetCurrentIndex(p, cur) = [p EXCEPT !.cur = c]
  BY <1>4, <1>5, SetCurrentIndexKeeps
<1>8. np \in Players
  BY <1>4, <1>5, <1>6, SetCurrentIndexKeeps
<1>9. Halted(np)
  BY <1>5, <1>6, <1>7, SameButCursor DEF SameRest, Halted
<1> QED BY <1>8, <1>9, HaltedIsSafe DEF CursorInv

(* What the play buttons, the timers and the faders do.                    *)
Keeps(p, q) ==
    /\ q \in Players
    /\ InRange(p) => InRange(q)
    /\ OnSong(p) => OnSong(q)

LEMMA SafeIsKept ==
    ASSUME NEW p, NEW q \in Players, Halted(q) \/ (q.list = p.list /\ q.cur = p.cur /\ SameRest(p, q))
    PROVE  Keeps(p, q)
<1>1. CASE Halted(q)
  BY <1>1, HaltedIsSafe DEF Keeps
<1>2. CASE q.list = p.list /\ q.cur = p.cur /\ SameRest(p, q)
  BY <1>2 DEF Keeps, InRange, OnSong, SameRest
<1> QED BY <1>1, <1>2

LEMMA PlayButtonsKeep ==
    ASSUME np \in Players, ChooseMode \/ StopSong \/ PlayPause
    PROVE  Keeps(np, np')
<1>1. CASE ChooseMode
  <2>1. PICK mode \in Playmodes : np' = [np EXCEPT !.playmode = mode]
    BY <1>1 DEF ChooseMode
  <2>2. np' \in Players
    BY <2>1 DEF Players, Members
  <2>3. InRange(np) => InRange(np')
    BY <2>1 DEF InRange, Players, Members
  <2>4. OnSong(np) => OnSong(np')
    BY <2>1 DEF OnSong, Players, Members
  <2> QED BY <2>2, <2>3, <2>4 DEF Keeps
<1>2. CASE StopSong
  BY <1>2, StopKeeps, SafeIsKept DEF StopSong
<1>3. CASE \E b \in BOOLEAN : np' = SetCrossfadeType([np EXCEPT !.paused = b])
  <2>1. PICK b \in BOOLEAN : np' = SetCrossfadeType([np EXCEPT !.paused = b])
    BY <1>3
  <2> DEFINE p == [np EXCEPT !.paused = b]
  <2>2. p \in Players
    BY DEF Players, Members
  <2>3. /\ p.list = np.list /\ p.cur = np.cur /\ p.song = np.song /\ p.playing = np.playing
        /\ p.stopping = np.stopping /\ p.restart = np.restart
    BY DEF Players, Members
  <2> HIDE DEF p
  <2>4. np' \in Players /\ np'.list = p.list /\ np'.cur = p.cur /\ SameRest(p, np')
    BY <2>1, <2>2, SetCrossfadeTypeKeeps DEF p
  <2>5. InRange(np) => InRange(np')
    BY <2>3, <2>4 DEF InRange, SameRest
  <2>6. OnSong(np) => OnSong(np')
    BY <2>3, <2>4 DEF OnSong, SameRest
  <2> QED BY <2>4, <2>5, <2>6 DEF Keeps
<1>4. CASE \E file \in Files : np' = PlayCurrent(np, file)
  BY <1>4, PlayCurrentKeeps DEF Keeps
<1>5. CASE PlayPause
  BY <1>3, <1>4, <1>5 DEF PlayPause
<1> QED BY <1>1, <1>2, <1>5

LEMMA SkipsKeep ==
    ASSUME np \in Players, GoNext \/ GoPrev
    PROVE  Keeps(np, np')
<1>1. CASE GoNext
  <2>1. PICK r \in 0..Max({0, Count(np) - 1}), file \in Files : np' = NextSong(np, r, file)
    BY <1>1 DEF GoNext
  <2>2. np.cur < MaxCursor
    BY <1>1 DEF GoNext, Bounded, CursorBounded
  <2>3. Max({0, Count(np) - 1}) \in 0..(MaxEntries - 1)
    <3> DEFINE n == Count(np) - 1
    <3>1. n \in Int /\ n <= MaxEntries - 1 /\ MaxEntries - 1 \in Nat
      BY ListAndCursor, Sizes
    <3> HIDE DEF n
    <3>2. \E x \in {0, n} : \A y \in {0, n} : x >= y
      BY <3>1
    <3>3. Max({0, n}) \in {0, n} /\ Max({0, n}) >= 0
      BY <3>2 DEF Max
    <3>4. Max({0, n}) \in 0..(MaxEntries - 1)
      BY <3>1, <3>3
    <3> QED BY <3>4 DEF n
  <2>4. r \in 0..(MaxEntries - 1)
    BY <2>3, Sizes
  <2> QED BY <2>1, <2>2, <2>4, NextSongKeeps DEF Keeps
<1>2. CASE GoPrev
  BY <1>2, PrevSongKeeps DEF GoPrev, Keeps
<1> QED BY <1>1, <1>2

(* What the user does to the list, dragging aside.                         *)
LEMMA AdditionsKeep ==
    ASSUME np \in Players, Enqueue \/ PlayAsNext
    PROVE  Keeps(np, np')
<1>1. \A k \in 1..2 : k \in Nat
  OBVIOUS
<1>2. CASE Enqueue
  <2>1. PICK k \in 1..2, play \in BOOLEAN, file \in Files :
           Room(np, k) /\ np' = AddToPlaylist(np, Entries(NewIds(np, k), FALSE), play, file)
    BY <1>2 DEF Enqueue
  <2>2. AreNew(np, Entries(NewIds(np, k), FALSE))
    BY <2>1, <1>1, NewIdsAreNew
  <2> QED BY <2>1, <2>2, AddToPlaylistKeeps DEF Keeps
<1>3. CASE PlayAsNext
  <2>1. PICK k \in 1..2, play \in BOOLEAN, file \in Files :
           Room(np, k) /\ np' = InsertToPlaylist(np, Entries(NewIds(np, k), TRUE), play, file)
    BY <1>3 DEF PlayAsNext
  <2>2. AreNew(np, Entries(NewIds(np, k), TRUE))
    BY <2>1, <1>1, NewIdsAreNew
  <2> QED BY <2>1, <2>2, InsertToPlaylistKeeps DEF Keeps
<1> QED BY <1>2, <1>3

LEMMA NewListsKeep ==
    ASSUME np \in Players, PlayReplaceList \/ ClearPlaylist
    PROVE  Keeps(np, np')
<1>1. CASE PlayReplaceList
  <2> DEFINE new == SetPlaylist(np, <<>>)
             l(k) == Entries(NewIds(new, k), FALSE)
  <2>1. PICK k \in 1..MaxEntries, n \in 0..(MaxEntries - 1), file \in Files :
           np' = Play(SetPlaylist(np, l(k)), n, file)
    BY <1>1 DEF PlayReplaceList
  <2>2. new \in Players /\ new.list = <<>>
    BY EmptyList, SetPlaylistKeeps
  <2> HIDE DEF new
  <2>3. k \in Nat /\ Room(new, k) /\ n \in Nat
    BY <2>2, EmptyList, Sizes DEF Room
  <2>4. AreNew(new, l(k)) /\ Len(l(k)) = k
    BY <2>2, <2>3, NewIdsAreNew
  <2> HIDE DEF l
  <2>5. l(k) \in Seq(Entrys) /\ Distinct(l(k)) /\ Len(l(k)) <= MaxEntries
    BY <2>4, Sizes DEF AreNew
  <2>6. SetPlaylist(np, l(k)) \in Players
    BY <2>5, SetPlaylistKeeps
  <2> QED BY <2>1, <2>3, <2>6, PlayKeeps DEF Keeps
<1>2. CASE ClearPlaylist
  <2> DEFINE p == IF StopOnClear THEN Stop(np, TRUE) ELSE np
  <2>1. p \in Players
    BY StopKeeps
  <2>2. np' = SetPlaylist(p, <<>>)
    BY <1>2 DEF ClearPlaylist
  <2> HIDE DEF p
  <2>3. np' \in Players /\ np'.list = <<>> /\ np'.cur = 0
    BY <2>1, <2>2, EmptyList, SetPlaylistKeeps
  <2>4. InRange(np') /\ OnSong(np')
    BY <2>3 DEF InRange, OnSong, IdsOf
  <2> QED BY <2>3, <2>4 DEF Keeps
<1> QED BY <1>1, <1>2

(* What the list control calls a selection is an ascending one.            *)
LEMMA SelectionsAscend ==
    ASSUME np \in Players, NEW sel \in Selections
    PROVE  Ascending(sel, Len(np.list))
<1>1. Count(np) = Len(np.list)
  BY ListAndCursor
<1> QED BY <1>1 DEF Selections, Ascending

LEMMA DeletionsKeep ==
    ASSUME np \in Players, DelSelSongs
    PROVE  Keeps(np, np')
<1>1. PICK sel \in Selections : np' = DeleteEntries(np, sel)
  BY DEF DelSelSongs
<1> QED BY <1>1, SelectionsAscend, DeleteEntriesKeeps DEF Keeps

LEMMA DragKeeps ==
    ASSUME np \in Players, Drag
    PROVE  np' \in Players /\ (InRange(np) => InRange(np'))
<1>1. PICK sel \in Selections : \E to \in Targets(sel) : np' = MoveEntrys(np, to, sel)
  BY DEF Drag
<1>2. PICK to \in Targets(sel) : np' = MoveEntrys(np, to, sel)
  BY <1>1
<1>3. to \in 0..Len(np.list)
  BY ListAndCursor, Sizes DEF Targets
<1>4. np.cur < MaxCursor
  BY DEF Drag, CursorBounded
<1> QED BY <1>2, <1>3, <1>4, SelectionsAscend, MoveEntrysKeeps

(* A restart that was asked for, and the end of a stop fade.               *)
LEMMA EventsKeep ==
    ASSUME np \in Players, OnPlayRestart \/ StopFadeEnds \/ StopFadeIsLost
    PROVE  Keeps(np, np')
<1>1. CASE OnPlayRestart
  <2>1. PICK file \in Files : np' = PlayCurrent([np EXCEPT !.restart = FALSE], file)
    BY <1>1 DEF OnPlayRestart
  <2>2. [np EXCEPT !.restart = FALSE] \in Players
    BY DEF Players, Members
  <2> QED BY <2>1, <2>2, PlayCurrentKeeps DEF Keeps
<1>2. [np EXCEPT !.fadeOut = "none"] \in Players
  BY DEF Players, Members
<1>3. CASE StopFadeEnds
  <2>1. np' = FinalizeStop([np EXCEPT !.fadeOut = "none"])
    BY <1>3 DEF StopFadeEnds
  <2>2. np' \in Players /\ Halted(np')
    BY <2>1, <1>2, FinalizeStopKeeps DEF Halted
  <2> QED BY <2>2, SafeIsKept
<1>4. CASE StopFadeIsLost
  <2>1. np' = [np EXCEPT !.fadeOut = "none"]
    BY <1>4 DEF StopFadeIsLost
  <2>2. np'.list = np.list /\ np'.cur = np.cur /\ SameRest(np, np')
    BY <2>1 DEF Players, Members, SameRest
  <2> QED BY <2>1, <2>2, <1>2, SafeIsKept
<1> QED BY <1>1, <1>3, <1>4

LEMMA StepsKeep ==
    ASSUME np \in Players, Next
    PROVE  (Drag /\ np' \in Players /\ (InRange(np) => InRange(np'))) \/ Keeps(np, np')
<1>1. CASE ChooseMode \/ StopSong \/ PlayPause
  BY <1>1, PlayButtonsKeep
<1>2. CASE GoNext \/ GoPrev
  BY <1>2, SkipsKeep
<1>3. CASE Enqueue \/ PlayAsNext
  BY <1>3, AdditionsKeep
<1>4. CASE PlayReplaceList \/ ClearPlaylist
  BY <1>4, NewListsKeep
<1>5. CASE Drag
  BY <1>5, DragKeeps
<1>6. CASE DelSelSongs
  BY <1>6, DeletionsKeep
<1>7. CASE OnPlayRestart \/ StopFadeEnds \/ StopFadeIsLost
  BY <1>7, EventsKeep
<1> QED BY <1>1, <1>2, <1>3, <1>4, <1>5, <1>6, <1>7 DEF Next

LEMMA CursorInvHolds == Spec => []CursorInv
<1>1. Init => CursorInv
  BY InitKeeps
<1>2. CursorInv /\ [Next]_vars => CursorInv'
  <2> SUFFICES ASSUME CursorInv, [Next]_vars PROVE CursorInv'
    OBVIOUS
  <2>1. CASE Next
    BY <2>1, StepsKeep DEF CursorInv, Keeps
  <2>2. CASE UNCHANGED vars
    BY <2>2 DEF CursorInv, vars
  <2> QED BY <2>1, <2>2
<1> QED BY <1>1, <1>2, PTL DEF Spec

(* The members of the player keep their types, the unsigned index never    *)
(* wraps below zero, and no entry is in the list twice, whatever is added, *)
(* inserted, dragged or deleted (MusikSongIdArray, Playlist.h:30-120; the  *)
(* handlers of CMusikPlayer and CPlaylistCtrl).                            *)
THEOREM TypeCorrect == Spec => []TypeOK
<1>1. CursorInv => TypeOK
  <2> SUFFICES ASSUME CursorInv PROVE TypeOK
    OBVIOUS
  <2>1. np \in Members
    BY DEF CursorInv, Players
  <2>2. Cardinality(IdsOf(np.list)) = Len(np.list)
    BY ListAndCursor, IdsAreFinite DEF CursorInv
  <2> QED BY <2>1, <2>2, Zenon DEF TypeOK, Members, Entrys
<1> QED BY <1>1, CursorInvHolds, PTL

(* While a song plays, and neither a stop nor a restart is under way, the  *)
(* current index is one of the list, whatever the user does to the list:   *)
(* CurrentSong reads Item(CurrentIndex()) without a check.                 *)
THEOREM CursorStaysInRange == Spec => []CursorInRange
<1>1. CursorInv => CursorInRange
  BY DEF CursorInv, InRange, CursorInRange
<1> QED BY <1>1, CursorInvHolds, PTL

(* The current index stays on the song that plays, as long as that song is *)
(* in the list.  A drag may leave the index on the neighbour of that song: *)
(* IncrCurrentIndex (Playlist.h:53) compares the index with the size of a  *)
(* list the dragged entry is missing from.                                 *)
THEOREM CursorStaysOnSong == "drag" \notin Edits => (Spec => []CursorFollowsSong)
<1> SUFFICES ASSUME "drag" \notin Edits PROVE Spec => []CursorFollowsSong
  OBVIOUS
<1> DEFINE Inv == np \in Players /\ OnSong(np)
<1>1. Init => Inv
  BY InitKeeps DEF CursorInv
<1>2. Inv /\ [Next]_vars => Inv'
  <2> SUFFICES ASSUME Inv, [Next]_vars PROVE Inv'
    OBVIOUS
  <2>1. CASE Next
    <3>1. ~Drag
      BY DEF Drag
    <3> QED BY <2>1, <3>1, StepsKeep DEF Keeps
  <2>2. CASE UNCHANGED vars
    BY <2>2 DEF vars
  <2> QED BY <2>1, <2>2
<1>3. Inv => CursorFollowsSong
  BY DEF OnSong, CursorFollowsSong
<1> QED BY <1>1, <1>2, <1>3, PTL DEF Spec

(* A drag moves the selection as one block to the place it was dropped on, *)
(* and leaves both the block and the rest in their order, although each    *)
(* pass of the loops of MoveEntrys (Playlist.cpp:8-42) shifts the entries  *)
(* that later passes look for.                                             *)
THEOREM DragsKeepOrder == Spec => []DragKeepsOrder
<1>1. CursorInv => DragKeepsOrder
  <2> SUFFICES ASSUME CursorInv, NEW sel \in Selections, NEW to \in Targets(sel)
               PROVE  Rearranged(np.list, MoveEntrys(np, to, sel).list, sel, to)
    BY DEF DragKeepsOrder
  <2>1. np \in Players
    BY DEF CursorInv
  <2>2. np \in Anywhere
    <3>1. 0..MaxCursor \subseteq Nat
      BY Sizes
    <3> QED BY <2>1, <3>1 DEF Players, Members, Anywhere
  <2>3. to \in 0..Len(np.list)
    BY <2>1, ListAndCursor, Sizes DEF Targets
  <2>4. Ascending(sel, Len(np.list))
    BY <2>1, SelectionsAscend
  <2> QED BY <2>2, <2>3, <2>4, MoveEntrysPlaces
<1> QED BY <1>1, CursorInvHolds, PTL
=============================================================================
