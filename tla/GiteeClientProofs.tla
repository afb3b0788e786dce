------------------------- MODULE GiteeClientProofs -------------------------
(***************************************************************************)
(* Proofs about the Gitee client, for any number of callers, any page size *)
(* and lists of any length: the bot has one identity, and a paged read     *)
(* misses nothing and repeats nothing unless the list moved under it in    *)
(* the one way that is bound to do so.                                     *)
(***************************************************************************)
EXTENDS GiteeClient, SequenceTheorems, TLAPS

-----------------------------------------------------------------------------
(* Lists and their pages.                                                  *)

\* The items of list s after the first o.
After(s, o) == {s[j] : j \in {k \in DOMAIN s : k > o}}

\* A page holds the next items of the list, up to PageSize of them; an empty one
\* means that there are none.
LEMMA PageFacts ==
    ASSUME NEW s \in Seq(Nat), NEW o \in Nat
    PROVE  /\ Page(s, o) \in Seq(Nat)
           /\ \A i \in DOMAIN Page(s, o) : /\ i \in 1..PageSize
                                           /\ o + i \in DOMAIN s
                                           /\ Page(s, o)[i] = s[o + i]
           /\ \A j \in DOMAIN s : \/ j <= o
                                  \/ j - o \in DOMAIN Page(s, o)
                                  \/ j > o + PageSize
           /\ Page(s, o) = <<>> => \A j \in DOMAIN s : j <= o
  <1> DEFINE L == Len(s)
             n == IF o + PageSize <= L THEN o + PageSize ELSE L
             P == SubSeq(s, o + 1, n)
             N == Len(P)
  <1>1. PageSize \in Nat /\ PageSize > 0
    BY ClientAssumption
  <1>2. L \in Nat /\ DOMAIN s = 1..L
    BY LenProperties
  <1>3. /\ Page(s, o) = P
        /\ o + PageSize <= L => n = o + PageSize
        /\ ~(o + PageSize <= L) => n = L
    BY DEF Page
  <1> HIDE DEF n, L
  <1>4. (o + PageSize <= L /\ n = o + PageSize) \/ (o + PageSize > L /\ n = L)
    BY <1>1, <1>2, <1>3
  <1>5. n \in Int /\ o + 1 \in Int /\ n <= L
    BY <1>1, <1>2, <1>4
  <1>6. \A i \in o + 1 .. n : s[i] \in Nat
    BY <1>2, <1>5, ElementOfSeq DEF L
  <1>7. /\ P \in Seq(Nat)
        /\ N = IF o + 1 <= n THEN n - (o + 1) + 1 ELSE 0
        /\ \A i \in 1 .. n - (o + 1) + 1 : P[i] = s[o + 1 + i - 1]
    BY <1>5, <1>6, SubSeqProperties
  <1>8. N \in Nat /\ DOMAIN P = 1 .. N
    BY <1>7, LenProperties
  <1>9. P = <<>> => N = 0
    BY <1>7, EmptySeq
  <1>10. (o + 1 <= n /\ N = n - o) \/ (n <= o /\ N = 0)
    BY <1>5, <1>7
  <1> HIDE DEF N
  <1>11. ASSUME NEW i \in 1 .. N
         PROVE  i \in 1..PageSize /\ o + i \in 1 .. L /\ P[i] = s[o + i]
    <2>1. i \in 1 .. n - (o + 1) + 1 /\ o + 1 + i - 1 = o + i
      BY <1>5, <1>8, <1>10
    <2>2. P[i] = s[o + i]
      BY <1>7, <2>1
    <2>3. i \in 1 .. PageSize /\ o + i \in 1 .. L
      BY <1>1, <1>2, <1>4, <1>5, <2>1
    <2>4. QED  BY <2>2, <2>3
  <1>12. ASSUME NEW j \in 1 .. L
         PROVE  j <= o \/ j - o \in 1 .. N \/ j > o + PageSize
    BY <1>1, <1>2, <1>4, <1>5, <1>10
  <1>13. ASSUME P = <<>>, NEW j \in 1 .. L
         PROVE  j <= o
    BY <1>1, <1>2, <1>4, <1>5, <1>9, <1>10, <1>13
  <1>14. QED  BY <1>2, <1>3, <1>7, <1>8, <1>11, <1>12, <1>13

\* The rest of a list is its next page and the rest after that; when the page is
\* empty there is no rest.
LEMMA PageSplits ==
    ASSUME NEW s \in Seq(Nat), NEW o \in Nat
    PROVE  /\ After(s, o) = Elements(Page(s, o)) \union After(s, o + PageSize)
           /\ Page(s, o) = <<>> => After(s, o) = {}
  <1>1. PageSize \in Nat /\ DOMAIN s \subseteq Nat
    BY ClientAssumption, LenProperties
  <1>2. After(s, o) \subseteq Elements(Page(s, o)) \union After(s, o + PageSize)
    <2> SUFFICES ASSUME NEW j \in DOMAIN s, j > o
                 PROVE  s[j] \in Elements(Page(s, o)) \/ j > o + PageSize
      BY DEF After
    <2>1. j - o \in DOMAIN Page(s, o) \/ j > o + PageSize
      BY <1>1, PageFacts
    <2>2. o + (j - o) = j
      BY <1>1
    <2>3. j - o \in DOMAIN Page(s, o) => Page(s, o)[j - o] = s[j]
      BY <2>2, PageFacts
    <2>4. QED  BY <2>1, <2>3 DEF Elements
  <1>3. Elements(Page(s, o)) \subseteq After(s, o)
    <2> SUFFICES ASSUME NEW i \in DOMAIN Page(s, o)
                 PROVE  Page(s, o)[i] \in After(s, o)
      BY DEF Elements
    <2>1. i \in 1..PageSize /\ o + i \in DOMAIN s /\ Page(s, o)[i] = s[o + i]
      BY PageFacts
    <2>2. o + i > o
      BY <1>1, <2>1
    <2>3. QED  BY <2>1, <2>2 DEF After
  <1>4. After(s, o + PageSize) \subseteq After(s, o)
    BY <1>1 DEF After
  <1>5. ASSUME Page(s, o) = <<>> PROVE After(s, o) = {}
    <2>1. \A j \in DOMAIN s : ~(j > o)
      BY <1>1, <1>5, PageFacts
    <2>2. QED  BY <2>1 DEF After
  <1>6. QED  BY <1>2, <1>3, <1>4, <1>5

\* In a list without repetition a page has none, and nothing of it comes again.
LEMMA PageInjective ==
    ASSUME NEW s \in Seq(Nat), NEW o \in Nat, IsInjective(s)
    PROVE  /\ IsInjective(Page(s, o))
           /\ Elements(Page(s, o)) \intersect After(s, o + PageSize) = {}
  <1>1. PageSize \in Nat /\ DOMAIN s \subseteq Nat
    BY ClientAssumption, LenProperties
  <1>2. \A i \in DOMAIN Page(s, o) : /\ i \in 1..PageSize
                                     /\ o + i \in DOMAIN s
                                     /\ Page(s, o)[i] = s[o + i]
    BY PageFacts
  <1>3. IsInjective(Page(s, o))
    <2> SUFFICES ASSUME NEW i \in DOMAIN Page(s, o), NEW j \in DOMAIN Page(s, o),
                        Page(s, o)[i] = Page(s, o)[j]
                 PROVE  i = j
      BY DEF IsInjective
    <2>1. o + i = o + j
      BY <1>2 DEF IsInjective
    <2>2. i \in Int /\ j \in Int
      BY <1>2
    <2>3. QED  BY <2>1, <2>2
  <1>4. ASSUME NEW i \in DOMAIN Page(s, o), NEW j \in DOMAIN s, j > o + PageSize
        PROVE  Page(s, o)[i] # s[j]
    <2>1. o + i # j
      BY <1>1, <1>2, <1>4
    <2>2. QED  BY <1>2, <2>1 DEF IsInjective
  <1>5. QED  BY <1>3, <1>4 DEF Elements, After

\* Two lists that have nothing in common, one behind the other.
LEMMA ConcatFacts ==
    ASSUME NEW s \in Seq(Nat), NEW t \in Seq(Nat)
    PROVE  /\ s \o t \in Seq(Nat)
           /\ Elements(s \o t) = Elements(s) \union Elements(t)
           /\ IsInjective(s) /\ IsInjective(t) /\ Elements(s) \intersect Elements(t) = {}
                => IsInjective(s \o t)
  <1>1. /\ Len(s) \in Nat /\ DOMAIN s = 1..Len(s)
        /\ Len(t) \in Nat /\ DOMAIN t = 1..Len(t)
    BY LenProperties
  <1>2. /\ s \o t \in Seq(Nat)
        /\ Len(s \o t) = Len(s) + Len(t)
        /\ \A i \in 1 .. Len(s) + Len(t) :
              (s \o t)[i] = IF i <= Len(s) THEN s[i] ELSE t[i - Len(s)]
    BY ConcatProperties
  <1>3. DOMAIN (s \o t) = 1 .. Len(s) + Len(t)
    BY <1>2, LenProperties
  <1>4. ASSUME NEW i \in DOMAIN (s \o t)
        PROVE  \/ i \in DOMAIN s /\ (s \o t)[i] = s[i]
               \/ i - Len(s) \in DOMAIN t /\ i > Len(s) /\ (s \o t)[i] = t[i - Len(s)]
    BY <1>1, <1>2, <1>3
  <1>5. ASSUME NEW i \in DOMAIN s PROVE i \in DOMAIN (s \o t) /\ (s \o t)[i] = s[i]
    BY <1>1, <1>2, <1>3
  <1>6. ASSUME NEW i \in DOMAIN t
        PROVE  i + Len(s) \in DOMAIN (s \o t) /\ (s \o t)[i + Len(s)] = t[i]
    BY <1>1, <1>2, <1>3
  <1>7. Elements(s \o t) = Elements(s) \union Elements(t)
    <2>1. Elements(s \o t) \subseteq Elements(s) \union Elements(t)
      BY <1>4 DEF Elements
    <2>2. Elements(s) \subseteq Elements(s \o t)
      BY <1>5 DEF Elements
    <2>3. Elements(t) \subseteq Elements(s \o t)
      BY <1>6 DEF Elements
    <2>4. QED  BY <2>1, <2>2, <2>3
  <1>8. ASSUME IsInjective(s), IsInjective(t), Elements(s) \intersect Elements(t) = {}
        PROVE  IsInjective(s \o t)
    <2> SUFFICES ASSUME NEW i \in DOMAIN (s \o t), NEW j \in DOMAIN (s \o t),
                        (s \o t)[i] = (s \o t)[j]
                 PROVE  i = j
      BY DEF IsInjective
    <2>1. i \in Int /\ j \in Int
      BY <1>1, <1>3
    <2>2. CASE i \in DOMAIN s /\ (s \o t)[i] = s[i]
      <3>1. j \in DOMAIN s /\ (s \o t)[j] = s[j]
        BY <1>4, <1>8, <2>2 DEF Elements
      <3>2. QED  BY <1>8, <2>2, <3>1 DEF IsInjective
    <2>3. CASE i - Len(s) \in DOMAIN t /\ i > Len(s) /\ (s \o t)[i] = t[i - Len(s)]
      <3>1. j - Len(s) \in DOMAIN t /\ (s \o t)[j] = t[j - Len(s)]
        BY <1>4, <1>8, <2>3 DEF Elements
      <3>2. i - Len(s) = j - Len(s)
        BY <1>8, <2>3, <3>1 DEF IsInjective
      <3>3. QED  BY <1>1, <2>1, <3>2
    <2>4. QED  BY <1>4, <2>2, <2>3
  <1>9. QED  BY <1>2, <1>7, <1>8

\* An item at the end comes after all others.
LEMMA AppendFacts ==
    ASSUME NEW s \in Seq(Nat), NEW e \in Nat, NEW o \in Nat
    PROVE  /\ Append(s, e) \in Seq(Nat)
           /\ Elements(Append(s, e)) = Elements(s) \union {e}
           /\ After(s, o) \subseteq After(Append(s, e), o)
           /\ After(Append(s, e), o) \subseteq After(s, o) \union {e}
           /\ IsInjective(s) /\ e \notin Elements(s) => IsInjective(Append(s, e))
  <1>1. Len(s) \in Nat /\ DOMAIN s = 1..Len(s)
    BY LenProperties
  <1>2. /\ Append(s, e) \in Seq(Nat)
        /\ Len(Append(s, e)) = Len(s) + 1
        /\ \A i \in 1..Len(s) : Append(s, e)[i] = s[i]
        /\ Append(s, e)[Len(s) + 1] = e
    BY AppendProperties
  <1>3. DOMAIN Append(s, e) = 1..Len(s) + 1
    BY <1>2, LenProperties
  <1>4. ASSUME NEW i \in DOMAIN Append(s, e)
        PROVE  \/ i \in DOMAIN s /\ Append(s, e)[i] = s[i]
               \/ i = Len(s) + 1 /\ Append(s, e)[i] = e
    BY <1>1, <1>2, <1>3
  <1>5. ASSUME NEW i \in DOMAIN s
        PROVE  i \in DOMAIN Append(s, e) /\ Append(s, e)[i] = s[i]
    BY <1>1, <1>2, <1>3
  <1>6. Elements(Append(s, e)) = Elements(s) \union {e}
    <2>1. e \in Elements(Append(s, e))
      BY <1>1, <1>2, <1>3 DEF Elements
    <2>2. Elements(s) \subseteq Elements(Append(s, e))
      BY <1>5 DEF Elements
    <2>3. Elements(Append(s, e)) \subseteq Elements(s) \union {e}
      BY <1>4 DEF Elements
    <2>4. QED  BY <2>1, <2>2, <2>3
  <1>7. After(s, o) \subseteq After(Append(s, e), o)
    BY <1>5 DEF After
  <1>8. After(Append(s, e), o) \subseteq After(s, o) \union {e}
    BY <1>4 DEF After
  <1>9. IsInjective(s) /\ e \notin Elements(s) => IsInjective(Append(s, e))
    BY <1>4 DEF IsInjective, Elements
  <1>10. QED  BY <1>2, <1>6, <1>7, <1>8, <1>9

\* An item at the front moves all others one place on.
LEMMA FrontFacts ==
    ASSUME NEW s \in Seq(Nat), NEW e \in Nat, NEW o \in Nat
    PROVE  /\ <<e>> \o s \in Seq(Nat)
           /\ Elements(<<e>> \o s) = {e} \union Elements(s)
           /\ After(s, o) \subseteq After(<<e>> \o s, o)
           /\ IsInjective(s) /\ e \notin Elements(s) => IsInjective(<<e>> \o s)
  <1>1. Len(s) \in Nat /\ DOMAIN s = 1..Len(s)
    BY LenProperties
  <1>2. <<e>> \in Seq(Nat) /\ Len(<<e>>) = 1 /\ DOMAIN <<e>> = {1} /\ <<e>>[1] = e
    OBVIOUS
  <1>3. Elements(<<e>>) = {e} /\ IsInjective(<<e>>)
    BY <1>2 DEF Elements, IsInjective
  <1>4. ASSUME NEW i \in DOMAIN s
        PROVE  i + 1 \in DOMAIN (<<e>> \o s) /\ (<<e>> \o s)[i + 1] = s[i]
    <2>1. /\ <<e>> \o s \in Seq(Nat)
          /\ Len(<<e>> \o s) = 1 + Len(s)
          /\ (<<e>> \o s)[i + 1] = IF i + 1 <= 1 THEN <<e>>[i + 1] ELSE s[i + 1 - 1]
      BY <1>1, <1>2, ConcatProperties
    <2>2. i + 1 \in 1..1 + Len(s) /\ ~(i + 1 <= 1) /\ i + 1 - 1 = i
      BY <1>1
    <2>3. DOMAIN (<<e>> \o s) = 1..1 + Len(s)
      BY <2>1, LenProperties
    <2>4. QED  BY <2>1, <2>2, <2>3
  <1>5. After(s, o) \subseteq After(<<e>> \o s, o)
    <2> SUFFICES ASSUME NEW j \in DOMAIN s, j > o
                 PROVE  s[j] \in After(<<e>> \o s, o)
      BY DEF After
    <2>1. j + 1 > o
      BY <1>1
    <2>2. QED  BY <1>4, <2>1 DEF After
  <1>6. QED  BY <1>2, <1>3, <1>5, ConcatFacts

\* A removal brings the items behind it one place forward.
LEMMA RemoveFacts ==
    ASSUME NEW s \in Seq(Nat), NEW i \in DOMAIN s, NEW o \in Nat
    PROVE  /\ RemoveAt(s, i) \in Seq(Nat)
           /\ Elements(RemoveAt(s, i)) \subseteq Elements(s)
           /\ After(RemoveAt(s, i), o) \subseteq After(s, o)
           /\ IsInjective(s) => IsInjective(RemoveAt(s, i))
  <1> DEFINE L == Len(s)
             A == SubSeq(s, 1, i - 1)
             B == SubSeq(s, i + 1, L)
             R == RemoveAt(s, i)
  <1>1. L \in Nat /\ DOMAIN s = 1..L /\ i \in 1..L
    BY LenProperties
  <1>2. R = A \o B
    BY DEF RemoveAt
  <1> HIDE DEF L, R
  <1>3. \A k \in 1..L : s[k] \in Nat
    BY <1>1, ElementOfSeq DEF L
  <1>4. /\ A \in Seq(Nat)
        /\ Len(A) = i - 1
        /\ \A k \in 1 .. i - 1 : A[k] = s[k]
    <2>1. \A k \in 1 .. i - 1 : s[k] \in Nat
      BY <1>1, <1>3
    <2>2. 1 \in Int /\ i - 1 \in Int
      BY <1>1
    <2>3. /\ A \in Seq(Nat)
          /\ Len(A) = IF 1 <= i - 1 THEN i - 1 - 1 + 1 ELSE 0
          /\ \A k \in 1 .. i - 1 - 1 + 1 : A[k] = s[1 + k - 1]
      BY <2>1, <2>2, SubSeqProperties
    <2>4. /\ 1 <= i - 1 \/ i - 1 = 0
          /\ i - 1 - 1 + 1 = i - 1
          /\ \A k \in 1 .. i - 1 : 1 + k - 1 = k
      BY <1>1
    <2>5. QED  BY <1>1, <2>3, <2>4
  <1>5. /\ B \in Seq(Nat)
        /\ Len(B) = L - i
        /\ \A k \in 1 .. L - i : B[k] = s[i + k]
    <2>1. \A k \in i + 1 .. L : s[k] \in Nat
      BY <1>1, <1>3
    <2>2. i + 1 \in Int /\ L \in Int
      BY <1>1
    <2>3. /\ B \in Seq(Nat)
          /\ Len(B) = IF i + 1 <= L THEN L - (i + 1) + 1 ELSE 0
          /\ \A k \in 1 .. L - (i + 1) + 1 : B[k] = s[i + 1 + k - 1]
      BY <2>1, <2>2, SubSeqProperties
    <2>4. /\ i + 1 <= L \/ L - i = 0
          /\ L - (i + 1) + 1 = L - i
          /\ \A k \in 1 .. L - i : i + 1 + k - 1 = i + k
      BY <1>1
    <2>5. QED  BY <1>1, <2>3, <2>4
  <1> HIDE DEF A, B
  <1>6. /\ R \in Seq(Nat)
        /\ Len(R) = Len(A) + Len(B)
        /\ \A k \in 1 .. Len(A) + Len(B) :
              R[k] = IF k <= Len(A) THEN A[k] ELSE B[k - Len(A)]
    BY <1>2, <1>4, <1>5, ConcatProperties
  <1>7. DOMAIN R = 1 .. L - 1
    <2>1. Len(R) = L - 1
      BY <1>1, <1>4, <1>5, <1>6
    <2>2. QED  BY <1>6, <2>1, LenProperties
  \* Where the item at k was before.
  <1> DEFINE was(k) == IF k < i THEN k ELSE k + 1
  <1>8. ASSUME NEW k \in DOMAIN R
        PROVE  was(k) \in DOMAIN s /\ R[k] = s[was(k)]
    <2>1. k \in 1 .. Len(A) + Len(B)
      BY <1>1, <1>4, <1>5, <1>7
    <2>2. CASE k < i
      <3>1. k \in 1 .. i - 1 /\ k <= Len(A) /\ k \in DOMAIN s
        BY <1>1, <1>4, <1>7, <2>2
      <3>2. R[k] = A[k]
        BY <1>6, <2>1, <3>1
      <3>3. QED  BY <1>4, <2>2, <3>1, <3>2
    <2>3. CASE ~(k < i)
      <3>1. ~(k <= Len(A)) /\ k - Len(A) \in 1 .. L - i /\ i + (k - Len(A)) = k + 1
        BY <1>1, <1>4, <1>7, <2>3
      <3>2. R[k] = B[k - Len(A)]
        BY <1>6, <2>1, <3>1
      <3>3. R[k] = s[k + 1]
        BY <1>5, <3>1, <3>2
      <3>4. k + 1 \in DOMAIN s
        BY <1>1, <1>7, <2>3
      <3>5. QED  BY <2>3, <3>3, <3>4
    <2>4. QED  BY <2>2, <2>3
  <1>9. \A k \in DOMAIN R : was(k) >= k
    BY <1>1, <1>7
  <1>10. \A k, l \in DOMAIN R : was(k) = was(l) => k = l
    BY <1>1, <1>7
  <1> HIDE DEF was
  <1>11. Elements(R) \subseteq Elements(s)
    BY <1>8 DEF Elements
  <1>12. After(R, o) \subseteq After(s, o)
    <2> SUFFICES ASSUME NEW k \in DOMAIN R, k > o
                 PROVE  R[k] \in After(s, o)
      BY DEF After
    <2>1. was(k) \in Nat /\ k \in Nat
      BY <1>1, <1>7, <1>8
    <2>2. was(k) > o
      BY <1>9, <2>1
    <2>3. QED  BY <1>8, <2>2 DEF After
  <1>13. IsInjective(s) => IsInjective(R)
    BY <1>8, <1>10 DEF IsInjective
  <1>14. QED  BY <1>6, <1>11, <1>12, <1>13 DEF R

-----------------------------------------------------------------------------
(* Type correctness.                                                       *)

\* What the tables of the calls say.
LEMMA CallFacts ==
    /\ DOMAIN Reads = {"GetPullRequests", "GetPRLabels", "ListPRComments",
                       "ListPrIssues", "GetRepos"}
    /\ \A op \in DOMAIN Reads : Reads[op] \in Collection
    /\ DOMAIN Reads \subseteq Call
    /\ "BotName" \notin DOMAIN Reads
    /\ {"pulls", "labels", "comments"} \subseteq Collection
  BY DEF Reads, Collection, Call

\* The steps that read or fill the cache.
UserStep ==
    \/ Rename
    \/ \E c \in Caller : \/ CheckUser(c) \/ Lock(c) \/ Recheck(c)
                         \/ FetchUser(c) \/ UseName(c)

ReadStep == \E c \in Caller, op \in DOMAIN Reads : ReadPage(c, op)

\* The steps by which list x changes: a call or a change by others.  No reader's
\* call moves with it.
ListStep(x) ==
    /\ AddTo(x) \/ TakeFrom(x)
    /\ \A c \in Caller : \/ pc'[c] = pc[c]
                         \/ /\ call[c] \notin DOMAIN Reads \union {"BotName"}
                            /\ pc'[c] \in {"done", "failed"}
    /\ pc' \in [Caller -> {"called", "locking", "locked", "fetching", "using",
                           "reading", "done", "failed"}]
    /\ changes' \in Nat
    /\ UNCHANGED <<call, userVars, readVars>>

\* A write that leaves the lists as they are: it fails, or edits an item.
FailStep ==
    /\ \E c \in Caller : /\ call[c] \notin DOMAIN Reads \union {"BotName"}
                         /\ \E l \in {"done", "failed"} : Goto(c, l)
    /\ UNCHANGED <<call, userVars, listVars, readVars>>

\* Every step is of one of these four kinds.
LEMMA StepKinds ==
    ASSUME TypeOK, Next
    PROVE  UserStep \/ ReadStep \/ FailStep \/ \E x \in Collection : ListStep(x)
  <1>1. CASE Rename
    BY <1>1 DEF UserStep
  <1>2. CASE OthersChange
    <2>1. PICK x \in Collection : AddTo(x) \/ TakeFrom(x)
      BY <1>2 DEF OthersChange
    <2>2. UNCHANGED <<call, pc, userVars, readVars>> /\ changes' \in Nat
      BY <1>2 DEF OthersChange, TypeOK
    <2>3. ListStep(x)
      BY <2>1, <2>2 DEF ListStep, TypeOK
    <2>4. QED  BY <2>3
  <1>3. ASSUME NEW c \in Caller, Step(c)
        PROVE  UserStep \/ ReadStep \/ FailStep \/ \E x \in Collection : ListStep(x)
    <2>1. CASE CheckUser(c) \/ Lock(c) \/ Recheck(c) \/ FetchUser(c) \/ UseName(c)
      BY <2>1 DEF UserStep
    <2>2. CASE \/ GetPullRequests(c) \/ GetPRLabels(c) \/ ListPRComments(c)
               \/ ListPrIssues(c) \/ GetRepos(c)
      BY <2>2, CallFacts DEF ReadStep, GetPullRequests, GetPRLabels, ListPRComments,
         ListPrIssues, GetRepos
    <2>3. ASSUME NEW op \in {"CreatePullRequest", "AddPRLabel", "CreatePRComment",
                             "UpdatePullRequest", "RemovePRLabel", "DeletePRComment"},
                 NEW x \in Collection,
                 \/ Write(c, op, AddTo(x)) \/ Write(c, op, TakeFrom(x))
                 \/ Write(c, op, TakeFrom(x) \/ UNCHANGED <<items, fresh, during>>)
          PROVE  FailStep \/ ListStep(x)
      <3>1. /\ call[c] \notin DOMAIN Reads \union {"BotName"}
            /\ UNCHANGED <<call, userVars, changes, readVars>>
        BY <2>3, CallFacts DEF Write
      <3>2. /\ \/ AddTo(x) \/ TakeFrom(x)
               \/ UNCHANGED <<items, fresh, during>>
            /\ \E l \in {"done", "failed"} : Goto(c, l)
        BY <2>3 DEF Write
      <3>3. CASE UNCHANGED <<items, fresh, during>>
        BY <3>1, <3>2, <3>3 DEF FailStep, listVars
      <3>4. CASE AddTo(x) \/ TakeFrom(x)
        BY <3>1, <3>2, <3>4 DEF ListStep, Goto, TypeOK
      <3>5. QED  BY <3>2, <3>3, <3>4
    <2>4. CASE \/ CreatePullRequest(c) \/ AddPRLabel(c) \/ CreatePRComment(c)
               \/ UpdatePullRequest(c) \/ RemovePRLabel(c) \/ DeletePRComment(c)
      BY <2>3, <2>4, CallFacts DEF CreatePullRequest, AddPRLabel, CreatePRComment,
         UpdatePullRequest, RemovePRLabel, DeletePRComment
    <2>5. QED  BY <1>3, <2>1, <2>2, <2>4 DEF Step
  <1>4. QED  BY <1>1, <1>2, <1>3 DEF Next

LEMMA TypeInit == Init => TypeOK
  <1> SUFFICES ASSUME Init PROVE TypeOK
    OBVIOUS
  <1>1. items \in [Collection -> Seq(Nat)]
    <2>1. PICK n \in 0..MaxItems : items = [x \in Collection |-> [i \in 1..n |-> i]]
      BY DEF Init
    <2>2. [i \in 1..n |-> i] \in [1..n -> Nat] /\ n \in Nat
      BY ClientAssumption
    <2>3. [i \in 1..n |-> i] \in Seq(Nat)
      BY <2>2, SeqDef
    <2>4. QED  BY <2>1, <2>3
  <1>2. QED  BY <1>1, ClientAssumption DEF Init, TypeOK, Nil

\* A change of a list leaves lists of items.
LEMMA ListTypes ==
    ASSUME TypeOK, NEW x \in Collection, AddTo(x) \/ TakeFrom(x)
    PROVE  /\ items' \in [Collection -> Seq(Nat)]
           /\ fresh' \in Nat
           /\ during' \in [Caller -> SUBSET {"removed", "shifted"}]
  <1>1. items[x] \in Seq(Nat) /\ fresh \in Nat
    BY DEF TypeOK
  <1>2. CASE AddTo(x)
    <2>1. <<fresh>> \o items[x] \in Seq(Nat) /\ Append(items[x], fresh) \in Seq(Nat)
      BY <1>1, AppendFacts, FrontFacts
    <2>2. items' \in [Collection -> Seq(Nat)]
      <3>1. CASE x \in NewestFirst
        BY <1>2, <2>1, <3>1 DEF AddTo, TypeOK
      <3>2. CASE x \notin NewestFirst
        BY <1>2, <2>1, <3>2 DEF AddTo, TypeOK
      <3>3. QED  BY <3>1, <3>2
    <2>3. during' \in [Caller -> SUBSET {"removed", "shifted"}]
      <3>1. CASE Disturb(x, "shifted")
        BY <3>1 DEF Disturb, TypeOK
      <3>2. CASE UNCHANGED during
        BY <3>2 DEF TypeOK
      <3>3. QED  BY <1>2, <3>1, <3>2 DEF AddTo
    <2>4. QED  BY <1>1, <1>2, <2>2, <2>3 DEF AddTo
  <1>3. CASE TakeFrom(x)
    <2>1. \A i \in DOMAIN items[x] : RemoveAt(items[x], i) \in Seq(Nat)
      BY <1>1, RemoveFacts
    <2>2. QED  BY <1>3, <2>1 DEF TakeFrom, Disturb, TypeOK
  <1>4. QED  BY <1>2, <1>3

LEMMA TypeStep == TypeOK /\ [Next]_vars => TypeOK'
  <1> SUFFICES ASSUME TypeOK, [Next]_vars PROVE TypeOK'
    OBVIOUS
  <1>1. CASE UserStep
    <2>1. CASE Rename
      BY <2>1 DEF Rename, TypeOK, readVars, Nil
    <2>2. ASSUME NEW c \in Caller,
                 \/ CheckUser(c) \/ Lock(c) \/ Recheck(c) \/ FetchUser(c) \/ UseName(c)
          PROVE  TypeOK'
      <3>1. CASE CheckUser(c)
        BY <3>1 DEF CheckUser, TypeOK, Goto, userVars, listVars, readVars
      <3>2. CASE Lock(c)
        BY <3>2 DEF Lock, TypeOK, Goto, listVars, readVars
      <3>3. CASE Recheck(c)
        BY <3>3 DEF Recheck, TypeOK, Goto, listVars, readVars
      <3>4. CASE FetchUser(c)
        BY <3>4 DEF FetchUser, TypeOK, Goto, listVars, readVars
      <3>5. CASE UseName(c)
        BY <3>5 DEF UseName, TypeOK, Goto, listVars, readVars, Nil
      <3>6. QED  BY <2>2, <3>1, <3>2, <3>3, <3>4, <3>5
    <2>3. QED  BY <1>1, <2>1, <2>2 DEF UserStep
  <1>2. CASE ReadStep
    <2>1. PICK c \in Caller, op \in DOMAIN Reads : ReadPage(c, op)
      BY <1>2 DEF ReadStep
    <2>2. items[Reads[op]] \in Seq(Nat) /\ offset[c] \in Nat /\ got[c] \in Seq(Nat)
      BY CallFacts DEF TypeOK
    <2> DEFINE page == Page(items[Reads[op]], offset[c])
    <2>3. got[c] \o page \in Seq(Nat) /\ <<>> \in Seq(Nat)
      <3>1. page \in Seq(Nat)
        BY <2>2, PageFacts
      <3>2. QED  BY <2>2, <3>1, ConcatProperties
    <2>4. NextOffset(c) \in Nat
      BY <2>2, ClientAssumption DEF NextOffset
    <2>5. /\ start' = IF At(c, "called") THEN [start EXCEPT ![c] = items[Reads[op]]]
                                         ELSE start
          /\ \/ got' = [got EXCEPT ![c] = @ \o page]
             \/ got' = [got EXCEPT ![c] = <<>>]
             \/ got' = got
          /\ offset' = offset \/ offset' = [offset EXCEPT ![c] = NextOffset(c)]
          /\ \E l \in {"reading", "done", "failed"} : Goto(c, l)
          /\ UNCHANGED <<call, userVars, listVars>>
      BY <2>1 DEF ReadPage
    <2> HIDE DEF page
    <2>6. start' \in [Caller -> Seq(Nat)]
      <3>1. CASE At(c, "called")   BY <2>2, <2>5, <3>1 DEF TypeOK
      <3>2. CASE ~At(c, "called")  BY <2>5, <3>2 DEF TypeOK
      <3>3. QED  BY <3>1, <3>2
    <2>7. got' \in [Caller -> Seq(Nat)]
      <3>1. got \in [Caller -> Seq(Nat)]
        BY DEF TypeOK
      <3>2. CASE got' = [got EXCEPT ![c] = @ \o page]
        BY <2>3, <3>1, <3>2
      <3>3. CASE got' = [got EXCEPT ![c] = <<>>]
        BY <2>3, <3>1, <3>3
      <3>4. QED  BY <2>5, <3>1, <3>2, <3>3
    <2>8. offset' \in [Caller -> Nat]
      BY <2>4, <2>5 DEF TypeOK
    <2>9. QED  BY <2>5, <2>6, <2>7, <2>8 DEF TypeOK, Goto, userVars, listVars
  <1>3. CASE FailStep
    BY <1>3 DEF FailStep, TypeOK, Goto, userVars, listVars, readVars
  <1>4. ASSUME NEW x \in Collection, ListStep(x) PROVE TypeOK'
    BY <1>4, ListTypes DEF ListStep, TypeOK, userVars, readVars
  <1>5. CASE UNCHANGED vars
    BY <1>5 DEF TypeOK, vars, userVars, listVars, readVars
  <1>6. QED  BY <1>1, <1>2, <1>3, <1>4, <1>5, StepKinds

\* Every variable of the client keeps its type in every behaviour.
THEOREM TypeCorrect == Spec => []TypeOK
  <1>1. QED  BY TypeInit, TypeStep, PTL DEF Spec

-----------------------------------------------------------------------------
(* The bot has one identity.                                               *)

\* The inductive invariant.  A caller fetches only while it holds the mutex and
\* the cache is empty, so that the cache is filled once.
HolderIsAlone == \A c \in Caller : pc[c] \in {"locked", "fetching"} => mut = c
FetchIsNeeded == \A c \in Caller : At(c, "fetching") => userData = Nil
UseIsFilled   == \A c \in Caller : At(c, "using") => userData # Nil
AnswerIsCached ==
    \A c \in Caller : Answered(c) => name[c] = userData /\ userData # Nil

IdentityInv == HolderIsAlone /\ FetchIsNeeded /\ UseIsFilled /\ AnswerIsCached

LEMMA IdentityInit == Init => IdentityInv
  BY DEF Init, IdentityInv, HolderIsAlone, FetchIsNeeded, UseIsFilled, AnswerIsCached,
         At, Answered

LEMMA IdentityStep ==
    ASSUME TypeOK, IdentityInv, [Next]_vars, PublishesWhole
    PROVE  IdentityInv'
  <1>1. CASE Rename
    BY <1>1 DEF Rename, IdentityInv, HolderIsAlone, FetchIsNeeded, UseIsFilled,
       AnswerIsCached, At, Answered
  <1>2. ASSUME NEW c \in Caller, CheckUser(c) PROVE IdentityInv'
    <2>1. /\ c \in Caller /\ pc \in [Caller -> {"called", "locking", "locked", "fetching",
                                  "using", "reading", "done", "failed"}]
          /\ pc' = [pc EXCEPT ![c] = IF userData = Nil THEN "locking" ELSE "using"]
          /\ UNCHANGED <<call, userData, mut, name>>
      BY <1>2 DEF CheckUser, TypeOK, Goto, userVars
    <2>2. QED
      BY <2>1 DEF IdentityInv, HolderIsAlone, FetchIsNeeded, UseIsFilled, AnswerIsCached,
         At, Answered
  <1>3. ASSUME NEW c \in Caller, Lock(c) PROVE IdentityInv'
    BY <1>3, FreeIsNoCaller DEF Lock, TypeOK, Goto, IdentityInv, HolderIsAlone,
       FetchIsNeeded, UseIsFilled, AnswerIsCached, At, Answered
  <1>4. ASSUME NEW c \in Caller, Recheck(c) PROVE IdentityInv'
    BY <1>4 DEF Recheck, TypeOK, Goto, IdentityInv, HolderIsAlone, FetchIsNeeded,
       UseIsFilled, AnswerIsCached, At, Answered
  <1>5. ASSUME NEW c \in Caller, FetchUser(c) PROVE IdentityInv'
    <2>1. /\ userData = Nil /\ account # Nil
          /\ \A d \in Caller : d # c => pc[d] \notin {"locked", "fetching"}
          /\ \A d \in Caller : ~Answered(d) /\ ~At(d, "using")
      BY <1>5 DEF FetchUser, TypeOK, IdentityInv, HolderIsAlone, FetchIsNeeded,
         UseIsFilled, AnswerIsCached, At
    <2>2. \/ pc' = [pc EXCEPT ![c] = "using"] /\ userData' = account
          \/ pc' = [pc EXCEPT ![c] = "failed"] /\ userData' = userData
      BY <1>5 DEF FetchUser, Goto
    <2>3. UNCHANGED <<call, name>>
      BY <1>5 DEF FetchUser
    <2>4. QED
      BY <2>1, <2>2, <2>3 DEF TypeOK, IdentityInv, HolderIsAlone, FetchIsNeeded,
         UseIsFilled, AnswerIsCached, At, Answered
  <1>6. ASSUME NEW c \in Caller, UseName(c) PROVE IdentityInv'
    <2>1. name' = [name EXCEPT ![c] = userData] /\ userData # Nil
      BY <1>6 DEF UseName, IdentityInv, UseIsFilled
    <2>2. pc' = [pc EXCEPT ![c] = "done"] /\ UNCHANGED <<call, userData, mut>>
      BY <1>6 DEF UseName, Goto
    <2>3. QED
      BY <2>1, <2>2 DEF TypeOK, IdentityInv, HolderIsAlone, FetchIsNeeded, UseIsFilled,
         AnswerIsCached, At, Answered
  <1>7. CASE ReadStep
    <2>1. PICK c \in Caller, op \in DOMAIN Reads : ReadPage(c, op)
      BY <1>7 DEF ReadStep
    <2>2. /\ call[c] # "BotName"
          /\ \E l \in {"reading", "done", "failed"} : pc' = [pc EXCEPT ![c] = l]
          /\ UNCHANGED <<call, userData, mut, name>>
      BY <2>1, CallFacts DEF ReadPage, Goto, userVars
    <2>3. QED
      BY <2>2 DEF TypeOK, IdentityInv, HolderIsAlone, FetchIsNeeded, UseIsFilled,
         AnswerIsCached, At, Answered
  <1>8. CASE FailStep
    BY <1>8 DEF FailStep, Goto, userVars, TypeOK, IdentityInv, HolderIsAlone,
       FetchIsNeeded, UseIsFilled, AnswerIsCached, At, Answered
  <1>9. ASSUME NEW x \in Collection, ListStep(x) PROVE IdentityInv'
    <2>1. UNCHANGED <<call, userData, mut, name>>
      BY <1>9 DEF ListStep, userVars
    <2>2. \A c \in Caller : \/ pc'[c] = pc[c]
                            \/ call[c] # "BotName" /\ pc'[c] \in {"done", "failed"}
      BY <1>9 DEF ListStep
    <2>3. QED
      BY <2>1, <2>2 DEF IdentityInv, HolderIsAlone, FetchIsNeeded, UseIsFilled,
         AnswerIsCached, At, Answered
  <1>10. CASE UNCHANGED vars
    BY <1>10 DEF vars, userVars, IdentityInv, HolderIsAlone, FetchIsNeeded, UseIsFilled,
       AnswerIsCached, At, Answered
  <1>11. QED
    BY <1>1, <1>2, <1>3, <1>4, <1>5, <1>6, <1>7, <1>8, <1>9, <1>10, StepKinds
    DEF UserStep

\* Where pointers are published whole, all callers that get an answer get the same
\* account: the double-checked lock of getUserData fetches one.
THEOREM IdentityIsOne ==
    ASSUME PublishesWhole
    PROVE  Spec => []OneIdentity
  <1>1. TypeOK /\ IdentityInv /\ [Next]_vars => IdentityInv'
    BY IdentityStep
  <1>2. IdentityInv => OneIdentity
    BY DEF IdentityInv, AnswerIsCached, OneIdentity
  <1>3. QED  BY IdentityInit, TypeCorrect, <1>1, <1>2, PTL DEF Spec

-----------------------------------------------------------------------------
(* Paged reads.                                                            *)

IsRead(c) == call[c] \in DOMAIN Reads
List(c) == items[Reads[call[c]]]
Ahead(c) == After(List(c), offset[c])

\* Only calls for the account get into getUserData.
UserCalls ==
    \A c \in Caller : pc[c] \in {"locking", "locked", "fetching", "using"} => ~IsRead(c)
NotBegun == \A c \in Caller : At(c, "called") => offset[c] = 0 /\ got[c] = <<>>

CallInv == UserCalls /\ NotBegun

\* What a read is in the middle of: the items it started from are in hand or still
\* to come.
InHandOrAhead ==
    \A c \in Caller : IsRead(c) /\ At(c, "reading") /\ "removed" \notin during[c]
        => Elements(start[c]) \subseteq Elements(got[c]) \union Ahead(c)

MissedInv == InHandOrAhead /\ NothingMissed

\* No item is twice in a list, and what a read has in hand is not ahead of it.
ListsInjective == \A x \in Collection : IsInjective(items[x])
FreshIsNew ==
    /\ \A x \in Collection : \A e \in Elements(items[x]) : e < fresh
    /\ \A c \in Caller : \A e \in Elements(got[c]) : e < fresh
OnceOnly ==
    \A c \in Caller : IsRead(c) /\ At(c, "reading") /\ "shifted" \notin during[c]
        => IsInjective(got[c]) /\ Elements(got[c]) \intersect Ahead(c) = {}

RepeatInv == ListsInjective /\ FreshIsNew /\ OnceOnly /\ NothingRepeated

\* A step that moves no read and no list.
Quiet ==
    /\ \A c \in Caller : /\ IsRead(c) => pc'[c] = pc[c]
                         /\ At(c, "called")' => At(c, "called")
                         /\ pc'[c] \in {"locking", "locked", "fetching", "using"}
                              => pc'[c] = pc[c] \/ ~IsRead(c)
    /\ UNCHANGED <<call, items, fresh, during, readVars>>

LEMMA QuietSteps ==
    ASSUME TypeOK, UserCalls, UserStep \/ FailStep \/ UNCHANGED vars
    PROVE  Quiet
  <1>1. ASSUME NEW c \in Caller, ~IsRead(c), NEW l \in {"locking", "locked", "fetching",
                    "using", "done", "failed"}, pc' = [pc EXCEPT ![c] = l],
               UNCHANGED <<call, items, fresh, during, readVars>>
        PROVE  Quiet
    BY <1>1 DEF Quiet, At, IsRead, TypeOK
  <1>2. CASE Rename
    BY <1>2 DEF Rename, Quiet, At, readVars
  <1>3. ASSUME NEW c \in Caller,
               \/ CheckUser(c) \/ Lock(c) \/ Recheck(c) \/ FetchUser(c) \/ UseName(c)
        PROVE  Quiet
    <2>1. ~IsRead(c)
      BY <1>3, CallFacts DEF CheckUser, Lock, Recheck, FetchUser, UseName, UserCalls, At,
         IsRead
    <2>2. \E l \in {"locking", "locked", "fetching", "using", "done", "failed"} :
             pc' = [pc EXCEPT ![c] = l]
      BY <1>3 DEF CheckUser, Lock, Recheck, FetchUser, UseName, Goto
    <2>3. UNCHANGED <<call, items, fresh, during, readVars>>
      BY <1>3 DEF CheckUser, Lock, Recheck, FetchUser, UseName, listVars
    <2>4. QED  BY <1>1, <2>1, <2>2, <2>3
  <1>4. CASE UserStep
    BY <1>2, <1>3, <1>4 DEF UserStep
  <1>5. CASE FailStep
    BY <1>1, <1>5 DEF FailStep, Goto, IsRead, listVars
  <1>6. CASE UNCHANGED vars
    BY <1>6 DEF vars, Quiet, At, listVars, readVars
  <1>7. QED  BY <1>4, <1>5, <1>6

\* What a turn of the loop does to its caller, in terms of the rest of the list.
LEMMA ReadFacts ==
    ASSUME TypeOK, CallInv, NEW c \in Caller, NEW op \in DOMAIN Reads, ReadPage(c, op)
    PROVE  /\ IsRead(c) /\ call' = call
           /\ UNCHANGED <<items, fresh, during>>
           /\ \A d \in Caller : d # c => /\ pc'[d] = pc[d] /\ start'[d] = start[d]
                                         /\ got'[d] = got[d] /\ offset'[d] = offset[d]
           /\ pc[c] \in {"called", "reading"}
           /\ start'[c] = IF At(c, "called") THEN List(c) ELSE start[c]
           /\ At(c, "called") => Ahead(c) = Elements(List(c)) /\ got[c] = <<>>
           /\ \/ /\ pc'[c] = "reading"
                 /\ Elements(got'[c]) \union After(List(c), offset'[c])
                       = Elements(got[c]) \union Ahead(c)
                 /\ ListsInjective /\ IsInjective(got[c])
                       /\ Elements(got[c]) \intersect Ahead(c) = {}
                    => /\ IsInjective(got'[c])
                       /\ Elements(got'[c]) \intersect After(List(c), offset'[c]) = {}
              \/ pc'[c] = "done" /\ got'[c] = got[c] /\ Ahead(c) = {}
              \/ pc'[c] = "failed" /\ got'[c] = <<>>
  <1> DEFINE list == items[Reads[op]]
             page == Page(list, offset[c])
  <1>1. /\ call[c] = op /\ call' = call
        /\ pc[c] \in {"called", "reading"}
        /\ start' = IF At(c, "called") THEN [start EXCEPT ![c] = list] ELSE start
        /\ \/ /\ page # <<>>
              /\ got' = [got EXCEPT ![c] = @ \o page]
              /\ offset' = [offset EXCEPT ![c] = offset[c] + PageSize]
              /\ pc' = [pc EXCEPT ![c] = "reading"]
           \/ /\ page = <<>>
              /\ pc' = [pc EXCEPT ![c] = "done"]
              /\ UNCHANGED <<got, offset>>
           \/ /\ got' = [got EXCEPT ![c] = <<>>]
              /\ pc' = [pc EXCEPT ![c] = "failed"]
              /\ UNCHANGED offset
        /\ UNCHANGED <<items, fresh, during>>
    BY DEF ReadPage, Continues, NextOffset, Goto, listVars
  <1>2. /\ list \in Seq(Nat) /\ offset[c] \in Nat /\ got[c] \in Seq(Nat)
        /\ list = List(c) /\ Reads[op] \in Collection
    BY <1>1, CallFacts DEF TypeOK, List
  <1>3. /\ page \in Seq(Nat)
        /\ After(list, offset[c]) = Elements(page) \union After(list, offset[c] + PageSize)
        /\ page = <<>> => After(list, offset[c]) = {}
    BY <1>2, PageFacts, PageSplits
  <1>4. Elements(got[c] \o page) = Elements(got[c]) \union Elements(page)
    BY <1>2, <1>3, ConcatFacts
  <1>5. At(c, "called") => Ahead(c) = Elements(List(c)) /\ got[c] = <<>>
    <2>1. DOMAIN list \subseteq Nat \ {0}
      BY <1>2, LenProperties
    <2>2. After(list, 0) = Elements(list)
      BY <2>1 DEF After, Elements
    <2>3. QED  BY <1>2, <2>2 DEF CallInv, NotBegun, Ahead
  <1>6. ASSUME ListsInjective, IsInjective(got[c]), Elements(got[c]) \intersect Ahead(c) = {}
        PROVE  /\ IsInjective(got[c] \o page)
               /\ Elements(got[c] \o page) \intersect After(list, offset[c] + PageSize) = {}
    <2>1. /\ IsInjective(page)
          /\ Elements(page) \intersect After(list, offset[c] + PageSize) = {}
      BY <1>2, <1>6, PageInjective DEF ListsInjective
    <2>2. Elements(got[c]) \intersect Elements(page) = {}
      BY <1>2, <1>3, <1>6 DEF Ahead
    <2>3. IsInjective(got[c] \o page)
      BY <1>2, <1>3, <1>6, <2>1, <2>2, ConcatFacts
    <2>4. QED  BY <1>2, <1>3, <1>4, <1>6, <2>1, <2>3 DEF Ahead
  <1> HIDE DEF page, list
  <1>7. /\ pc \in [Caller -> {"called", "locking", "locked", "fetching", "using",
                              "reading", "done", "failed"}]
        /\ DOMAIN got = Caller /\ DOMAIN offset = Caller /\ DOMAIN start = Caller
    BY DEF TypeOK
  <1>8. start'[c] = IF At(c, "called") THEN List(c) ELSE start[c]
    BY <1>1, <1>2, <1>7
  <1>9. \A d \in Caller : d # c => /\ pc'[d] = pc[d] /\ start'[d] = start[d]
                                   /\ got'[d] = got[d] /\ offset'[d] = offset[d]
    <2>1. \A d \in Caller : d # c => start'[d] = start[d]
      BY <1>1, <1>7
    <2>2. QED  BY <1>1, <1>7, <2>1
  <1>10. \/ /\ pc'[c] = "reading"
            /\ got'[c] = got[c] \o page
            /\ offset'[c] = offset[c] + PageSize
         \/ pc'[c] = "done" /\ got'[c] = got[c] /\ page = <<>>
         \/ pc'[c] = "failed" /\ got'[c] = <<>>
    BY <1>1, <1>7
  <1>11. QED
    BY <1>1, <1>2, <1>3, <1>4, <1>5, <1>6, <1>8, <1>9, <1>10 DEF IsRead, Ahead

\* What a change of list x does to the reads, in terms of what is ahead of them.
LEMMA ListFacts ==
    ASSUME TypeOK, NEW x \in Collection, ListStep(x)
    PROVE  /\ UNCHANGED <<call, readVars>>
           /\ \A c \in Caller : \/ pc'[c] = pc[c]
                                \/ ~IsRead(c) /\ pc'[c] \in {"done", "failed"}
           /\ \A c \in Caller : during[c] \subseteq during'[c]
           /\ \A c \in Caller : IsRead(c) /\ ~At(c, "reading") => during'[c] = during[c]
           /\ \A c \in Caller : IsRead(c) /\ At(c, "reading")
                => /\ "removed" \notin during'[c] => Ahead(c) \subseteq Ahead(c)'
                   /\ "shifted" \notin during'[c] => Ahead(c)' \subseteq Ahead(c) \union {fresh}
  <1>1. items[x] \in Seq(Nat) /\ fresh \in Nat /\ items \in [Collection -> Seq(Nat)]
    BY DEF TypeOK
  <1>2. UNCHANGED <<call, readVars, offset>> /\ (AddTo(x) \/ TakeFrom(x))
    BY DEF ListStep, readVars
  <1>3. \A c \in Caller : \/ pc'[c] = pc[c]
                          \/ ~IsRead(c) /\ pc'[c] \in {"done", "failed"}
    BY DEF ListStep, IsRead
  <1>4. \E how : Disturb(x, how) \/ UNCHANGED during
    BY <1>2 DEF AddTo, TakeFrom
  <1>5. \A c \in Caller : during[c] \subseteq during'[c]
    BY <1>4 DEF Disturb
  <1>6. \A c \in Caller : IsRead(c) /\ ~At(c, "reading") => during'[c] = during[c]
    BY <1>4 DEF Disturb, Reading
  <1>7. ASSUME NEW c \in Caller, IsRead(c), At(c, "reading")
        PROVE  /\ "removed" \notin during'[c] => Ahead(c) \subseteq Ahead(c)'
               /\ "shifted" \notin during'[c] => Ahead(c)' \subseteq Ahead(c) \union {fresh}
    <2> DEFINE y == Reads[call[c]]
    <2>1. /\ y \in Collection /\ offset[c] \in Nat
          /\ Ahead(c) = After(items[y], offset[c])
          /\ Ahead(c)' = After(items'[y], offset[c])
      BY <1>2, <1>7, CallFacts DEF IsRead, Ahead, List, TypeOK
    <2>2. CASE y # x
      <3>1. items'[y] = items[y]
        BY <1>1, <1>2, <2>1, <2>2 DEF AddTo, TakeFrom
      <3>2. QED  BY <2>1, <3>1
    <2>3. CASE y = x
      <3>1. Reading(c, x)
        BY <1>7, <2>3 DEF Reading, IsRead
      <3>2. CASE AddTo(x)
        <4>1. CASE x \in NewestFirst
          <5>1. items'[x] = <<fresh>> \o items[x] /\ "shifted" \in during'[c]
            BY <1>1, <3>1, <3>2, <4>1 DEF AddTo, Disturb
          <5>2. Ahead(c) \subseteq Ahead(c)'
            BY <1>1, <2>1, <2>3, <5>1, FrontFacts
          <5>3. QED  BY <5>1, <5>2
        <4>2. CASE x \notin NewestFirst
          <5>1. items'[x] = Append(items[x], fresh)
            BY <1>1, <3>2, <4>2 DEF AddTo
          <5>2. QED  BY <1>1, <2>1, <2>3, <5>1, AppendFacts
        <4>3. QED  BY <4>1, <4>2
      <3>3. CASE TakeFrom(x)
        <4>1. PICK i \in DOMAIN items[x] : items'[x] = RemoveAt(items[x], i)
          BY <1>1, <3>3 DEF TakeFrom
        <4>2. "removed" \in during'[c]
          BY <3>1, <3>3 DEF TakeFrom, Disturb
        <4>3. Ahead(c)' \subseteq Ahead(c)
          BY <1>1, <2>1, <2>3, <4>1, RemoveFacts
        <4>4. QED  BY <4>2, <4>3
      <3>4. QED  BY <1>2, <3>2, <3>3
    <2>4. QED  BY <2>2, <2>3
  <1>8. QED  BY <1>2, <1>3, <1>5, <1>6, <1>7

LEMMA CallInit == Init => CallInv
  BY DEF Init, CallInv, UserCalls, NotBegun, At

LEMMA CallStep ==
    ASSUME TypeOK, CallInv, [Next]_vars
    PROVE  CallInv'
  <1>1. CASE Quiet
    BY <1>1 DEF Quiet, CallInv, UserCalls, NotBegun, At, IsRead, readVars
  <1>2. CASE ReadStep
    <2>1. PICK c \in Caller, op \in DOMAIN Reads : ReadPage(c, op)
      BY <1>2 DEF ReadStep
    <2>2. /\ pc'[c] \in {"reading", "done", "failed"} /\ call' = call
          /\ \A d \in Caller : d # c => /\ pc'[d] = pc[d] /\ got'[d] = got[d]
                                        /\ offset'[d] = offset[d]
      BY <2>1, ReadFacts
    <2>3. QED  BY <2>2 DEF CallInv, UserCalls, NotBegun, At, IsRead
  <1>3. ASSUME NEW x \in Collection, ListStep(x) PROVE CallInv'
    <2>1. /\ UNCHANGED <<call, readVars>>
          /\ \A c \in Caller : \/ pc'[c] = pc[c]
                               \/ ~IsRead(c) /\ pc'[c] \in {"done", "failed"}
      BY <1>3, ListFacts
    <2>2. QED  BY <2>1 DEF CallInv, UserCalls, NotBegun, At, IsRead, readVars
  <1>4. QED
    BY <1>1, <1>2, <1>3, StepKinds, QuietSteps DEF CallInv

THEOREM CallsMatch == Spec => [](TypeOK /\ CallInv)
  <1>1. TypeOK /\ CallInv /\ [Next]_vars => CallInv'
    BY CallStep
  <1>2. QED  BY CallInit, TypeCorrect, <1>1, PTL DEF Spec

LEMMA MissedInit == Init => MissedInv
  BY DEF Init, MissedInv, InHandOrAhead, NothingMissed, ReadAll, At

LEMMA MissedStep ==
    ASSUME TypeOK, CallInv, MissedInv, [Next]_vars
    PROVE  MissedInv'
  <1>1. CASE Quiet
    <2>1. \A c \in Caller : IsRead(c) => pc'[c] = pc[c]
      BY <1>1 DEF Quiet
    <2>2. UNCHANGED <<call, items, during, offset, got, start>>
      BY <1>1 DEF Quiet, readVars
    <2>3. QED
      BY <2>1, <2>2 DEF MissedInv, InHandOrAhead, NothingMissed, ReadAll, At, IsRead,
         Ahead, List
  <1>2. CASE ReadStep
    <2>1. PICK c \in Caller, op \in DOMAIN Reads : ReadPage(c, op)
      BY <1>2 DEF ReadStep
    <2>2. /\ UNCHANGED <<call, items, during>>
          /\ \A d \in Caller : d # c => /\ pc'[d] = pc[d] /\ start'[d] = start[d]
                                        /\ got'[d] = got[d] /\ offset'[d] = offset[d]
      BY <2>1, ReadFacts
    <2>3. ASSUME "removed" \notin during[c]
          PROVE  Elements(start'[c]) \subseteq Elements(got[c]) \union Ahead(c)
      <3>1. CASE At(c, "called")
        BY <2>1, <3>1, ReadFacts
      <3>2. CASE ~At(c, "called")
        <4>1. start'[c] = start[c] /\ At(c, "reading") /\ IsRead(c)
          BY <2>1, <3>2, ReadFacts DEF At
        <4>2. QED  BY <2>3, <4>1 DEF MissedInv, InHandOrAhead
      <3>3. QED  BY <3>1, <3>2
    <2>4. ASSUME "removed" \notin during[c], pc'[c] = "reading"
          PROVE  Elements(start'[c]) \subseteq Elements(got'[c]) \union Ahead(c)'
      <3>1. Ahead(c)' = After(List(c), offset'[c])
        BY <2>2 DEF Ahead, List
      <3>2. Elements(got'[c]) \union After(List(c), offset'[c])
               = Elements(got[c]) \union Ahead(c)
        BY <2>1, <2>4, ReadFacts
      <3>3. QED  BY <2>3, <2>4, <3>1, <3>2
    <2>5. ASSUME "removed" \notin during[c], pc'[c] = "done"
          PROVE  Elements(start'[c]) \subseteq Elements(got'[c])
      <3>1. got'[c] = got[c] /\ Ahead(c) = {}
        BY <2>1, <2>5, ReadFacts
      <3>2. QED  BY <2>3, <2>5, <3>1
    <2>6. InHandOrAhead'
      <3>1. \A d \in Caller : d # c => Ahead(d)' = Ahead(d)
        BY <2>2 DEF Ahead, List
      <3>2. QED
        BY <2>2, <2>4, <3>1 DEF MissedInv, InHandOrAhead, IsRead, At
    <2>7. NothingMissed'
      BY <2>2, <2>5 DEF MissedInv, NothingMissed, ReadAll, At
    <2>8. QED  BY <2>6, <2>7 DEF MissedInv
  <1>3. ASSUME NEW x \in Collection, ListStep(x) PROVE MissedInv'
    <2>1. /\ UNCHANGED <<call, offset, got, start>>
          /\ \A c \in Caller : IsRead(c) => pc'[c] = pc[c]
          /\ \A c \in Caller : during[c] \subseteq during'[c]
          /\ \A c \in Caller : IsRead(c) /\ At(c, "reading") /\ "removed" \notin during'[c]
                => Ahead(c) \subseteq Ahead(c)'
      BY <1>3, ListFacts DEF readVars
    <2>2. InHandOrAhead'
      BY <2>1 DEF MissedInv, InHandOrAhead, IsRead, At
    <2>3. NothingMissed'
      BY <2>1 DEF MissedInv, NothingMissed, ReadAll, IsRead, At
    <2>4. QED  BY <2>2, <2>3 DEF MissedInv
  <1>4. QED
    BY <1>1, <1>2, <1>3, StepKinds, QuietSteps DEF CallInv

\* A paged read misses nothing that was in the list when it began, unless an item
\* was removed meanwhile: for lists and pages of any size.
THEOREM ReadsMissNothing == Spec => []NothingMissed
  <1>1. TypeOK /\ CallInv /\ MissedInv /\ [Next]_vars => MissedInv'
    BY MissedStep
  <1>2. MissedInv => NothingMissed
    BY DEF MissedInv
  <1>3. QED  BY MissedInit, CallsMatch, <1>1, <1>2, PTL DEF Spec

LEMMA RepeatInit == Init => RepeatInv
  <1> SUFFICES ASSUME Init PROVE RepeatInv
    OBVIOUS
  <1>1. PICK n \in 0..MaxItems : items = [x \in Collection |-> [i \in 1..n |-> i]]
    BY DEF Init
  <1>2. ListsInjective
    BY <1>1 DEF ListsInjective, IsInjective
  <1>3. FreshIsNew
    <2>1. fresh = MaxItems + 1 /\ MaxItems \in Nat /\ n <= MaxItems
      BY ClientAssumption DEF Init
    <2>2. \A x \in Collection : \A e \in Elements(items[x]) : e < fresh
      BY <1>1, <2>1 DEF Elements
    <2>3. \A c \in Caller : Elements(got[c]) = {}
      BY DEF Init, Elements
    <2>4. QED  BY <2>2, <2>3 DEF FreshIsNew
  <1>4. OnceOnly /\ NothingRepeated
    BY DEF Init, OnceOnly, NothingRepeated, ReadAll, At
  <1>5. QED  BY <1>2, <1>3, <1>4 DEF RepeatInv

\* A change keeps the lists free of repetition, and new items new.
LEMMA ListRepeats ==
    ASSUME TypeOK, RepeatInv, NEW x \in Collection, ListStep(x)
    PROVE  ListsInjective' /\ FreshIsNew'
  <1>1. /\ items[x] \in Seq(Nat) /\ IsInjective(items[x]) /\ fresh \in Nat
        /\ \A e \in Elements(items[x]) : e < fresh
        /\ items \in [Collection -> Seq(Nat)]
    BY DEF TypeOK, RepeatInv, ListsInjective, FreshIsNew
  <1>2. fresh \notin Elements(items[x])
    BY <1>1
  <1>3. got' = got /\ (AddTo(x) \/ TakeFrom(x))
    BY DEF ListStep, readVars
  <1>4. \A y \in Collection : y # x => items'[y] = items[y]
    BY <1>1, <1>3 DEF AddTo, TakeFrom
  <1>5. CASE AddTo(x)
    <2>1. fresh' = fresh + 1
      BY <1>5 DEF AddTo
    <2>2. /\ IsInjective(items'[x])
          /\ Elements(items'[x]) = Elements(items[x]) \union {fresh}
      <3>1. CASE x \in NewestFirst
        <4>1. items'[x] = <<fresh>> \o items[x]
          BY <1>1, <1>5, <3>1 DEF AddTo
        <4>2. QED  BY <1>1, <1>2, <4>1, FrontFacts
      <3>2. CASE x \notin NewestFirst
        <4>1. items'[x] = Append(items[x], fresh)
          BY <1>1, <1>5, <3>2 DEF AddTo
        <4>2. QED  BY <1>1, <1>2, <4>1, AppendFacts
      <3>3. QED  BY <3>1, <3>2
    <2>3. ListsInjective'
      BY <1>4, <2>2 DEF RepeatInv, ListsInjective
    <2>4. \A e \in Nat : e < fresh => e < fresh'
      BY <1>1, <2>1
    <2>5. \A y \in Collection : Elements(items[y]) \subseteq Nat
      <3>1. \A y \in Collection : items[y] \in Seq(Nat)
        BY <1>1
      <3>2. QED  BY <3>1, LenProperties, ElementOfSeq DEF Elements
    <2>6. \A c \in Caller : Elements(got[c]) \subseteq Nat
      <3>1. \A c \in Caller : got[c] \in Seq(Nat)
        BY DEF TypeOK
      <3>2. QED  BY <3>1, LenProperties, ElementOfSeq DEF Elements
    <2>7. FreshIsNew'
      <3>1. ASSUME NEW y \in Collection, NEW e \in Elements(items'[y])
            PROVE  e < fresh'
        <4>1. \/ e \in Elements(items[y])
              \/ e = fresh
          BY <1>4, <2>2, <3>1
        <4>2. CASE e \in Elements(items[y])
          BY <2>4, <2>5, <4>2 DEF RepeatInv, FreshIsNew
        <4>3. QED  BY <1>1, <2>1, <4>1, <4>2
      <3>2. ASSUME NEW c \in Caller, NEW e \in Elements(got'[c])
            PROVE  e < fresh'
        BY <1>3, <2>4, <2>6, <3>2 DEF RepeatInv, FreshIsNew
      <3>3. QED  BY <3>1, <3>2 DEF FreshIsNew
    <2>8. QED  BY <2>3, <2>7
  <1>6. CASE TakeFrom(x)
    <2>1. PICK i \in DOMAIN items[x] : items'[x] = RemoveAt(items[x], i)
      BY <1>1, <1>6 DEF TakeFrom
    <2>2. IsInjective(items'[x]) /\ Elements(items'[x]) \subseteq Elements(items[x])
      BY <1>1, <2>1, RemoveFacts
    <2>3. fresh' = fresh
      BY <1>6 DEF TakeFrom
    <2>4. ListsInjective'
      BY <1>4, <2>2 DEF RepeatInv, ListsInjective
    <2>5. FreshIsNew'
      BY <1>3, <1>4, <2>2, <2>3 DEF RepeatInv, FreshIsNew
    <2>6. QED  BY <2>4, <2>5
  <1>7. QED  BY <1>3, <1>5, <1>6

LEMMA RepeatStep ==
    ASSUME TypeOK, CallInv, RepeatInv, [Next]_vars
    PROVE  RepeatInv'
  <1>1. CASE Quiet
    <2>1. \A c \in Caller : IsRead(c) => pc'[c] = pc[c]
      BY <1>1 DEF Quiet
    <2>2. UNCHANGED <<call, items, fresh, during, offset, got>>
      BY <1>1 DEF Quiet, readVars
    <2>3. OnceOnly' /\ NothingRepeated'
      BY <2>1, <2>2 DEF RepeatInv, OnceOnly, NothingRepeated, ReadAll, At, IsRead, Ahead,
         List
    <2>4. QED  BY <2>2, <2>3 DEF RepeatInv, ListsInjective, FreshIsNew
  <1>2. CASE ReadStep
    <2>1. PICK c \in Caller, op \in DOMAIN Reads : ReadPage(c, op)
      BY <1>2 DEF ReadStep
    <2>2. /\ UNCHANGED <<call, items, fresh, during>>
          /\ \A d \in Caller : d # c => /\ pc'[d] = pc[d] /\ got'[d] = got[d]
                                        /\ offset'[d] = offset[d]
      BY <2>1, ReadFacts
    <2>3. ASSUME "shifted" \notin during[c]
          PROVE  IsInjective(got[c]) /\ Elements(got[c]) \intersect Ahead(c) = {}
      <3>1. CASE At(c, "called")
        <4>1. got[c] = <<>>
          BY <2>1, <3>1, ReadFacts
        <4>2. QED  BY <4>1 DEF IsInjective, Elements
      <3>2. CASE ~At(c, "called")
        <4>1. At(c, "reading") /\ IsRead(c)
          BY <2>1, <3>2, ReadFacts DEF At
        <4>2. QED  BY <2>3, <4>1 DEF RepeatInv, OnceOnly
      <3>3. QED  BY <3>1, <3>2
    <2>4. Ahead(c)' = After(List(c), offset'[c])
      BY <2>2 DEF Ahead, List
    <2>5. OnceOnly'
      <3>1. \A d \in Caller : d # c => Ahead(d)' = Ahead(d)
        BY <2>2 DEF Ahead, List
      <3>2. ASSUME "shifted" \notin during[c], pc'[c] = "reading"
            PROVE  IsInjective(got'[c]) /\ Elements(got'[c]) \intersect Ahead(c)' = {}
        BY <2>1, <2>3, <2>4, <3>2, ReadFacts DEF RepeatInv
      <3>3. QED
        BY <2>2, <3>1, <3>2 DEF RepeatInv, OnceOnly, IsRead, At
    <2>6. NothingRepeated'
      <3>1. ASSUME "shifted" \notin during[c], pc'[c] = "done"
            PROVE  IsInjective(got'[c])
        <4>1. got'[c] = got[c]
          BY <2>1, <3>1, ReadFacts
        <4>2. QED  BY <2>3, <3>1, <4>1
      <3>2. QED  BY <2>2, <3>1 DEF RepeatInv, NothingRepeated, ReadAll, At
    <2>7. FreshIsNew'
      <3>1. IsRead(c) /\ Reads[call[c]] \in Collection
        BY <2>1, CallFacts, ReadFacts DEF IsRead
      <3>2. Ahead(c) \subseteq Elements(List(c))
        BY DEF Ahead, After, Elements
      <3>3. Elements(got'[c]) \subseteq Elements(got[c]) \union Elements(List(c))
        <4>1. \/ Elements(got'[c]) \subseteq Elements(got[c]) \union Ahead(c)
              \/ got'[c] = got[c]
              \/ got'[c] = <<>>
          BY <2>1, ReadFacts
        <4>2. Elements(<<>>) = {}
          BY DEF Elements
        <4>3. QED  BY <3>2, <4>1, <4>2
      <3>4. QED  BY <2>2, <3>1, <3>3 DEF RepeatInv, FreshIsNew, List
    <2>8. QED  BY <2>2, <2>5, <2>6, <2>7 DEF RepeatInv, ListsInjective
  <1>3. ASSUME NEW x \in Collection, ListStep(x) PROVE RepeatInv'
    <2>1. /\ UNCHANGED <<call, offset, got>>
          /\ \A c \in Caller : IsRead(c) => pc'[c] = pc[c]
          /\ \A c \in Caller : during[c] \subseteq during'[c]
          /\ \A c \in Caller : IsRead(c) /\ At(c, "reading") /\ "shifted" \notin during'[c]
                => Ahead(c)' \subseteq Ahead(c) \union {fresh}
      BY <1>3, ListFacts DEF readVars
    <2>2. fresh \in Nat /\ \A c \in Caller : fresh \notin Elements(got[c])
      BY DEF RepeatInv, FreshIsNew, TypeOK
    <2>3. OnceOnly'
      BY <2>1, <2>2 DEF RepeatInv, OnceOnly, IsRead, At
    <2>4. NothingRepeated'
      BY <2>1 DEF RepeatInv, NothingRepeated, ReadAll, IsRead, At
    <2>5. QED  BY <1>3, <2>3, <2>4, ListRepeats DEF RepeatInv
  <1>4. QED
    BY <1>1, <1>2, <1>3, StepKinds, QuietSteps DEF CallInv

\* A paged read returns nothing twice, unless an item was put at the front of the
\* list meanwhile.
THEOREM ReadsRepeatNothing == Spec => []NothingRepeated
  <1>1. TypeOK /\ CallInv /\ RepeatInv /\ [Next]_vars => RepeatInv'
    BY RepeatStep
  <1>2. RepeatInv => NothingRepeated
    BY DEF RepeatInv
  <1>3. QED  BY RepeatInit, CallsMatch, <1>1, <1>2, PTL DEF Spec

=============================================================================
