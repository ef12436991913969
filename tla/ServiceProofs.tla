--------------------------- MODULE ServiceProofs ---------------------------
(***************************************************************************)
(* Proofs about Service and Startup for any containers, policies, seed,    *)
(* requests, pool and page sizes, and any number of faults and edits.      *)
(*                                                                         *)
(* The argument in one paragraph.  A migration past its first statement    *)
(* holds the lock (LockInv), so the tables stay as it found them until it  *)
(* commits (DraftInv), and a container that serves has left the tables     *)
(* there (ReadyInv), complete if no operator has edited them               *)
(* (UneditedInv).  A page is a slice of the matching entries, ranked from  *)
(* the newest: appends only push an entry deeper, so a slice taken earlier *)
(* fits into a later count (PageSound), and what a walk has not seen yet   *)
(* is at its offset or deeper (WalkSound).                                 *)
(***************************************************************************)
EXTENDS Service, FiniteSetTheorems, SequenceTheorems, WellFoundedInduction, TLAPS

-----------------------------------------------------------------------------
(* Numbers, ranked from the top.                                           *)

\* A nonempty set of numbers has a least element.
LEMMA LeastNat ==
    ASSUME NEW S \in SUBSET Nat, S # {}
    PROVE  \E m \in S : \A k \in S : m <= k
<1> DEFINE less == {ss \in Nat \X Nat : ss[1] < ss[2]}
<1>1. IsWellFoundedOn(less, Nat)
    BY NatLessThanWellFounded DEF OpToRel
<1>2. \A x \in Nat, y \in Nat : x < y => <<x, y>> \in less
    OBVIOUS
<1> HIDE DEF less
<1>3. PICK m \in S : \A k \in S : <<k, m>> \notin less
    BY <1>1, WFMin
<1>4. \A k \in S : ~(k < m)
    BY <1>2, <1>3
<1> QED
    BY <1>4

\* Above a number of a set of numbers.
Above(S, i) == {j \in S : j > i}

Rank(S, i) == Cardinality(Above(S, i))

LEMMA RankType ==
    ASSUME NEW S \in SUBSET Nat, IsFiniteSet(S), NEW i
    PROVE  IsFiniteSet(Above(S, i)) /\ Rank(S, i) \in Nat
BY FS_Subset, FS_CardinalityType DEF Above, Rank

LEMMA GreatestOf ==
    ASSUME NEW S \in SUBSET Nat, IsFiniteSet(S), S # {}
    PROVE  \E m \in S : \A k \in S : k <= m
<1> DEFINE ranks == {Rank(S, i) : i \in S}
<1>1. PICK m \in S : \A k \in S : Rank(S, m) <= Rank(S, k)
    <2>1. ranks \in SUBSET Nat /\ ranks # {}
        BY RankType
    <2>2. PICK n \in ranks : \A k \in ranks : n <= k
        BY <2>1, LeastNat
    <2> QED
        BY <2>2
<1>2. ASSUME NEW k \in S, k > m PROVE FALSE
    <2>0. k \in Nat /\ m \in Nat /\ \A x \in S : x \in Nat
        OBVIOUS
    <2>1. Above(S, k) \in SUBSET Above(S, m) /\ k \in Above(S, m) /\ k \notin Above(S, k)
        <3>1. \A x \in Above(S, k) : x \in Above(S, m)
            BY <1>2, <2>0 DEF Above
        <3>2. k \in Above(S, m) /\ k \notin Above(S, k)
            BY <1>2, <2>0 DEF Above
        <3> QED
            BY <3>1, <3>2
    <2>2. Rank(S, k) <= Rank(S, m) /\ Rank(S, k) # Rank(S, m)
        BY <2>1, RankType, FS_Subset DEF Rank
    <2>3. Rank(S, m) <= Rank(S, k) /\ Rank(S, m) \in Nat /\ Rank(S, k) \in Nat
        BY <1>1, RankType
    <2> QED
        BY <2>2, <2>3
<1> QED
    BY <1>2

\* The elements of S whose rank is in offset .. offset + limit - 1.
Slice(S, offset, limit) == {i \in S : Rank(S, i) \in offset .. offset + limit - 1}

LEMMA SliceFits ==
    ASSUME NEW S \in SUBSET Nat, IsFiniteSet(S), NEW offset \in Nat, NEW limit \in Nat,
           Slice(S, offset, limit) # {}
    PROVE  offset + Cardinality(Slice(S, offset, limit)) <= Cardinality(S)
<1> DEFINE page == Slice(S, offset, limit)
<1>1. page \in SUBSET S /\ page \in SUBSET Nat /\ IsFiniteSet(page)
    BY FS_Subset DEF Slice
<1>2. PICK m \in page : \A k \in page : k <= m
    BY <1>1, GreatestOf
<1>3. Above(S, m) \cap page = {} /\ Above(S, m) \cup page \in SUBSET S /\ m \in S
    BY <1>1, <1>2 DEF Above
<1>4. IsFiniteSet(Above(S, m)) /\ Rank(S, m) \in Nat
    BY <1>3, RankType
<1>5. Rank(S, m) >= offset
    BY <1>2, <1>4 DEF Slice
<1>6. Cardinality(Above(S, m) \cup page) = Rank(S, m) + Cardinality(page)
    <2>1. Cardinality(page) \in Nat /\ Cardinality(Above(S, m) \cap page) = 0
        BY <1>1, <1>3, FS_CardinalityType, FS_EmptySet
    <2>2. Cardinality(Above(S, m) \cup page)
            = Cardinality(Above(S, m)) + Cardinality(page) - Cardinality(Above(S, m) \cap page)
        BY <1>1, <1>4, FS_Union
    <2> QED
        BY <1>4, <2>1, <2>2 DEF Rank
<1>7. Cardinality(Above(S, m) \cup page) <= Cardinality(S)
    BY <1>3, FS_Subset
<1>8. Cardinality(S) \in Nat /\ Cardinality(page) \in Nat
    BY <1>1, FS_CardinalityType
<1> QED
    BY <1>4, <1>5, <1>6, <1>7, <1>8

\* Ranks have no gaps.
LEMMA RankBelow ==
    ASSUME NEW S \in SUBSET Nat, IsFiniteSet(S), NEW i \in S, Rank(S, i) # 0
    PROVE  \E j \in S : Rank(S, i) = Rank(S, j) + 1
<1>1. Above(S, i) \in SUBSET Nat /\ Above(S, i) # {} /\ IsFiniteSet(Above(S, i))
    BY RankType, FS_EmptySet DEF Above, Rank
<1>2. PICK j \in Above(S, i) : \A k \in Above(S, i) : j <= k
    BY <1>1, LeastNat
<1>3. Above(S, i) = Above(S, j) \cup {j} /\ j \notin Above(S, j) /\ j \in S
    <2>1. i \in Nat /\ j \in Nat /\ j > i /\ j \in S /\ \A k \in S : k \in Nat
        BY <1>2 DEF Above
    <2>2. ASSUME NEW k \in Above(S, i) PROVE k \in Above(S, j) \cup {j}
        BY <1>2, <2>1 DEF Above
    <2>3. ASSUME NEW k \in Above(S, j) \cup {j} PROVE k \in Above(S, i)
        BY <2>1 DEF Above
    <2>4. Above(S, i) = Above(S, j) \cup {j}
        BY <2>2, <2>3
    <2>5. j \notin Above(S, j)
        BY <2>1 DEF Above
    <2> QED
        BY <2>1, <2>4, <2>5
<1>4. IsFiniteSet(Above(S, j)) /\ Rank(S, j) \in Nat
    BY RankType
<1>5. Cardinality(Above(S, j) \cup {j}) = Cardinality(Above(S, j)) + 1
    BY <1>3, <1>4, FS_AddElement
<1> QED
    BY <1>3, <1>5 DEF Rank

LEMMA RankExists ==
    ASSUME NEW S \in SUBSET Nat, IsFiniteSet(S), NEW i \in S, NEW n \in 0 .. Rank(S, i)
    PROVE  \E j \in S : Rank(S, j) = n
<1> DEFINE higher == {k \in {Rank(S, j) : j \in S} : k >= n}
<1>1. Rank(S, i) \in Nat /\ \A j \in S : Rank(S, j) \in Nat
    BY RankType
<1>2. higher \in SUBSET Nat /\ higher # {}
    BY <1>1
<1>3. PICK m \in higher : \A k \in higher : m <= k
    BY <1>2, LeastNat
<1>4. PICK j \in S : Rank(S, j) = m
    BY <1>3
<1>5. CASE m = n
    BY <1>4, <1>5
<1>6. CASE m # n
    <2>1. m > n /\ m \in Nat /\ n \in Nat
        BY <1>1, <1>2, <1>3, <1>6
    <2>2. PICK k \in S : m = Rank(S, k) + 1
        BY <1>4, <2>1, RankBelow
    <2>3. Rank(S, k) \in higher
        BY <1>1, <2>1, <2>2
    <2> QED
        BY <1>1, <1>3, <2>2, <2>3
<1> QED
    BY <1>5, <1>6

\* A slice is full unless it is the last.
LEMMA SliceFull ==
    ASSUME NEW S \in SUBSET Nat, IsFiniteSet(S), NEW offset \in Nat, NEW limit \in Nat,
           NEW i \in S, Rank(S, i) >= offset + limit
    PROVE  Cardinality(Slice(S, offset, limit)) >= limit
<1> DEFINE page == Slice(S, offset, limit)
           rank == [j \in page |-> Rank(S, j)]
           range == offset .. offset + limit - 1
<1>1. page \in SUBSET S /\ IsFiniteSet(page)
    BY FS_Subset DEF Slice
<1>2. Rank(S, i) \in Nat
    BY RankType
<1>3. rank \in Surjection(page, range)
    <2>1. rank \in [page -> range]
        BY DEF Slice
    <2>2. ASSUME NEW n \in range PROVE \E j \in page : rank[j] = n
        <3>1. n \in 0 .. Rank(S, i)
            BY <1>2
        <3>2. PICK j \in S : Rank(S, j) = n
            BY <3>1, RankExists
        <3> QED
            BY <3>2 DEF Slice
    <2> QED
        BY <2>1, <2>2 DEF Surjection
<1>4. Cardinality(range) <= Cardinality(page)
    BY <1>1, <1>3, FS_Surjection
<1>5. Cardinality(range) = limit
    <2>1. offset \in Int /\ offset + limit - 1 \in Int
        OBVIOUS
    <2>2. Cardinality(range) = IF offset > offset + limit - 1 THEN 0
                               ELSE (offset + limit - 1) - offset + 1
        BY <2>1, FS_Interval
    <2> QED
        BY <2>2
<1>6. Cardinality(page) \in Nat
    BY <1>1, FS_CardinalityType
<1> QED
    BY <1>4, <1>5, <1>6

LEMMA RankGrows ==
    ASSUME NEW S \in SUBSET Nat, NEW T \in SUBSET Nat, S \subseteq T, IsFiniteSet(T), NEW i
    PROVE  Rank(S, i) <= Rank(T, i)
<1>1. Above(S, i) \in SUBSET Above(T, i)
    BY DEF Above
<1>2. IsFiniteSet(Above(T, i))
    BY RankType
<1> QED
    BY <1>1, <1>2, FS_Subset DEF Rank

-----------------------------------------------------------------------------
(* What a request's handler knows.                                         *)

Handler ==
    [at : Handled \cup {"idle", "page", "200", "503"}, container : Container,
     offset : Nat, rows : SUBSET Nat, total : Nat, wanted : SUBSET Nat, seen : SUBSET Nat]

\* The entries of a ledger that are of some kinds.
Of(entries, kinds) == {i \in DOMAIN entries : entries[i] \in kinds}

\* Appenders take the lock, readers do not, and nothing is known before a
\* request arrives.
RoleSound(r, q) ==
    /\ q.at \in {"lock", "insert"} => r \in Appender
    /\ q.at \in {"rows", "total", "page"} => r \in Reader
    /\ q.at = "idle" => q = Fresh

\* The page fits into what matches, then into the total, and that into what
\* matches by now.
PageSound(q, matching) ==
    /\ q.at \in {"total", "page"} => IsFiniteSet(q.rows)
    /\ q.at = "total" /\ q.rows # {} =>
          q.offset + Cardinality(q.rows) <= Cardinality(matching)
    /\ q.at = "page" =>
          /\ q.rows # {} => q.offset + Cardinality(q.rows) <= q.total
          /\ q.total <= Cardinality(matching)

\* What a walk has not seen yet is on a page it has not asked for yet: at its
\* offset or deeper, and a whole page deeper once the rows are read.  Behind a
\* page that is not full there is nothing.
WalkSound(q, matching) ==
    /\ q.at \in {"pool", "rows", "total", "page"} => q.wanted \subseteq matching
    /\ q.at \in {"pool", "rows"} =>
          \A i \in q.wanted \ q.seen : q.offset <= Rank(matching, i)
    /\ q.at \in {"total", "page"} =>
          /\ \A i \in q.wanted \ q.seen : q.offset + Limit <= Rank(matching, i)
          /\ Cardinality(q.rows) < Limit => q.wanted \subseteq q.seen

Sound(r, q, matching) == RoleSound(r, q) /\ PageSound(q, matching) /\ WalkSound(q, matching)

RequestInv ==
    /\ ledger \in Seq(Kind)
    /\ request \in [Request -> Handler]
    /\ \A r \in Request : Sound(r, request[r], Of(ledger, Kinds[r]))

LEMMA OfType ==
    ASSUME NEW entries \in Seq(Kind), NEW kinds
    PROVE  Of(entries, kinds) \in SUBSET Nat /\ IsFiniteSet(Of(entries, kinds))
<1>1. DOMAIN entries = 1..Len(entries) /\ Len(entries) \in Nat
    OBVIOUS
<1>2. IsFiniteSet(DOMAIN entries)
    BY <1>1, FS_Interval
<1> QED
    BY <1>1, <1>2, FS_Subset DEF Of

LEMMA OfAppend ==
    ASSUME NEW entries \in Seq(Kind), NEW k \in Kind, NEW kinds
    PROVE  Of(entries, kinds) \subseteq Of(Append(entries, k), kinds)
BY DEF Of

\* What a handler knows stays true when entries are appended.
LEMMA SoundGrows ==
    ASSUME NEW r, NEW q \in Handler, NEW S \in SUBSET Nat, NEW T \in SUBSET Nat,
           S \subseteq T, IsFiniteSet(T), Sound(r, q, S)
    PROVE  Sound(r, q, T)
<1>1. IsFiniteSet(S) /\ Cardinality(S) \in Nat /\ Cardinality(T) \in Nat
      /\ Cardinality(S) <= Cardinality(T)
    BY FS_Subset, FS_CardinalityType
<1>2. q.offset \in Nat /\ q.total \in Nat /\ Limit \in Nat
    BY ServiceAssumption DEF Handler
<1>3. q.at \in {"total", "page"} => Cardinality(q.rows) \in Nat
    BY FS_CardinalityType DEF Sound, PageSound
<1>4. PageSound(q, T)
    BY <1>1, <1>2, <1>3 DEF Sound, PageSound
<1>5. ASSUME NEW i PROVE Rank(S, i) \in Nat /\ Rank(T, i) \in Nat /\ Rank(S, i) <= Rank(T, i)
    BY <1>1, RankType, RankGrows
<1>6. WalkSound(q, T)
    <2>1. q.at \in {"pool", "rows"} =>
            \A i \in q.wanted \ q.seen : q.offset <= Rank(T, i)
        BY <1>2, <1>5 DEF Sound, WalkSound
    <2>2. q.at \in {"total", "page"} =>
            \A i \in q.wanted \ q.seen : q.offset + Limit <= Rank(T, i)
        BY <1>2, <1>5 DEF Sound, WalkSound
    <2> QED
        BY <2>1, <2>2 DEF Sound, WalkSound
<1> QED
    BY <1>4, <1>6 DEF Sound

\* A step of one handler, which may append.
LEMMA OneMoves ==
    ASSUME RequestInv, NEW r \in Request, NEW q \in Handler,
           request' = [request EXCEPT ![r] = q],
           ledger' = ledger \/ \E k \in Kind : ledger' = Append(ledger, k),
           Sound(r, q, Of(ledger', Kinds[r]))
    PROVE  RequestInv'
<1>1. ledger \in Seq(Kind) /\ ledger' \in Seq(Kind) /\ request' \in [Request -> Handler]
    BY DEF RequestInv
<1>2. ASSUME NEW s \in Request PROVE Sound(s, request'[s], Of(ledger', Kinds[s]))
    <2>1. CASE s = r
        BY <1>1, <2>1 DEF RequestInv
    <2>2. CASE s # r
        <3>1. request'[s] = request[s] /\ request[s] \in Handler
            BY <2>2 DEF RequestInv
        <3>2. Of(ledger, Kinds[s]) \subseteq Of(ledger', Kinds[s])
            BY <1>1, OfAppend
        <3>3. /\ Of(ledger, Kinds[s]) \in SUBSET Nat /\ Of(ledger', Kinds[s]) \in SUBSET Nat
              /\ IsFiniteSet(Of(ledger', Kinds[s]))
            BY <1>1, OfType
        <3>4. Sound(s, request[s], Of(ledger, Kinds[s]))
            BY DEF RequestInv
        <3> QED
            BY <3>1, <3>2, <3>3, <3>4, SoundGrows
    <2> QED
        BY <2>1, <2>2
<1> QED
    BY <1>1, <1>2 DEF RequestInv

LEMMA FreshType == Fresh \in Handler
<1>1. (CHOOSE c \in Container : TRUE) \in Container
    BY StartupAssumption
<1> QED
    BY <1>1 DEF Fresh, Handler, Handled

\* An answer that has gone out knows nothing.
LEMMA AnswerSound ==
    ASSUME NEW r, NEW status \in {"200", "503"}, NEW matching
    PROVE  /\ [Fresh EXCEPT !.at = status] \in Handler
           /\ Sound(r, [Fresh EXCEPT !.at = status], matching)
<1>1. [Fresh EXCEPT !.at = status] \in Handler
    BY FreshType DEF Handler
<1>2. [Fresh EXCEPT !.at = status].at = status
    BY FreshType DEF Handler
<1> QED
    BY <1>1, <1>2 DEF Sound, RoleSound, PageSound, WalkSound

LEMMA AnswerStep ==
    ASSUME RequestInv, NEW r \in Request, NEW status \in {"200", "503"}, Answer(r, status),
           ledger' = ledger \/ \E k \in Kind : ledger' = Append(ledger, k)
    PROVE  RequestInv'
<1>1. [Fresh EXCEPT !.at = status] \in Handler
    BY AnswerSound
<1>2. Sound(r, [Fresh EXCEPT !.at = status], Of(ledger', Kinds[r]))
    BY AnswerSound
<1> QED
    BY <1>1, <1>2, OneMoves DEF Answer

\* A handler goes to another point with what it knows.
LEMMA ProceedStep ==
    ASSUME RequestInv, NEW r \in Request, NEW point \in Handled,
           Proceed(r, point), ledger' = ledger,
           \/ request[r].at = "pool" /\ point = "rows" /\ r \in Reader
           \/ point \in {"lock", "insert"} /\ r \in Appender
    PROVE  RequestInv'
<1> DEFINE q == [request[r] EXCEPT !.at = point]
<1>1. request[r] \in Handler /\ Sound(r, request[r], Of(ledger', Kinds[r]))
    BY DEF RequestInv
<1>2. q \in Handler /\ q.at = point /\ q.offset = request[r].offset
      /\ q.wanted = request[r].wanted /\ q.seen = request[r].seen /\ q.rows = request[r].rows
    BY <1>1 DEF Handler
<1>3. Sound(r, q, Of(ledger', Kinds[r]))
    <2> HIDE DEF q
    <2> QED
        BY <1>1, <1>2 DEF Sound, RoleSound, PageSound, WalkSound
<1>4. request' = [request EXCEPT ![r] = q]
    BY DEF Proceed
<1> QED
    BY <1>2, <1>3, <1>4, OneMoves

-----------------------------------------------------------------------------
(* The handlers' steps.                                                    *)

LEMMA KindsType == \A r \in Request : Kinds[r] \in SUBSET Kind
BY ServiceAssumption DEF Request

LEMMA MatchingIsOf ==
    /\ \A kinds : Matching(kinds) = Of(ledger, kinds)
    /\ \A kinds : Matching(kinds)' = Of(ledger', kinds)
BY DEF Matching, Of

LEMMA PageIsSlice ==
    \A kinds, offset : Page(kinds, offset) = Slice(Of(ledger, kinds), offset, Limit)
BY DEF Page, Matching, Of, Slice, Rank, Above

LEMMA QueryRowsStep ==
    ASSUME RequestInv, NEW r \in Request, QueryRows(r)
    PROVE  RequestInv'
<1> DEFINE matching == Of(ledger, Kinds[r])
           rows == Slice(matching, request[r].offset, Limit)
           q == [request[r] EXCEPT !.at = "total", !.rows = rows, !.seen = @ \cup rows]
<1>1. /\ request[r] \in Handler /\ Sound(r, request[r], matching) /\ request[r].at = "rows"
      /\ ledger' = ledger /\ ledger \in Seq(Kind)
    BY DEF RequestInv, QueryRows, Is
<1>2. request' = [request EXCEPT ![r] = q]
    BY PageIsSlice DEF QueryRows
<1>3. matching \in SUBSET Nat /\ IsFiniteSet(matching)
    BY <1>1, OfType
<1>4. request[r].offset \in Nat /\ Limit \in Nat
    BY <1>1, ServiceAssumption DEF Handler
<1>5. rows \in SUBSET matching /\ rows \in SUBSET Nat /\ IsFiniteSet(rows)
    BY <1>3, FS_Subset DEF Slice
<1>6. /\ q \in Handler /\ q.at = "total" /\ q.rows = rows /\ q.offset = request[r].offset
      /\ q.wanted = request[r].wanted /\ q.seen = request[r].seen \cup rows
    BY <1>1, <1>5 DEF Handler, Handled
<1>7. PageSound(q, matching)
    BY <1>3, <1>4, <1>5, <1>6, SliceFits DEF PageSound
<1>8. q.wanted \subseteq matching
    BY <1>1, <1>6 DEF Sound, WalkSound
<1>9. ASSUME NEW i \in q.wanted \ q.seen PROVE q.offset + Limit <= Rank(matching, i)
    <2>1. i \in request[r].wanted \ request[r].seen /\ i \notin rows /\ i \in matching
        BY <1>6, <1>8, <1>9
    <2>2. request[r].offset <= Rank(matching, i) /\ Rank(matching, i) \in Nat
        BY <1>1, <1>3, <2>1, RankType DEF Sound, WalkSound
    <2>3. ~(Rank(matching, i) \in request[r].offset .. request[r].offset + Limit - 1)
        BY <2>1 DEF Slice
    <2> QED
        BY <1>4, <1>6, <2>2, <2>3
<1>10. ASSUME Cardinality(q.rows) < Limit PROVE q.wanted \subseteq q.seen
    <2>1. ASSUME NEW i \in q.wanted \ q.seen PROVE FALSE
        <3>1. i \in matching /\ Rank(matching, i) >= request[r].offset + Limit
            BY <1>3, <1>4, <1>6, <1>8, <1>9, <2>1, RankType
        <3>2. Cardinality(rows) >= Limit
            BY <1>3, <1>4, <3>1, SliceFull
        <3>3. Cardinality(rows) \in Nat
            BY <1>5, FS_CardinalityType
        <3> QED
            BY <1>4, <1>6, <1>10, <3>2, <3>3
    <2> QED
        BY <2>1
<1>11. WalkSound(q, matching)
    BY <1>6, <1>8, <1>9, <1>10 DEF WalkSound
<1>12. RoleSound(r, q)
    BY <1>1, <1>6 DEF RoleSound, Sound
<1>13. Sound(r, q, Of(ledger', Kinds[r]))
    BY <1>1, <1>7, <1>11, <1>12 DEF Sound
<1> HIDE DEF q
<1> QED
    BY <1>1, <1>2, <1>6, <1>13, OneMoves

LEMMA QueryTotalStep ==
    ASSUME RequestInv, NEW r \in Request, QueryTotal(r)
    PROVE  RequestInv'
<1> DEFINE matching == Of(ledger, Kinds[r])
           q == [request[r] EXCEPT !.at = "page", !.total = Cardinality(matching)]
<1>1. /\ request[r] \in Handler /\ Sound(r, request[r], matching) /\ request[r].at = "total"
      /\ ledger' = ledger /\ ledger \in Seq(Kind)
    BY DEF RequestInv, QueryTotal, Is
<1>2. request' = [request EXCEPT ![r] = q]
    BY MatchingIsOf DEF QueryTotal
<1>3. Cardinality(matching) \in Nat
    BY <1>1, OfType, FS_CardinalityType
<1>4. /\ q \in Handler /\ q.at = "page" /\ q.rows = request[r].rows
      /\ q.offset = request[r].offset /\ q.total = Cardinality(matching)
      /\ q.wanted = request[r].wanted /\ q.seen = request[r].seen
    BY <1>1, <1>3 DEF Handler
<1>5. Sound(r, q, Of(ledger', Kinds[r]))
    <2> HIDE DEF q
    <2> QED
        BY <1>1, <1>3, <1>4 DEF Sound, RoleSound, PageSound, WalkSound
<1> HIDE DEF q
<1> QED
    BY <1>1, <1>2, <1>4, <1>5, OneMoves

LEMMA ArriveStep ==
    ASSUME RequestInv, NEW r \in Request, NEW c \in Container, Arrive(r, c)
    PROVE  RequestInv'
<1> DEFINE matching == Of(ledger, Kinds[r])
           offset == IF Is(r, "page") THEN request[r].offset + Limit ELSE request[r].offset
           wanted == IF Is(r, "idle") /\ r \in Reader THEN matching ELSE request[r].wanted
           q == [request[r] EXCEPT !.at = "pool", !.container = c, !.rows = {}, !.total = 0,
                                   !.offset = offset, !.wanted = wanted]
<1>1. /\ request[r] \in Handler /\ Sound(r, request[r], matching)
      /\ request[r].at \in {"idle", "page"} /\ ledger' = ledger /\ ledger \in Seq(Kind)
    BY DEF RequestInv, Arrive, Is, LastPage
<1>2. CASE ~ready[c]
    BY <1>1, <1>2, AnswerStep DEF Arrive
<1>3. CASE ready[c]
    <2>1. request' = [request EXCEPT ![r] = q]
        BY <1>3, MatchingIsOf DEF Arrive
    <2>2. matching \in SUBSET Nat /\ IsFiniteSet(matching)
        BY <1>1, OfType
    <2>3. request[r].offset \in Nat /\ Limit \in Nat
        BY <1>1, ServiceAssumption DEF Handler
    <2>4. offset \in Nat /\ wanted \in SUBSET Nat
        BY <1>1, <2>2, <2>3 DEF Handler
    <2> HIDE DEF offset, wanted
    <2>5. /\ q \in Handler /\ q.at = "pool" /\ q.seen = request[r].seen
          /\ q.offset = offset /\ q.wanted = wanted
        BY <1>1, <2>4 DEF Handler, Handled
    <2> HIDE DEF q
    <2>6. WalkSound(q, matching)
        <3>1. CASE request[r].at = "idle"
            <4>1. request[r] = Fresh /\ q.offset = 0 /\ q.wanted \subseteq matching
                BY <1>1, <2>5, <3>1 DEF Sound, RoleSound, Fresh, Is, offset, wanted
            <4>2. \A i : Rank(matching, i) \in Nat
                BY <2>2, RankType
            <4> QED
                BY <2>5, <4>1, <4>2 DEF WalkSound
        <3>2. CASE request[r].at = "page"
            BY <1>1, <2>5, <3>2 DEF Sound, WalkSound, Is, offset, wanted
        <3> QED
            BY <1>1, <3>1, <3>2
    <2>7. Sound(r, q, Of(ledger', Kinds[r]))
        BY <1>1, <2>5, <2>6 DEF Sound, RoleSound, PageSound
    <2> QED
        BY <1>1, <2>1, <2>5, <2>7, OneMoves
<1> QED
    BY <1>2, <1>3

LEMMA CrashStep ==
    ASSUME RequestInv, NEW c \in Container, Crash(c)
    PROVE  RequestInv'
<1> DEFINE mine == {r \in Request : request[r].container = c /\ request[r].at \in Handled}
<1>1. /\ ledger' = ledger /\ ledger \in Seq(Kind)
      /\ request' = [r \in Request |-> IF r \in mine THEN [Fresh EXCEPT !.at = "503"]
                                       ELSE request[r]]
    BY DEF Crash, RequestInv
<1>2. ASSUME NEW r \in Request
      PROVE  request'[r] \in Handler /\ Sound(r, request'[r], Of(ledger', Kinds[r]))
    BY <1>1, AnswerSound DEF RequestInv
<1> QED
    BY <1>1, <1>2 DEF RequestInv

\* What a handler knows holds after every step of the service.
LEMMA RequestInvStep ==
    ASSUME RequestInv, [Next]_vars
    PROVE  RequestInv'
<1>1. ASSUME NEW r \in Request, Handle(r) PROVE RequestInv'
    <2>1. CASE GetClient(r)
        <3>1. CASE r \in Reader
            BY <2>1, <3>1, ProceedStep DEF GetClient, Is, Handled
        <3>2. CASE r \in Appender
            <4>1. r \notin Reader
                BY <3>2, ServiceAssumption
            <4> QED
                BY <2>1, <3>2, <4>1, ProceedStep DEF GetClient, Handled
        <3> QED
            BY <3>1, <3>2 DEF Request
    <2>2. CASE WaitTimeout(r)
        BY <2>2, AnswerStep DEF WaitTimeout
    <2>3. CASE AppendLock(r)
        <3>1. r \in Appender
            BY <2>3 DEF AppendLock, Is, RequestInv, Sound, RoleSound
        <3> QED
            BY <2>3, <3>1, ProceedStep DEF AppendLock, Handled
    <2>4. CASE AppendCommit(r)
        BY <2>4, AnswerStep, KindsType DEF AppendCommit, Insert
    <2>5. CASE QueryRows(r)
        BY <2>5, QueryRowsStep
    <2>6. CASE QueryTotal(r)
        BY <2>6, QueryTotalStep
    <2>7. CASE WalkEnds(r)
        BY <2>7, AnswerStep DEF WalkEnds
    <2> QED
        BY <1>1, <2>1, <2>2, <2>3, <2>4, <2>5, <2>6, <2>7 DEF Handle
<1>2. ASSUME NEW r \in Request, RequestFails(r) PROVE RequestInv'
    BY <1>2, AnswerStep, KindsType DEF RequestFails, Insert
<1>3. ASSUME UNCHANGED <<ledger, request>> PROVE RequestInv'
    BY <1>3 DEF RequestInv
<1> QED
    BY <1>1, <1>2, <1>3, ArriveStep, CrashStep DEF Next, vars, Initialise, PostgresReaps

-----------------------------------------------------------------------------
(* What a migration knows.                                                 *)

Migrating == {"schema", "policies", "topology", "commit"}

\* A migration that is past its first statement holds the lock.
LockInv ==
    /\ lock \in {NoSession, DeadSession} \cup Container \cup Appender
    /\ \A c \in Container : init[c] \in Migrating => lock = c

\* Its transaction holds no row that would conflict with one of the tables.
DraftInv ==
    \A c \in Container :
        /\ init[c] \notin {"topology", "commit"} => draft[c] = NoRows
        /\ init[c] = "topology" => draft[c].hosts = {}
        /\ \A p \in draft[c].policies : policies[p] = "none"
        /\ draft[c].hosts # {} => topology = {}
        /\ draft[c].hosts \in {{}, Seed}

\* A container that serves is done, and one that is done found or left the
\* tables there.
ReadyInv ==
    \A c \in Container :
        /\ ready[c] => init[c] = "done"
        /\ init[c] \in {"store", "done"} => schema

\* As long as no operator edits them, the tables hold all the rows or none, a
\* transaction all of those that are missing, and the tables all of them once
\* a container is done.
UneditedInv ==
    edits = 0 =>
        /\ \A p \in Policy : policies[p] # "off"
        /\ topology \in {{}, Seed}
        /\ \A c \in Container :
              /\ init[c] \in {"topology", "commit"} =>
                    \A p \in Policy : policies[p] = "none" => p \in draft[c].policies
              /\ init[c] = "commit" /\ topology = {} => draft[c].hosts = Seed
              /\ init[c] \in {"store", "done"} =>
                    topology = Seed /\ \A p \in Policy : policies[p] = "on"

StartupInv == StartupOK /\ LockInv /\ DraftInv /\ ReadyInv /\ UneditedInv

\* Sessions, handlers and the two values of a lock that is nobody's.
LEMMA Sessions ==
    /\ NoSession # DeadSession
    /\ \A c \in Container : c # NoSession /\ c # DeadSession /\ c \notin Request
    /\ \A r \in Request : r # NoSession /\ r # DeadSession
BY StartupAssumption, ServiceAssumption DEF Request

\* Whoever migrates, migrates alone.
LEMMA MigratesAlone ==
    ASSUME StartupInv, NEW c \in Container, init[c] \in Migrating,
           NEW d \in Container, d # c
    PROVE  init[d] \notin Migrating /\ draft[d] = NoRows
BY DEF StartupInv, LockInv, DraftInv, Migrating

LEMMA InitLockStep ==
    ASSUME StartupInv, NEW c \in Container, InitLock(c)
    PROVE  StartupInv'
<1>1. /\ lock = NoSession /\ lock' = c /\ init' = [init EXCEPT ![c] = "schema"]
      /\ init[c] = "lock" /\ UNCHANGED <<schema, policies, topology, draft, ready, faults, edits>>
    BY DEF InitLock, At, Goto, database
<1>2. \A d \in Container : init[d] \notin Migrating
    BY <1>1, Sessions DEF StartupInv, LockInv
<1>3. StartupOK'
    BY <1>1 DEF StartupInv, StartupOK, InTransaction
<1>4. LockInv'
    BY <1>1, <1>2 DEF StartupInv, StartupOK, LockInv, Migrating
<1>5. DraftInv' /\ ReadyInv'
    BY <1>1 DEF StartupInv, StartupOK, DraftInv, ReadyInv
<1>6. UneditedInv'
    BY <1>1 DEF StartupInv, StartupOK, UneditedInv
<1> QED
    BY <1>3, <1>4, <1>5, <1>6 DEF StartupInv

\* CREATE TABLE IF NOT EXISTS meets no other transaction.
LEMMA InitSchemaAlone ==
    ASSUME StartupInv, NEW c \in Container, InitSchema(c)
    PROVE  init[c] = "schema" /\ init' = [init EXCEPT ![c] = "policies"]
<1>1. init[c] \in Migrating /\ init[c] = "schema"
    BY DEF InitSchema, At, Migrating
<1>2. \A d \in Container : init[d] \notin {"policies", "topology", "commit"}
    BY <1>1, MigratesAlone DEF Migrating
<1> QED
    BY <1>1, <1>2 DEF InitSchema, Goto

LEMMA InitSchemaStep ==
    ASSUME StartupInv, NEW c \in Container, InitSchema(c)
    PROVE  StartupInv'
<1>1. /\ init[c] = "schema" /\ init' = [init EXCEPT ![c] = "policies"]
      /\ UNCHANGED <<schema, policies, topology, lock, draft, ready, faults, edits>>
    BY InitSchemaAlone DEF InitSchema, database
<1>2. StartupOK'
    BY <1>1 DEF StartupInv, StartupOK, InTransaction
<1>3. LockInv'
    BY <1>1 DEF StartupInv, StartupOK, LockInv, Migrating
<1>4. DraftInv' /\ ReadyInv'
    BY <1>1 DEF StartupInv, StartupOK, DraftInv, ReadyInv
<1>5. UneditedInv'
    BY <1>1 DEF StartupInv, StartupOK, UneditedInv
<1> QED
    BY <1>2, <1>3, <1>4, <1>5 DEF StartupInv

LEMMA InitPoliciesStep ==
    ASSUME StartupInv, NEW c \in Container, InitPolicies(c)
    PROVE  StartupInv'
<1> DEFINE missing == {p \in Policy : policies[p] = "none"}
<1>1. /\ init[c] = "policies" /\ init' = [init EXCEPT ![c] = "topology"]
      /\ draft' = [draft EXCEPT ![c].policies = missing]
      /\ UNCHANGED <<schema, policies, topology, lock, ready, faults, edits>>
    BY DEF InitPolicies, database, At, Goto
<1>2. draft[c] = NoRows
    BY <1>1 DEF StartupInv, DraftInv
<1>3. StartupOK'
    BY <1>1 DEF StartupInv, StartupOK, InTransaction
<1>4. /\ draft'[c].policies = missing /\ draft'[c].hosts = {}
      /\ \A d \in Container : d # c => draft'[d] = draft[d]
    BY <1>1, <1>2 DEF StartupInv, StartupOK, NoRows
<1>5. LockInv'
    BY <1>1 DEF StartupInv, StartupOK, LockInv, Migrating
<1>6. DraftInv' /\ ReadyInv'
    BY <1>1, <1>4 DEF StartupInv, StartupOK, DraftInv, ReadyInv
<1>7. UneditedInv'
    BY <1>1, <1>4 DEF StartupInv, StartupOK, UneditedInv
<1> QED
    BY <1>3, <1>5, <1>6, <1>7 DEF StartupInv

LEMMA InitTopologyStep ==
    ASSUME StartupInv, NEW c \in Container, InitTopology(c)
    PROVE  StartupInv'
<1> DEFINE hosts == IF topology = {} THEN Seed ELSE {}
<1>1. /\ init[c] = "topology" /\ init' = [init EXCEPT ![c] = "commit"]
      /\ draft' = [draft EXCEPT ![c].hosts = hosts]
      /\ UNCHANGED <<schema, policies, topology, lock, ready, faults, edits>>
    BY DEF InitTopology, database, At, Goto
<1>2. StartupOK'
    BY <1>1 DEF StartupInv, StartupOK, InTransaction
<1>3. /\ draft'[c].policies = draft[c].policies /\ draft'[c].hosts = hosts
      /\ \A d \in Container : d # c => draft'[d] = draft[d]
    BY <1>1 DEF StartupInv, StartupOK
<1>4. LockInv'
    BY <1>1 DEF StartupInv, StartupOK, LockInv, Migrating
<1>5. DraftInv' /\ ReadyInv'
    BY <1>1, <1>3 DEF StartupInv, StartupOK, DraftInv, ReadyInv
<1>6. UneditedInv'
    BY <1>1, <1>3 DEF StartupInv, StartupOK, UneditedInv
<1> QED
    BY <1>2, <1>4, <1>5, <1>6 DEF StartupInv

\* A transaction of container c is over: without a trace, or committed.
Ended(c) ==
    /\ UNCHANGED <<schema, policies, topology>> \/ (init[c] = "commit" /\ Committed(c))
    /\ Released(c)
    /\ draft' = [draft EXCEPT ![c] = NoRows]

\* The other migrations do not notice.
LEMMA EndedKeeps ==
    ASSUME StartupInv, NEW c \in Container, init[c] \in InTransaction, Ended(c),
           NEW next \in {"lock", "store"}, init' = [init EXCEPT ![c] = next],
           UNCHANGED <<ready, edits>>, faults' \in 0..MaxFaults,
           next = "store" => init[c] = "commit" /\ Committed(c)
    PROVE  StartupInv'
<1>1. StartupOK
    BY DEF StartupInv
<1>2. /\ \A d \in Container : d # c => init'[d] = init[d] /\ draft'[d] = draft[d]
      /\ init'[c] = next /\ draft'[c] = NoRows
    BY <1>1 DEF StartupOK, Ended
<1>3. StartupOK'
    BY <1>1, <1>2 DEF StartupOK, Ended, Committed, NoRows, InTransaction
<1>4. LockInv'
    BY <1>2, Sessions DEF StartupInv, LockInv, Ended, Released, Migrating
<1>5. CASE UNCHANGED <<schema, policies, topology>> /\ next = "lock"
    <2>1. DraftInv' /\ ReadyInv'
        BY <1>2, <1>5 DEF StartupInv, DraftInv, ReadyInv, NoRows, InTransaction
    <2>2. UneditedInv'
        BY <1>2, <1>5 DEF StartupInv, UneditedInv
    <2> QED
        BY <1>3, <1>4, <2>1, <2>2 DEF StartupInv
<1>6. CASE init[c] = "commit" /\ Committed(c)
    <2>1. \A d \in Container : d # c =>
            init'[d] \notin Migrating /\ draft'[d] = NoRows
        BY <1>2, <1>6, MigratesAlone DEF Migrating
    <2>2. DraftInv'
        BY <1>2, <2>1 DEF DraftInv, NoRows, Migrating
    <2>3. schema' = TRUE
        BY <1>6 DEF Committed
    <2>4. ReadyInv'
        BY <1>2, <2>3 DEF StartupInv, ReadyInv, InTransaction
    <2>5. /\ \A p \in Policy : policies'[p] = IF p \in draft[c].policies THEN "on" ELSE policies[p]
          /\ topology' = topology \cup draft[c].hosts
        BY <1>6 DEF Committed
    <2>6. ASSUME edits = 0
          PROVE  topology' = Seed /\ \A p \in Policy : policies'[p] = "on"
        <3>1. topology' = Seed
            BY <1>1, <1>6, <2>5, <2>6 DEF StartupInv, UneditedInv, StartupOK
        <3>2. ASSUME NEW p \in Policy PROVE policies'[p] = "on"
            <4>1. policies[p] \in {"none", "on", "off"} /\ policies[p] # "off"
                BY <1>1, <2>6 DEF StartupInv, UneditedInv, StartupOK
            <4> QED
                BY <1>6, <2>5, <2>6, <4>1 DEF StartupInv, UneditedInv
        <3> QED
            BY <3>1, <3>2
    <2>7. UneditedInv'
        BY <1>2, <2>1, <2>6 DEF UneditedInv, Migrating
    <2> QED
        BY <1>3, <1>4, <2>2, <2>4, <2>7 DEF StartupInv
<1> QED
    BY <1>5, <1>6 DEF Ended

LEMMA InitCommitStep ==
    ASSUME StartupInv, NEW c \in Container, InitCommit(c)
    PROVE  StartupInv'
<1>1. Ended(c) /\ init[c] = "commit" /\ Committed(c)
      /\ init' = [init EXCEPT ![c] = "store"] /\ UNCHANGED <<ready, faults, edits>>
    BY DEF InitCommit, Ended, At, Goto
<1> QED
    BY <1>1, EndedKeeps DEF StartupInv, StartupOK, InTransaction

LEMMA InitFailsStep ==
    ASSUME StartupInv, NEW c \in Container, InitFails(c)
    PROVE  StartupInv'
<1>1. Ended(c) /\ init[c] \in InTransaction
      /\ init' = [init EXCEPT ![c] = "lock"] /\ UNCHANGED <<ready, edits>>
    BY DEF InitFails, Ended, At, Goto, database
<1>2. faults' \in 0..MaxFaults
    BY StartupAssumption DEF InitFails, StartupInv, StartupOK
<1> QED
    BY <1>1, <1>2, EndedKeeps

LEMMA InitReadyStep ==
    ASSUME StartupInv, NEW c \in Container, InitReady(c)
    PROVE  StartupInv'
<1>1. /\ init[c] = "store" /\ init' = [init EXCEPT ![c] = "done"]
      /\ ready' = [ready EXCEPT ![c] = TRUE]
      /\ UNCHANGED <<schema, policies, topology, lock, draft, faults, edits>>
    BY DEF InitReady, database, At, Goto
<1>2. StartupOK'
    BY <1>1 DEF StartupInv, StartupOK, InTransaction
<1>3. LockInv'
    BY <1>1 DEF StartupInv, StartupOK, LockInv, Migrating
<1>4. DraftInv' /\ ReadyInv'
    BY <1>1 DEF StartupInv, StartupOK, DraftInv, ReadyInv
<1>5. UneditedInv'
    BY <1>1 DEF StartupInv, StartupOK, UneditedInv
<1> QED
    BY <1>2, <1>3, <1>4, <1>5 DEF StartupInv

LEMMA RestartStep ==
    ASSUME StartupInv, NEW c \in Container, NEW mine \in SUBSET Request,
           Restart(c, mine \cup {c})
    PROVE  StartupInv'
<1>1. StartupOK
    BY DEF StartupInv
<1>2. /\ init' = [init EXCEPT ![c] = "lock"] /\ draft' = [draft EXCEPT ![c] = NoRows]
      /\ ready' = [ready EXCEPT ![c] = FALSE]
      /\ lock' = IF lock \in mine \cup {c} THEN DeadSession ELSE lock
      /\ UNCHANGED <<schema, policies, topology, edits>>
    BY DEF Restart, database
<1>3. faults' \in 0..MaxFaults
    BY <1>1, StartupAssumption DEF Restart, StartupOK
<1>4. StartupOK'
    BY <1>1, <1>2, <1>3 DEF StartupOK, InTransaction, NoRows
<1>5. LockInv'
    BY <1>1, <1>2, Sessions DEF StartupInv, StartupOK, LockInv, Migrating
<1>6. DraftInv' /\ ReadyInv'
    BY <1>1, <1>2 DEF StartupInv, StartupOK, DraftInv, ReadyInv, NoRows
<1>7. UneditedInv'
    BY <1>1, <1>2 DEF StartupInv, StartupOK, UneditedInv
<1> QED
    BY <1>4, <1>5, <1>6, <1>7 DEF StartupInv

LEMMA EditStep ==
    ASSUME StartupInv, Edit
    PROVE  StartupInv'
<1>1. StartupOK /\ UNCHANGED <<schema, lock, init, draft, ready, faults>>
    BY DEF StartupInv, Edit
<1>2. edits' \in 0..MaxEdits /\ edits' # 0
    BY <1>1, StartupAssumption DEF StartupOK, Edit
<1>3. ASSUME NEW p \in Policy, EditPolicy(p) PROVE StartupOK' /\ DraftInv'
    <2>1. policies[p] # "none" /\ UNCHANGED topology
          /\ \E v \in {"none", "on", "off"} : policies' = [policies EXCEPT ![p] = v]
        BY <1>3 DEF EditPolicy
    <2>2. StartupOK'
        BY <1>1, <1>2, <2>1 DEF StartupOK
    <2>3. DraftInv'
        BY <1>1, <2>1 DEF StartupInv, StartupOK, DraftInv
    <2> QED
        BY <2>2, <2>3
<1>4. ASSUME NEW deleted \in SUBSET Seed, EditTopology(deleted) PROVE StartupOK' /\ DraftInv'
    <2>1. topology' = topology \ deleted /\ UNCHANGED policies
        BY <1>4 DEF EditTopology
    <2>2. StartupOK'
        BY <1>1, <1>2, <2>1 DEF StartupOK
    <2>3. DraftInv'
        BY <1>1, <2>1 DEF StartupInv, StartupOK, DraftInv
    <2> QED
        BY <2>2, <2>3
<1>5. StartupOK' /\ DraftInv'
    BY <1>3, <1>4 DEF Edit
<1>6. LockInv' /\ ReadyInv' /\ UneditedInv'
    BY <1>1, <1>2 DEF StartupInv, LockInv, ReadyInv, UneditedInv
<1> QED
    BY <1>5, <1>6 DEF StartupInv

\* The lock goes to a handler, comes back from one, or from a dead session.
LEMMA LockMoves ==
    ASSUME StartupInv, UNCHANGED <<schema, policies, topology, init, draft, ready, edits>>,
           faults' \in 0..MaxFaults,
           \/ lock = NoSession /\ lock' \in Appender
           \/ lock \notin Container /\ lock' = NoSession
           \/ lock' = lock
    PROVE  StartupInv'
<1>1. StartupOK' /\ DraftInv' /\ ReadyInv' /\ UneditedInv'
    BY DEF StartupInv, StartupOK, DraftInv, ReadyInv, UneditedInv
<1>2. LockInv'
    BY Sessions DEF StartupInv, LockInv
<1> QED
    BY <1>1, <1>2 DEF StartupInv

\* What the migrations know holds after every step of the service.
LEMMA StartupInvStep ==
    ASSUME StartupInv, RequestInv, [Next]_vars
    PROVE  StartupInv'
<1>0. faults \in 0..MaxFaults
    BY DEF StartupInv, StartupOK
<1>1. ASSUME NEW c \in Container, InitStep(c) PROVE StartupInv'
    BY <1>1, InitLockStep, InitSchemaStep, InitPoliciesStep, InitTopologyStep,
       InitCommitStep, InitReadyStep DEF InitStep
<1>2. ASSUME NEW c \in Container, Crash(c) PROVE StartupInv'
    BY <1>2, RestartStep DEF Crash
<1>3. ASSUME UNCHANGED startupVars PROVE StartupInv'
    BY <1>0, <1>3, LockMoves DEF startupVars, database
<1>4. ASSUME NEW r \in Request, Handle(r) PROVE StartupInv'
    <2>1. CASE GetClient(r) \/ WaitTimeout(r) \/ QueryRows(r) \/ QueryTotal(r) \/ WalkEnds(r)
        BY <1>3, <2>1 DEF GetClient, WaitTimeout, QueryRows, QueryTotal, WalkEnds
    <2>2. CASE AppendLock(r)
        <3>1. r \in Appender
            BY <2>2 DEF AppendLock, Is, RequestInv, Sound, RoleSound
        <3> QED
            BY <1>0, <2>2, <3>1, LockMoves DEF AppendLock, database
    <2>3. CASE AppendCommit(r)
        BY <1>0, <2>3, LockMoves, Sessions DEF AppendCommit, Released, database
    <2> QED
        BY <1>4, <2>1, <2>2, <2>3 DEF Handle
<1>5. ASSUME NEW r \in Request, RequestFails(r) PROVE StartupInv'
    <2>1. faults' \in 0..MaxFaults
        BY <1>0, <1>5, StartupAssumption DEF RequestFails
    <2> QED
        BY <1>5, <2>1, LockMoves, Sessions DEF RequestFails, Released, database
<1>6. ASSUME NEW r \in Request, NEW c \in Container, Arrive(r, c) PROVE StartupInv'
    BY <1>3, <1>6 DEF Arrive
<1>7. ASSUME Reap PROVE StartupInv'
    BY <1>0, <1>7, LockMoves, Sessions DEF Reap, database
<1>8. CASE Next
    BY <1>1, <1>2, <1>4, <1>5, <1>6, <1>7, <1>8, InitFailsStep, EditStep
       DEF Next, Initialise, PostgresReaps
<1> QED
    BY <1>3, <1>8 DEF vars

-----------------------------------------------------------------------------
(* The theorems.                                                           *)

IInv == StartupInv /\ RequestInv

\* What migrations and handlers know is known at the beginning and stays known
\* in every step (init_once of db.rs; db_client, list and append).
THEOREM SpecIInv == Spec => []IInv
<1>1. ASSUME Init PROVE IInv
    <2>1. StartupInv
        <3>1. StartupOK
            <4>1. NoRows \in [policies : SUBSET Policy, hosts : SUBSET Seed]
                BY DEF NoRows
            <4>2. 0 \in 0..MaxFaults /\ 0 \in 0..MaxEdits
                BY StartupAssumption
            <4>3. policies \in [Policy -> {"none", "on", "off"}] /\ ready \in [Container -> BOOLEAN]
                BY <1>1 DEF Init, InitStartup
            <4>4. init \in [Container -> InTransaction \cup {"store", "done"}]
                BY <1>1 DEF Init, InitStartup, InTransaction
            <4> QED
                BY <1>1, <4>1, <4>2, <4>3, <4>4 DEF Init, InitStartup, StartupOK
        <3>2. LockInv /\ DraftInv /\ ReadyInv /\ UneditedInv
            BY <1>1 DEF Init, InitStartup, LockInv, DraftInv, ReadyInv, UneditedInv, NoRows,
                        Migrating
        <3> QED
            BY <3>1, <3>2 DEF StartupInv
    <2>2. RequestInv
        <3>1. ledger \in Seq(Kind) /\ request \in [Request -> Handler]
            BY <1>1, FreshType DEF Init
        <3>2. ASSUME NEW r \in Request PROVE Sound(r, request[r], Of(ledger, Kinds[r]))
            <4>1. request[r] = Fresh /\ Fresh.at = "idle"
                BY <1>1 DEF Init, Fresh
            <4> QED
                BY <4>1 DEF Sound, RoleSound, PageSound, WalkSound
        <3> QED
            BY <3>1, <3>2 DEF RequestInv
    <2> QED
        BY <2>1, <2>2 DEF IInv
<1>2. IInv /\ [Next]_vars => IInv'
    BY StartupInvStep, RequestInvStep DEF IInv
<1> QED
    BY <1>1, <1>2, PTL DEF Spec

\* Every variable of Service and Startup stays in its type, for any constants.
THEOREM TypeCorrect == Spec => []TypeOK
<1>1. IInv => TypeOK
    BY DEF IInv, StartupInv, LockInv, RequestInv, Handler, TypeOK
<1> QED
    BY <1>1, SpecIInv, PTL

\* However many containers migrate and fail, none hands out clients before the
\* tables are there and, unless an operator has edited them, complete
\* (init_with_retry of db.rs stores db_ready last).
THEOREM ReadyMeansComplete == Spec => []ServesCompleteSchema
<1>1. IInv => ServesCompleteSchema
    BY DEF IInv, StartupInv, ReadyInv, UneditedInv, ServesCompleteSchema
<1> QED
    BY <1>1, SpecIInv, PTL

\* For any page size and any appends between its two queries, a page fits into
\* its total (list of ledger.rs).
THEOREM PagesFit == Spec => []PageFitsTotal
<1>1. ASSUME IInv PROVE PageFitsTotal
    <2>1. ASSUME NEW r \in Reader, Is(r, "page")
          PROVE  /\ request[r].rows # {} =>
                      request[r].offset + Cardinality(request[r].rows) <= request[r].total
                 /\ request[r].total <= Cardinality(Matching(Kinds[r]))
        BY <1>1, <2>1, MatchingIsOf DEF IInv, RequestInv, Request, Sound, PageSound, Is
    <2> QED
        BY <2>1 DEF PageFitsTotal
<1> QED
    BY <1>1, SpecIInv, PTL

\* However many entries are appended between two of its pages, a caller that
\* reads to the end misses none of those there were (list of ledger.rs, ORDER
\* BY id DESC LIMIT OFFSET).
THEOREM WalksAreComplete == Spec => []WalkSkipsNothing
<1>1. ASSUME IInv PROVE WalkSkipsNothing
    BY <1>1 DEF IInv, RequestInv, Request, Sound, WalkSound, WalkSkipsNothing, LastPage, Is
<1> QED
    BY <1>1, SpecIInv, PTL

\* No migration of any container, whenever it runs and however it ends, touches
\* a policy whose row is there or a topology that has a row: a deleted host
\* comes back only when all were deleted, and then with all the others (ON
\* CONFLICT DO NOTHING and the test of an empty topology, in init_once of db.rs).
THEOREM MigrationsKeepEdits == Spec => EditsSurvive
<1> DEFINE Kept == edits' = edits =>
                      /\ \A p \in Policy : policies[p] # "none" => policies'[p] = policies[p]
                      /\ topology' # topology => topology = {} /\ topology' = Seed
<1>1. ASSUME IInv, [Next]_vars PROVE Kept
    <2>1. UNCHANGED <<policies, topology>> => Kept
        OBVIOUS
    <2>2. ASSUME NEW c \in Container, Committed(c) PROVE Kept
        BY <1>1, <2>2 DEF Committed, IInv, StartupInv, DraftInv
    <2>3. ASSUME NEW c \in Container, InitStep(c) PROVE Kept
        BY <2>1, <2>2, <2>3 DEF InitStep, InitLock, InitSchema, InitPolicies, InitTopology,
              InitCommit, InitReady, database
    <2>4. ASSUME NEW c \in Container, InitFails(c) PROVE Kept
        BY <2>1, <2>2, <2>4 DEF InitFails, database
    <2>5. ASSUME NEW c \in Container, Crash(c) PROVE Kept
        BY <2>1, <2>5 DEF Crash, Restart, database
    <2>6. ASSUME NEW r \in Request, Handle(r) PROVE Kept
        BY <2>1, <2>6 DEF Handle, GetClient, WaitTimeout, AppendLock, AppendCommit,
              QueryRows, QueryTotal, WalkEnds, startupVars, database
    <2>7. ASSUME NEW r \in Request, RequestFails(r) PROVE Kept
        BY <2>1, <2>7 DEF RequestFails, database
    <2>8. ASSUME NEW r \in Request, NEW c \in Container, Arrive(r, c) PROVE Kept
        BY <2>1, <2>8 DEF Arrive, startupVars, database
    <2>9. Reap => Kept
        BY <2>1 DEF Reap, database
    <2>10. Edit => Kept
        BY <1>1 DEF Edit, IInv, StartupInv, StartupOK
    <2>11. UNCHANGED vars => Kept
        BY <2>1 DEF vars, startupVars, database
    <2> QED
        BY <1>1, <2>3, <2>4, <2>5, <2>6, <2>7, <2>8, <2>9, <2>10, <2>11
           DEF Next, Initialise, PostgresReaps
<1>2. IInv /\ [Next]_vars => [Kept]_vars
    BY <1>1
<1> QED
    BY <1>2, SpecIInv, PTL DEF Spec, EditsSurvive

\* However many containers come up at once, a migration starts over only after
\* a fault, never because of another one (ADVISORY_LOCK_KEY, db.rs).
THEOREM MigrationsDoNotCollide == Spec => InitsDoNotCollide
<1> DEFINE Orderly == \A c \in Container :
                         init[c] # "lock" /\ init'[c] = "lock" => faults' # faults
<1>1. ASSUME IInv, [Next]_vars PROVE Orderly
    <2>0. faults \in Nat /\ init \in [Container -> InTransaction \cup {"store", "done"}]
        BY <1>1, StartupAssumption DEF IInv, StartupInv, StartupOK
    <2>1. init' = init => Orderly
        OBVIOUS
    <2>2. faults' = faults + 1 => Orderly
        BY <2>0
    <2>3. ASSUME NEW c \in Container, InitStep(c) PROVE Orderly
        <3>1. ASSUME NEW next \in {"schema", "policies", "topology", "commit", "store", "done"},
                     init' = [init EXCEPT ![c] = next]
              PROVE  Orderly
            BY <2>0, <3>1
        <3>2. CASE InitSchema(c)
            BY <1>1, <3>1, <3>2, InitSchemaAlone DEF IInv
        <3>3. CASE InitLock(c) \/ InitPolicies(c) \/ InitTopology(c) \/ InitCommit(c) \/ InitReady(c)
            BY <3>1, <3>3 DEF InitLock, InitPolicies, InitTopology, InitCommit, InitReady, Goto
        <3> QED
            BY <2>3, <3>2, <3>3 DEF InitStep
    <2>4. ASSUME NEW r \in Request, Handle(r) PROVE Orderly
        BY <2>1, <2>4 DEF Handle, GetClient, WaitTimeout, AppendLock, AppendCommit,
              QueryRows, QueryTotal, WalkEnds, startupVars
    <2>5. ASSUME NEW r \in Request, NEW c \in Container, Arrive(r, c) PROVE Orderly
        BY <2>1, <2>5 DEF Arrive, startupVars
    <2>6. ASSUME NEW c \in Container, InitFails(c) \/ Crash(c) PROVE Orderly
        BY <2>2, <2>6 DEF InitFails, Crash, Restart
    <2>7. ASSUME NEW r \in Request, RequestFails(r) PROVE Orderly
        BY <2>2, <2>7 DEF RequestFails
    <2>8. Reap \/ Edit \/ UNCHANGED vars => Orderly
        BY <2>1 DEF Reap, Edit, vars, startupVars
    <2> QED
        BY <1>1, <2>3, <2>4, <2>5, <2>6, <2>7, <2>8 DEF Next, Initialise, PostgresReaps
<1>2. IInv /\ [Next]_vars => [Orderly]_vars
    BY <1>1
<1> QED
    BY <1>2, SpecIInv, PTL DEF Spec, InitsDoNotCollide
=============================================================================
