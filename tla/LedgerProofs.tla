---------------------------- MODULE LedgerProofs ----------------------------
(***************************************************************************)
(* Proofs about Ledger for any set of calls, clock readings and params.    *)
(*                                                                         *)
(* The argument in one paragraph.  A transaction that has computed its row *)
(* holds the advisory lock until it ends (LockInv), so the table cannot    *)
(* change under it: its row still extends the head it read (RowInv).  The  *)
(* committed rows therefore stay a gapless chain (TableInv, ChainInv), and *)
(* what a caller is told follows its own committed row (CallInv).          *)
(***************************************************************************)
EXTENDS Ledger, SequenceTheorems, TLAPS

-----------------------------------------------------------------------------
(* Lemmas on the operators.                                                *)

\* A greatest element of a set of integers is its Max.
LEMMA MaxOfSet ==
    ASSUME NEW S \in SUBSET Int, NEW m \in S, \A x \in S : m >= x
    PROVE  Max(S) = m
<1>1. Max(S) \in S /\ \A x \in S : Max(S) >= x
    BY DEF Max
<1>2. \A x, y \in Int : x >= y /\ y >= x => x = y
    OBVIOUS
<1>3. Max(S) \in Int /\ m \in Int
    BY <1>1
<1> QED
    BY <1>1, <1>2, <1>3

\* The newest row of a gapless table is the one numbered with its length.
LEMMA HeadOfTable ==
    ASSUME NEW table, NEW n \in Nat, DOMAIN table = 1..n
    PROVE  LedgerHead(table) =
             [id |-> n, hmac |-> IF n = 0 THEN GENESIS ELSE table[n].hmac]
<1>1. CASE n = 0
    BY <1>1 DEF LedgerHead
<1>2. CASE n # 0
    <2>1. /\ DOMAIN table \in SUBSET Int /\ n \in DOMAIN table
          /\ \A j \in DOMAIN table : n >= j
        BY <1>2
    <2>2. Max(DOMAIN table) = n
        BY <2>1, MaxOfSet
    <2> QED
        BY <2>1, <2>2, <1>2 DEF LedgerHead
<1> QED
    BY <1>1, <1>2

\* The digest carried into a row of a gapless table is that of the row before.
LEMMA PrevOfTable ==
    ASSUME NEW table, NEW n \in Nat, DOMAIN table = 1..n, NEW i \in 1..n
    PROVE  PrevHmac(table, i) = IF i = 1 THEN GENESIS ELSE table[i - 1].hmac
<1> DEFINE before == {j \in DOMAIN table : j < i}
<1>1. CASE i = 1
    <2>1. before = {}
        BY <1>1
    <2> QED
        BY <1>1, <2>1 DEF PrevHmac
<1>2. CASE i # 1
    <2>1. before \in SUBSET Int /\ i - 1 \in before /\ \A k \in before : i - 1 >= k
        BY <1>2
    <2>2. Max(before) = i - 1
        BY <2>1, MaxOfSet
    <2>3. PrevHmac(table, i) = table[Max(before)].hmac
        BY <2>1, Zenon DEF PrevHmac
    <2> QED
        BY <2>2, <2>3, <1>2
<1> QED
    BY <1>1, <1>2

\* Signing a row yields a digest one term longer than the one before it.
LEMMA HmacHexType ==
    ASSUME NEW e, e.id \in Nat, e.ts \in Nat, e.new \in Request,
           e.params \in ParamsClass, e.prev_hmac \in Digest
    PROVE  HmacHex(SigningKey, e) \in Digest
BY DEF HmacHex, CanonicalString, Digest

\* What append signs after a head with a natural id is a row.
LEMMA SignedRowType ==
    ASSUME NEW r \in Request, NEW t \in Nat, asked[r] \in ParamsClass,
           NEW prev, prev.id \in Nat, prev.hmac \in Digest
    PROVE  SignedRow(r, t, prev) \in Row
<1> DEFINE e == [id |-> prev.id + 1, ts |-> TsString(NowMicros(t)), new |-> r,
                 params |-> NormalizeParams(asked[r]), prev_hmac |-> prev.hmac]
<1>1. NowMicros(t) \in Nat
    BY DEF NowMicros
<1>2. TsString(NowMicros(t)) \in Nat
    BY <1>1 DEF TsString
<1>3. NormalizeParams(asked[r]) \in ParamsClass
    BY DEF NormalizeParams, ParamsClass
<1>4. HmacHex(SigningKey, e) \in Digest
    <2>1. /\ e.id \in Nat /\ e.ts \in Nat /\ e.new \in Request
          /\ e.params \in ParamsClass /\ e.prev_hmac \in Digest
        BY <1>2, <1>3
    <2> QED
        BY <2>1, HmacHexType
<1> QED
    BY <1>1, <1>2, <1>3, <1>4 DEF SignedRow, Row

\* What the database stores of a row reads back as an entry.
LEMMA StoredRowType ==
    ASSUME NEW e \in Row
    PROVE  StoredRow(e) \in Entry
BY DEF StoredRow, Row, Entry, Timestamptz, Jsonb, ParamsClass

-----------------------------------------------------------------------------
(* The inductive invariant.                                                *)

Height == LedgerHead(ledger).id

\* Ids are gapless, so the head's id is the number of rows.
TableInv == Height \in Nat /\ DOMAIN ledger = 1..Height

\* The lock is held from the read of the head to the end of the transaction.
LockInv ==
    \A r \in Request :
        /\ lock = r => tx[r] \in Live
        /\ Prepared(r) => lock = r
        /\ tx[r] \in Live /\ pc[r] \in {"head", "insert", "commit"} => lock = r
        /\ tx[r] \in {"inserted", "committing", "committed"} => row[r].id # 0
        /\ pc[r] = "begin" => row[r].id = 0
        /\ pc[r] = "insert" => row[r].id # 0

\* What each call has signed is its own, and reads back from the database
\* as it was signed.
SignInv ==
    \A r \in Request : row[r].id # 0 =>
        /\ row[r].new = r
        /\ row[r].hmac = HmacHex(SigningKey, row[r])
        /\ row[r].ts = Timestamptz(row[r].at)
        /\ "wide_float" \notin Params => Jsonb(row[r].params) = row[r].params

\* The row of an open transaction still extends the newest committed row.
RowInv ==
    \A r \in Request : Prepared(r) =>
        /\ row[r].id = Height + 1
        /\ row[r].prev_hmac = LedgerHead(ledger).hmac

\* Each committed row is the one of its number, carries on from the one before
\* it, and its digest is the one recomputed from its columns.
ChainInv ==
    \A i \in DOMAIN ledger :
        /\ ledger[i].id = i
        /\ ledger[i].prev_hmac = IF i = 1 THEN GENESIS ELSE ledger[i - 1].hmac
        /\ "wide_float" \notin Params =>
              ledger[i].hmac = HmacHex(SigningKey, ledger[i])

\* A committed transaction has its row in the table, no other one has, and
\* Ok is only answered to a committed one.
CallInv ==
    \A r \in Request :
        /\ tx[r] = "committed" =>
              row[r].id \in DOMAIN ledger /\ ledger[row[r].id] = StoredRow(row[r])
        /\ \A i \in DOMAIN ledger :
              ledger[i].new = r => tx[r] = "committed" /\ i = row[r].id
        /\ pc[r] = "ok" => tx[r] = "committed"

IInv ==
    TypeOK /\ TableInv /\ LockInv /\ SignInv /\ RowInv /\ ChainInv /\ CallInv

\* The newest row's number and digest, in a table that TableInv describes.
LEMMA HeadFacts ==
    ASSUME TypeOK, TableInv
    PROVE  /\ Height \in Nat
           /\ LedgerHead(ledger).hmac =
                IF Height = 0 THEN GENESIS ELSE ledger[Height].hmac
           /\ LedgerHead(ledger).hmac \in Digest
<1>1. Height \in Nat /\ DOMAIN ledger = 1..Height
    BY DEF TableInv
<1>2. LedgerHead(ledger) =
        [id |-> Height, hmac |-> IF Height = 0 THEN GENESIS ELSE ledger[Height].hmac]
    BY <1>1, HeadOfTable
<1>3. CASE Height = 0
    BY <1>1, <1>2, <1>3, EmptySeq DEF GENESIS, Digest
<1>4. CASE Height # 0
    <2>1. ledger[Height] \in Entry
        BY <1>1, <1>4 DEF TypeOK
    <2> QED
        BY <1>1, <1>2, <1>4, <2>1 DEF Entry
<1> QED
    BY <1>3, <1>4

\* The one step that changes the table adds the caller's row at its end.
LEMMA CommitAppends ==
    ASSUME IInv, NEW r \in Request, Commit(r)
    PROVE  /\ row[r].id = Height + 1
           /\ row[r] \in Row
           /\ lock = r
           /\ DOMAIN ledger' = 1..(Height + 1)
           /\ ledger'[Height + 1] = StoredRow(row[r])
           /\ \A i \in 1..Height : ledger'[i] = ledger[i]
           /\ Height' = Height + 1
           /\ LedgerHead(ledger)'.hmac = row[r].hmac
<1>1. tx[r] = "committing" /\ row[r].id # 0
    BY DEF Commit, IInv, LockInv
<1>2. Prepared(r)
    BY <1>1 DEF Prepared, Live
<1>3. row[r].id = Height + 1 /\ lock = r
    BY <1>2 DEF IInv, RowInv, LockInv
<1>4. row[r] \in Row
    BY <1>1 DEF IInv, TypeOK, NoRow
<1>5. Height \in Nat /\ DOMAIN ledger = 1..Height
    BY DEF IInv, TableInv
<1>6. ledger' = [i \in 1..(Height + 1) |->
                    IF i = Height + 1 THEN StoredRow(row[r]) ELSE ledger[i]]
    <2>1. DOMAIN ledger \cup {row[r].id} = 1..(Height + 1)
        BY <1>3, <1>5
    <2> QED
        BY <2>1, <1>3 DEF Commit
<1>7. LedgerHead(ledger') = [id |-> Height + 1, hmac |-> ledger'[Height + 1].hmac]
    <2>1. DOMAIN ledger' = 1..(Height + 1) /\ Height + 1 \in Nat /\ Height + 1 # 0
        BY <1>5, <1>6
    <2> HIDE DEF Height
    <2> QED
        BY <2>1, HeadOfTable
<1>8. ledger'[Height + 1] = StoredRow(row[r]) /\ \A i \in 1..Height : ledger'[i] = ledger[i]
    BY <1>5, <1>6
<1>9. Height' = Height + 1
    BY <1>7 DEF Height
<1>10. LedgerHead(ledger)'.hmac = row[r].hmac
    BY <1>7, <1>8 DEF StoredRow
<1> QED
    BY <1>3, <1>4, <1>5, <1>6, <1>8, <1>9, <1>10

\* Every other step leaves the table alone.
LEMMA OthersKeepTable ==
    ASSUME NEW r \in Request, Step(r), ~Commit(r)
    PROVE  ledger' = ledger
BY DEF Step, Begin, AcquireLock, ReadHead, InsertRow, SendCommit, Return, Rollback, Raise

\* The initial state satisfies the inductive invariant.
LEMMA InitIInv == Init => IInv
<1> SUFFICES ASSUME Init PROVE IInv
    OBVIOUS
<1> USE DEF Init
<1>1. DOMAIN ledger = {} /\ 1..0 = {}
    OBVIOUS
<1>2. Height = 0
    BY <1>1 DEF Height, LedgerHead
<1>3. TypeOK
    BY <1>1, RequestAssumption DEF TypeOK, Pending, NoRow
<1>4. TableInv
    BY <1>1, <1>2 DEF TableInv
<1>5. LockInv
    BY RequestAssumption DEF LockInv, Prepared, Live, NoRow
<1>6. SignInv /\ RowInv
    BY DEF SignInv, RowInv, Prepared, NoRow
<1>7. ChainInv /\ CallInv
    BY <1>1 DEF ChainInv, CallInv
<1> QED
    BY <1>3, <1>4, <1>5, <1>6, <1>7 DEF IInv

-----------------------------------------------------------------------------
(* Each step preserves each part of the invariant.                         *)

LEMMA StepType ==
    ASSUME IInv, NEW r \in Request, Step(r)
    PROVE  TypeOK'
<1> USE RequestAssumption, ParamsAssumption, ClockAssumption DEF IInv, TypeOK
<1>1. CASE Begin(r)
    BY <1>1 DEF Begin, Pending, Live
<1>2. CASE AcquireLock(r)
    BY <1>2 DEF AcquireLock, Pending, Live
<1>3. CASE ReadHead(r)
    <2>1. PICK t \in Clock :
              row' = [row EXCEPT ![r] = SignedRow(r, t, LedgerHead(ledger))]
        BY <1>3 DEF ReadHead
    <2>2. LedgerHead(ledger).id \in Nat /\ LedgerHead(ledger).hmac \in Digest
        BY HeadFacts DEF Height
    <2>3. SignedRow(r, t, LedgerHead(ledger)) \in Row
        BY <2>2, SignedRowType
    <2> QED
        BY <1>3, <2>1, <2>3 DEF ReadHead, Pending, Live
<1>4. CASE InsertRow(r)
    BY <1>4 DEF InsertRow, Pending, Live
<1>5. CASE SendCommit(r)
    BY <1>5 DEF SendCommit, Pending, Live
<1>6. CASE Commit(r)
    <2>1. /\ row[r] \in Row
          /\ DOMAIN ledger' = 1..(Height + 1)
          /\ ledger'[Height + 1] = StoredRow(row[r])
          /\ \A i \in 1..Height : ledger'[i] = ledger[i]
        BY <1>6, CommitAppends
    <2>2. Height \in Nat /\ DOMAIN ledger = 1..Height
        BY DEF TableInv
    <2>3. \A i \in DOMAIN ledger' : ledger'[i] \in Entry
        BY <2>1, <2>2, StoredRowType
    <2>4. ledger' \in [DOMAIN ledger' -> Entry]
        BY <1>6, <2>3 DEF Commit
    <2> QED
        BY <1>6, <2>1, <2>2, <2>4 DEF Commit, Released, Live
<1>7. CASE Return(r)
    BY <1>7 DEF Return, Pending, Live
<1>8. CASE Rollback(r)
    BY <1>8 DEF Rollback, Released, Pending, Live
<1>9. CASE Raise(r)
    BY <1>9 DEF Raise, Pending, Live
<1> QED
    BY <1>1, <1>2, <1>3, <1>4, <1>5, <1>6, <1>7, <1>8, <1>9 DEF Step

LEMMA StepTable ==
    ASSUME IInv, NEW r \in Request, Step(r)
    PROVE  TableInv'
<1>1. CASE Commit(r)
    BY <1>1, CommitAppends DEF IInv, TableInv
<1>2. CASE ~Commit(r)
    BY <1>2, OthersKeepTable DEF IInv, TableInv, Height
<1> QED
    BY <1>1, <1>2

LEMMA StepLock ==
    ASSUME IInv, NEW r \in Request, Step(r)
    PROVE  LockInv'
<1> USE RequestAssumption DEF IInv, TypeOK, LockInv, Prepared, Live
<1>1. CASE Begin(r)
    BY <1>1 DEF Begin
<1>2. CASE AcquireLock(r)
    BY <1>2 DEF AcquireLock
<1>3. CASE ReadHead(r)
    <2>1. row'[r].id # 0 /\ \A q \in Request \ {r} : row'[q] = row[q]
        BY <1>3, HeadFacts DEF ReadHead, SignedRow, Height
    <2> QED
        BY <1>3, <2>1 DEF ReadHead
<1>4. CASE InsertRow(r)
    <2>1. row[r].id # 0
        BY <1>4 DEF InsertRow
    <2> QED
        BY <1>4, <2>1 DEF InsertRow
<1>5. CASE SendCommit(r)
    BY <1>5 DEF SendCommit
<1>6. CASE Commit(r)
    BY <1>6 DEF Commit, Released
<1>7. CASE Return(r)
    BY <1>7 DEF Return
<1>8. CASE Rollback(r)
    BY <1>8 DEF Rollback, Released
<1>9. CASE Raise(r)
    BY <1>9 DEF Raise
<1> QED
    BY <1>1, <1>2, <1>3, <1>4, <1>5, <1>6, <1>7, <1>8, <1>9 DEF Step

LEMMA StepSign ==
    ASSUME IInv, NEW r \in Request, Step(r)
    PROVE  SignInv'
<1> USE DEF IInv, SignInv
<1>1. CASE ReadHead(r)
    <2>1. PICK t \in Clock :
              row' = [row EXCEPT ![r] = SignedRow(r, t, LedgerHead(ledger))]
        BY <1>1 DEF ReadHead
    <2>2. asked[r] \in ParamsClass
          /\ ("wide_float" \notin Params => asked[r] # "wide_float")
        BY ParamsAssumption DEF TypeOK
    <2>3. row'[r] = SignedRow(r, t, LedgerHead(ledger))
        BY <2>1 DEF TypeOK
    <2>4. row'[r].new = r /\ row'[r].hmac = HmacHex(SigningKey, row'[r])
        BY <2>3 DEF SignedRow, HmacHex, CanonicalString
    <2>5. row'[r].ts = Timestamptz(row'[r].at)
        BY <2>3 DEF SignedRow, TsString, Timestamptz
    <2>6. "wide_float" \notin Params => Jsonb(row'[r].params) = row'[r].params
        BY <2>2, <2>3 DEF SignedRow, Jsonb, NormalizeParams, ParamsClass
    <2>7. \A q \in Request \ {r} : row'[q] = row[q]
        BY <2>1 DEF TypeOK
    <2> QED
        BY <2>4, <2>5, <2>6, <2>7
<1>2. CASE ~ReadHead(r)
    <2>1. row' = row
        BY <1>2 DEF Step, Begin, AcquireLock, InsertRow, SendCommit, Commit,
                    Return, Rollback, Raise
    <2> QED
        BY <2>1
<1> QED
    BY <1>1, <1>2

LEMMA StepRow ==
    ASSUME IInv, NEW r \in Request, Step(r)
    PROVE  RowInv'
<1>1. CASE ReadHead(r)
    <2>1. PICK t \in Clock :
              row' = [row EXCEPT ![r] = SignedRow(r, t, LedgerHead(ledger))]
        BY <1>1 DEF ReadHead
    <2>2. /\ row'[r].id = Height + 1
          /\ row'[r].prev_hmac = LedgerHead(ledger).hmac
        BY <2>1 DEF SignedRow, Height, IInv, TypeOK
    <2>3. \A q \in Request \ {r} : row'[q] = row[q]
        BY <2>1 DEF IInv, TypeOK
    <2>4. ledger' = ledger /\ tx' = tx
        BY <1>1 DEF ReadHead
    <2> QED
        BY <2>2, <2>3, <2>4 DEF IInv, RowInv, Prepared, Height
<1>2. CASE Commit(r)
    <2>1. lock = r
        BY <1>2, CommitAppends
    <2>2. tx' = [tx EXCEPT ![r] = "committed"] /\ row' = row
        BY <1>2 DEF Commit
    <2>3. \A q \in Request : ~Prepared(q)'
        BY <2>1, <2>2 DEF IInv, LockInv, Prepared, Live, TypeOK
    <2> QED
        BY <2>3 DEF RowInv
<1>3. CASE ~ReadHead(r) /\ ~Commit(r)
    <2>1. ledger' = ledger /\ row' = row
        BY <1>3, OthersKeepTable
           DEF Step, Begin, AcquireLock, InsertRow, SendCommit, Return, Rollback, Raise
    <2>2. \A q \in Request : Prepared(q)' => Prepared(q)
        BY <1>3, <2>1
           DEF Step, Begin, AcquireLock, InsertRow, SendCommit, Return, Rollback, Raise,
               Prepared, Live, IInv, TypeOK, LockInv
    <2> QED
        BY <2>1, <2>2 DEF IInv, RowInv, Height
<1> QED
    BY <1>1, <1>2, <1>3

LEMMA StepChain ==
    ASSUME IInv, NEW r \in Request, Step(r)
    PROVE  ChainInv'
<1>1. CASE Commit(r)
    <2> DEFINE n == Height
    <2>1. /\ row[r] \in Row
          /\ row[r].id = n + 1
          /\ DOMAIN ledger' = 1..(n + 1)
          /\ ledger'[n + 1] = StoredRow(row[r])
          /\ \A i \in 1..n : ledger'[i] = ledger[i]
        BY <1>1, CommitAppends
    <2>2. n \in Nat /\ DOMAIN ledger = 1..n
        BY DEF IInv, TableInv
    <2>3. tx[r] \in Live /\ row[r].id # 0
        BY <1>1 DEF Commit, Live, IInv, LockInv
    <2>4. row[r].prev_hmac = IF n = 0 THEN GENESIS ELSE ledger[n].hmac
        BY <2>3, HeadFacts DEF IInv, RowInv, Prepared
    <2>5. "wide_float" \notin Params =>
             StoredRow(row[r]).hmac = HmacHex(SigningKey, StoredRow(row[r]))
        BY <2>3 DEF IInv, SignInv, StoredRow, HmacHex, CanonicalString
    <2>6. ledger'[n + 1].prev_hmac =
             IF n + 1 = 1 THEN GENESIS ELSE ledger'[n].hmac
        BY <2>1, <2>2, <2>4 DEF StoredRow
    <2>0. ledger'[n + 1].id = n + 1
        BY <2>1 DEF StoredRow
    <2>7. \A i \in 1..n : i # 1 => i - 1 \in 1..n
        BY <2>2
    <2> HIDE DEF n
    <2>8. ASSUME NEW i \in 1..n
          PROVE  /\ ledger'[i].id = i
                 /\ ledger'[i].prev_hmac =
                       IF i = 1 THEN GENESIS ELSE ledger'[i - 1].hmac
                 /\ "wide_float" \notin Params =>
                       ledger'[i].hmac = HmacHex(SigningKey, ledger'[i])
        BY <2>1, <2>2, <2>7 DEF IInv, ChainInv
    <2>9. \A i \in 1..(n + 1) : i \in 1..n \/ i = n + 1
        BY <2>2
    <2> QED
        BY <2>0, <2>1, <2>2, <2>5, <2>6, <2>8, <2>9 DEF ChainInv
<1>2. CASE ~Commit(r)
    BY <1>2, OthersKeepTable DEF IInv, ChainInv
<1> QED
    BY <1>1, <1>2

LEMMA StepCall ==
    ASSUME IInv, NEW r \in Request, Step(r)
    PROVE  CallInv'
<1>1. CASE Commit(r)
    <2> DEFINE n == Height
    <2>1. /\ row[r].id = n + 1
          /\ DOMAIN ledger' = 1..(n + 1)
          /\ ledger'[n + 1] = StoredRow(row[r])
          /\ \A i \in 1..n : ledger'[i] = ledger[i]
        BY <1>1, CommitAppends
    <2>2. n \in Nat /\ DOMAIN ledger = 1..n
        BY DEF IInv, TableInv
    <2>3. /\ tx' = [tx EXCEPT ![r] = "committed"]
          /\ tx[r] = "committing"
          /\ row' = row /\ pc' = pc
        BY <1>1 DEF Commit
    <2>4. StoredRow(row[r]).new = r
        BY <2>3 DEF IInv, LockInv, SignInv, StoredRow
    <2>5. \A i \in 1..(n + 1) : i \in 1..n \/ i = n + 1
        BY <2>2
    <2>6. \A i \in 1..n : i \in 1..(n + 1) /\ i # n + 1
        BY <2>2
    <2>7. n + 1 \in 1..(n + 1)
        BY <2>2
    <2> HIDE DEF n
    <2> QED
        BY <2>1, <2>2, <2>3, <2>4, <2>5, <2>6, <2>7 DEF IInv, TypeOK, CallInv
<1>2. CASE ReadHead(r)
    <2>1. tx[r] = "open" /\ tx' = tx /\ ledger' = ledger /\ pc' = [pc EXCEPT ![r] = "insert"]
        BY <1>2 DEF ReadHead
    <2>2. \A q \in Request \ {r} : row'[q] = row[q]
        BY <1>2 DEF ReadHead, IInv, TypeOK
    <2> QED
        BY <2>1, <2>2 DEF IInv, TypeOK, CallInv
<1>3. CASE ~Commit(r) /\ ~ReadHead(r)
    <2>1. ledger' = ledger /\ row' = row
        BY <1>3, OthersKeepTable
           DEF Step, Begin, AcquireLock, InsertRow, SendCommit, Return, Rollback, Raise
    <2>2. \/ tx' = tx
          \/ tx[r] # "committed" /\ tx'[r] # "committed"
             /\ \A q \in Request \ {r} : tx'[q] = tx[q]
        <3>1. CASE Begin(r)
            BY <3>1 DEF Begin, IInv, TypeOK, LockInv
        <3>2. CASE InsertRow(r) \/ SendCommit(r) \/ Rollback(r)
            BY <3>2 DEF InsertRow, SendCommit, Rollback, Live, IInv, TypeOK
        <3>3. CASE AcquireLock(r) \/ Return(r) \/ Raise(r)
            BY <3>3 DEF AcquireLock, Return, Raise
        <3> QED
            BY <1>3, <3>1, <3>2, <3>3 DEF Step
    <2>3. \A q \in Request : tx'[q] = "committed" <=> tx[q] = "committed"
        BY <2>2
    <2>4. \A q \in Request : pc'[q] = "ok" => tx[q] = "committed"
        BY <1>3 DEF Step, Begin, AcquireLock, InsertRow, SendCommit, Return, Rollback,
                    Raise, IInv, TypeOK, CallInv
    <2> QED
        BY <2>1, <2>3, <2>4 DEF IInv, CallInv
<1> QED
    BY <1>1, <1>2, <1>3

-----------------------------------------------------------------------------
(* The theorems.                                                           *)

\* The inductive invariant holds in every reachable state.
THEOREM SpecIInv == Spec => []IInv
<1>1. IInv /\ [Next]_vars => IInv'
    <2> SUFFICES ASSUME IInv, [Next]_vars PROVE IInv'
        OBVIOUS
    <2>1. CASE \E r \in Request : Step(r)
        <3>1. PICK r \in Request : Step(r)
            BY <2>1
        <3> QED
            BY <3>1, StepType, StepTable, StepLock, StepSign, StepRow, StepChain, StepCall
               DEF IInv
    <2>2. CASE UNCHANGED vars
        BY <2>2 DEF vars, IInv, TypeOK, TableInv, Height, LockInv, Prepared, SignInv,
                    RowInv, ChainInv, CallInv
    <2> QED
        BY <2>1, <2>2 DEF Next, Terminated
<1> QED
    BY InitIInv, <1>1, PTL DEF Spec

\* The variables of the append protocol keep their types, for any number of
\* calls and any clocks.
THEOREM LedgerTypeOK == Spec => []TypeOK
<1>1. IInv => TypeOK
    BY DEF IInv
<1> QED
    BY SpecIInv, <1>1, PTL

\* The advisory lock is enough: no two containers ever hold the same next id,
\* and the primary key never has to refuse an insert of append.
THEOREM LedgerNoIdClash == Spec => []NoIdClash
<1>1. IInv => NoIdClash
    <2> SUFFICES ASSUME IInv, NEW r \in Request, Prepared(r)
                 PROVE  /\ row[r].id \notin DOMAIN ledger
                        /\ \A q \in Request \ {r} : Prepared(q) => row[q].id # row[r].id
        BY DEF NoIdClash
    <2>1. row[r].id = Height + 1 /\ Height \in Nat /\ DOMAIN ledger = 1..Height
        BY DEF IInv, RowInv, TableInv
    <2>2. \A q \in Request : Prepared(q) => q = r
        BY DEF IInv, LockInv
    <2> QED
        BY <2>1, <2>2
<1> QED
    BY SpecIInv, <1>1, PTL

\* As long as no caller sends an integral float that jsonb turns into an
\* integer, a chain written by append alone always verifies: whatever the
\* interleaving, whichever calls failed, and whether or not their callers knew.
THEOREM LedgerChainVerifies ==
    ASSUME "wide_float" \notin Params
    PROVE  Spec => []ChainVerifies
<1>1. IInv => ChainVerifies
    <2> SUFFICES ASSUME IInv PROVE ChainVerifies
        OBVIOUS
    <2>1. Height \in Nat /\ DOMAIN ledger = 1..Height
        BY DEF IInv, TableInv
    <2>2. ASSUME NEW i \in DOMAIN ledger
          PROVE  /\ ledger[i].prev_hmac = PrevHmac(ledger, i)
                 /\ ledger[i].hmac = HmacHex(SigningKey, ledger[i])
        <3>1. PrevHmac(ledger, i) = IF i = 1 THEN GENESIS ELSE ledger[i - 1].hmac
            BY <2>1, PrevOfTable
        <3> QED
            BY <3>1 DEF IInv, ChainInv
    <2>3. Broken(SigningKey, ledger) = {}
        BY <2>2 DEF Broken
    <2> QED
        BY <2>3 DEF ChainVerifies, VerifyChain
<1> QED
    BY SpecIInv, <1>1, PTL

\* With the same proviso, the entry a caller gets with Ok is the one every
\* later read of the ledger gives.
THEOREM LedgerAckedIsReadBack ==
    ASSUME "wide_float" \notin Params
    PROVE  Spec => []AckedIsReadBack
<1>1. IInv => AckedIsReadBack
    <2> SUFFICES ASSUME IInv, NEW r \in Request, pc[r] = "ok"
                 PROVE  /\ row[r].id \in DOMAIN ledger
                        /\ \A f \in {"id", "ts", "new", "params", "prev_hmac", "hmac"} :
                              ledger[row[r].id][f] = row[r][f]
                        /\ \A i \in DOMAIN ledger : ledger[i].new = r => i = row[r].id
        BY DEF AckedIsReadBack
    <2>1. tx[r] = "committed"
        BY DEF IInv, CallInv
    <2>2. row[r].id \in DOMAIN ledger /\ ledger[row[r].id] = StoredRow(row[r])
        BY <2>1 DEF IInv, CallInv
    <2>3. row[r].id # 0
        BY <2>1 DEF IInv, LockInv
    <2>4. row[r].ts = Timestamptz(row[r].at) /\ Jsonb(row[r].params) = row[r].params
        BY <2>3 DEF IInv, SignInv
    <2>5. \A f \in {"id", "ts", "new", "params", "prev_hmac", "hmac"} :
              ledger[row[r].id][f] = row[r][f]
        BY <2>2, <2>4 DEF StoredRow
    <2> QED
        BY <2>1, <2>2, <2>5 DEF IInv, CallInv
<1> QED
    BY SpecIInv, <1>1, PTL

-----------------------------------------------------------------------------
(* Tampering is reported where it begins.                                  *)

\* A table as append leaves it: gapless, chained, each digest its row's own.
Genuine(table, n) ==
    /\ n \in Nat
    /\ DOMAIN table = 1..n
    /\ \A i \in 1..n :
          /\ table[i] \in Entry
          /\ table[i].id = i
          /\ table[i].prev_hmac = IF i = 1 THEN GENESIS ELSE table[i - 1].hmac
          /\ table[i].hmac = HmacHex(SigningKey, table[i])

\* A least element of a set of integers is its Min.
LEMMA MinOfSet ==
    ASSUME NEW S \in SUBSET Int, NEW m \in S, \A x \in S : x >= m
    PROVE  Min(S) = m
<1>1. Min(S) \in S /\ \A x \in S : x >= Min(S)
    BY DEF Min
<1>2. \A x, y \in Int : x >= y /\ y >= x => x = y
    OBVIOUS
<1>3. Min(S) \in Int /\ m \in Int
    BY <1>1
<1> QED
    BY <1>1, <1>2, <1>3

\* The digest carried into a row that has its predecessor.
LEMMA PrevOfRow ==
    ASSUME NEW table, DOMAIN table \in SUBSET Int, NEW i \in Int, i - 1 \in DOMAIN table
    PROVE  PrevHmac(table, i) = table[i - 1].hmac
<1> DEFINE before == {j \in DOMAIN table : j < i}
<1>1. before \in SUBSET Int /\ i - 1 \in before /\ \A k \in before : i - 1 >= k
    OBVIOUS
<1>2. Max(before) = i - 1
    BY <1>1, MaxOfSet
<1>3. PrevHmac(table, i) = table[Max(before)].hmac
    BY <1>1, Zenon DEF PrevHmac
<1> QED
    BY <1>2, <1>3

\* Two entries with the same columns are the same.
LEMMA EntryIsItsFields ==
    ASSUME NEW e \in Entry, NEW f \in Entry,
           e.id = f.id, e.ts = f.ts, e.new = f.new, e.params = f.params,
           e.prev_hmac = f.prev_hmac, e.hmac = f.hmac
    PROVE  e = f
BY DEF Entry

\* A digest determines everything that was signed to make it.
LEMMA DigestDetermines ==
    ASSUME NEW e \in Entry, NEW f \in Entry,
           HmacHex(SigningKey, e) = HmacHex(SigningKey, f)
    PROVE  /\ e.id = f.id /\ e.ts = f.ts /\ e.new = f.new /\ e.params = f.params
           /\ e.prev_hmac = f.prev_hmac
<1> DEFINE X == [key : {SigningKey}, id : Nat, ts : Nat, new : Request, params : ParamsClass]
           ce == CanonicalString(SigningKey, e)
           cf == CanonicalString(SigningKey, f)
<1>1. ce \in X /\ cf \in X
    BY DEF CanonicalString, Entry
<1>2. e.prev_hmac \in Seq(X) /\ f.prev_hmac \in Seq(X)
    BY DEF Entry, Digest
<1>3. Append(e.prev_hmac, ce) = Append(f.prev_hmac, cf)
    BY DEF HmacHex
<1> HIDE DEF X, ce, cf
<1>4. e.prev_hmac = f.prev_hmac /\ ce = cf
    BY <1>1, <1>2, <1>3, AppendInjective
<1>5. /\ ce.id = e.id /\ ce.ts = e.ts /\ ce.new = e.new /\ ce.params = e.params
      /\ cf.id = f.id /\ cf.ts = f.ts /\ cf.new = f.new /\ cf.params = f.params
    BY DEF ce, cf, CanonicalString
<1> QED
    BY <1>4, <1>5

\* A digest is neither the empty one nor the one it continues.
LEMMA DigestGrows ==
    ASSUME NEW e \in Entry
    PROVE  HmacHex(SigningKey, e) # GENESIS /\ HmacHex(SigningKey, e) # e.prev_hmac
<1> DEFINE X == [key : {SigningKey}, id : Nat, ts : Nat, new : Request, params : ParamsClass]
<1>1. CanonicalString(SigningKey, e) \in X /\ e.prev_hmac \in Seq(X)
    BY DEF CanonicalString, Entry, Digest
<1> HIDE DEF X
<1>2. /\ HmacHex(SigningKey, e) # <<>>
      /\ Len(HmacHex(SigningKey, e)) = Len(e.prev_hmac) + 1
    BY <1>1, AppendProperties DEF HmacHex
<1>3. Len(e.prev_hmac) \in Nat
    BY <1>1, LenProperties
<1> QED
    BY <1>2, <1>3 DEF GENESIS

\* The rows before the first one touched verify as they did.
LEMMA PrefixVerifies ==
    ASSUME NEW T, NEW n, Genuine(T, n), NEW i \in 1..n,
           NEW t, DOMAIN t \in SUBSET Int, 1..(i - 1) \subseteq DOMAIN t,
           \A j \in DOMAIN t : j >= 1,
           \A j \in 1..(i - 1) : t[j] = T[j]
    PROVE  \A j \in DOMAIN t : j < i => j \notin Broken(SigningKey, t)
<1> SUFFICES ASSUME NEW j \in DOMAIN t, j < i
             PROVE  t[j].prev_hmac = PrevHmac(t, j) /\ t[j].hmac = HmacHex(SigningKey, t[j])
    BY DEF Broken
<1>1. n \in Nat /\ i \in Nat /\ j \in 1..(i - 1) /\ j \in 1..n /\ t[j] = T[j]
    BY DEF Genuine
<1>2. CASE j = 1
    <2>1. {k \in DOMAIN t : k < j} = {}
        BY <1>2
    <2>2. PrevHmac(t, j) = GENESIS
        BY <2>1 DEF PrevHmac
    <2> QED
        BY <1>1, <1>2, <2>2 DEF Genuine
<1>3. CASE j # 1
    <2>1. j - 1 \in 1..(i - 1)
        BY <1>1, <1>3
    <2>2. PrevHmac(t, j) = T[j - 1].hmac
        BY <1>1, <2>1, PrevOfRow
    <2> QED
        BY <1>1, <1>3, <2>2 DEF Genuine
<1> QED
    BY <1>2, <1>3

\* Verify reports the least broken row.
LEMMA ReportsLeast ==
    ASSUME NEW t, DOMAIN t \in SUBSET Int, NEW i \in Broken(SigningKey, t),
           \A j \in DOMAIN t : j < i => j \notin Broken(SigningKey, t)
    PROVE  VerifyChain(SigningKey, t).broken_at = i
<1>1. Broken(SigningKey, t) \in SUBSET DOMAIN t
    BY DEF Broken
<1>2. \A j \in Broken(SigningKey, t) : j >= i
    BY <1>1
<1>3. Min(Broken(SigningKey, t)) = i
    BY <1>1, <1>2, MinOfSet
<1> QED
    BY <1>3 DEF VerifyChain

\* A row rewritten without the key, its digest being one of the table's own, is
\* the first broken one, whatever happens to the rows after it.
LEMMA RewrittenIsReported ==
    ASSUME NEW T, NEW n, Genuine(T, n), NEW i \in 1..n, NEW e \in Entry,
           e # T[i], e.id = i,
           e.hmac = GENESIS \/ \E j \in 1..n : e.hmac = T[j].hmac,
           NEW t, DOMAIN t = 1..n, t[i] = e, \A j \in 1..(i - 1) : t[j] = T[j]
    PROVE  VerifyChain(SigningKey, t).broken_at = i
<1>1. n \in Nat /\ i \in Nat /\ 1..(i - 1) \subseteq DOMAIN t /\ DOMAIN t \in SUBSET Int
    BY DEF Genuine
<1>2. PrevHmac(t, i) = T[i].prev_hmac
    <2>1. CASE i = 1
        <3>1. {k \in DOMAIN t : k < i} = {}
            BY <2>1
        <3>2. PrevHmac(t, i) = GENESIS
            BY <3>1 DEF PrevHmac
        <3> QED
            BY <2>1, <3>2 DEF Genuine
    <2>2. CASE i # 1
        <3>1. i - 1 \in DOMAIN t /\ i - 1 \in 1..(i - 1)
            BY <1>1, <2>2
        <3>2. PrevHmac(t, i) = T[i - 1].hmac
            BY <1>1, <3>1, PrevOfRow
        <3> QED
            BY <2>2, <3>2 DEF Genuine
    <2> QED
        BY <2>1, <2>2
<1>3. i \in Broken(SigningKey, t)
    <2> SUFFICES ASSUME e.prev_hmac = T[i].prev_hmac, e.hmac = HmacHex(SigningKey, e)
                 PROVE  FALSE
        BY <1>1, <1>2 DEF Broken
    <2>1. PICK j \in 1..n : e.hmac = T[j].hmac
        BY DigestGrows
    <2>2. T[j] \in Entry /\ T[j].id = j /\ T[j].hmac = HmacHex(SigningKey, T[j])
        BY DEF Genuine
    <2>3. HmacHex(SigningKey, e) = HmacHex(SigningKey, T[j])
        BY <2>1, <2>2
    <2>4. e.id = T[j].id /\ e.ts = T[j].ts /\ e.new = T[j].new /\ e.params = T[j].params
        BY <2>2, <2>3, DigestDetermines
    <2>5. i = j
        BY <2>2, <2>4
    <2>6. T[i] \in Entry /\ e.hmac = T[i].hmac
        BY <2>1, <2>2, <2>5
    <2>7. /\ e.id = T[i].id /\ e.ts = T[i].ts /\ e.new = T[i].new
          /\ e.params = T[i].params /\ e.prev_hmac = T[i].prev_hmac
        BY <2>4, <2>5
    <2>8. e = T[i]
        BY <2>6, <2>7, EntryIsItsFields
    <2> QED
        BY <2>8
<1>4. \A j \in DOMAIN t : j < i => j \notin Broken(SigningKey, t)
    BY <1>1, PrefixVerifies
<1> QED
    BY <1>1, <1>3, <1>4, ReportsLeast

\* A row taken out is reported at the row that followed it.
LEMMA RemovedIsReported ==
    ASSUME NEW T, NEW n, Genuine(T, n), NEW i \in 1..n, i + 1 \in 1..n
    PROVE  VerifyChain(SigningKey, Without(T, i)).broken_at = i + 1
<1> DEFINE t == Without(T, i)
           before == {j \in DOMAIN t : j < i + 1}
<1>1. /\ n \in Nat /\ i \in Nat
      /\ DOMAIN t = (1..n) \ {i} /\ DOMAIN t \in SUBSET Int
      /\ \A j \in DOMAIN t : t[j] = T[j]
    BY DEF Genuine, Without
<1> HIDE DEF t
<1>2. PrevHmac(t, i + 1) = T[i].prev_hmac
    <2>1. CASE i = 1
        <3>1. before = {}
            BY <1>1, <2>1
        <3>2. PrevHmac(t, i + 1) = GENESIS
            BY <3>1 DEF PrevHmac
        <3> QED
            BY <2>1, <3>2 DEF Genuine
    <2>2. CASE i # 1
        <3>1. before \in SUBSET Int /\ i - 1 \in before /\ \A k \in before : i - 1 >= k
            BY <1>1, <2>2
        <3>2. Max(before) = i - 1
            BY <3>1, MaxOfSet
        <3>3. PrevHmac(t, i + 1) = t[Max(before)].hmac
            BY <3>1, Zenon DEF PrevHmac
        <3>4. t[i - 1] = T[i - 1]
            BY <1>1, <3>1
        <3> QED
            BY <2>2, <3>2, <3>3, <3>4 DEF Genuine
    <2> QED
        BY <2>1, <2>2
<1>3. i + 1 \in Broken(SigningKey, t)
    <2>1. T[i] \in Entry /\ T[i].hmac = HmacHex(SigningKey, T[i])
        BY DEF Genuine
    <2>2. T[i].hmac # T[i].prev_hmac
        BY <2>1, DigestGrows
    <2>3. i + 1 \in DOMAIN t /\ t[i + 1] = T[i + 1] /\ i + 1 # 1
        BY <1>1
    <2>4. T[i + 1].prev_hmac = T[i].hmac
        BY <1>1 DEF Genuine
    <2> QED
        BY <1>2, <2>2, <2>3, <2>4 DEF Broken
<1>4. \A j \in DOMAIN t : j < i + 1 => j \notin Broken(SigningKey, t)
    <2>1. \A j \in DOMAIN t : j < i + 1 => j < i
        BY <1>1
    <2>2. 1..(i - 1) \subseteq DOMAIN t /\ \A j \in DOMAIN t : j >= 1
        BY <1>1
    <2>3. \A j \in 1..(i - 1) : t[j] = T[j]
        BY <1>1, <2>2
    <2>4. \A j \in DOMAIN t : j < i => j \notin Broken(SigningKey, t)
        BY <1>1, <2>2, <2>3, PrefixVerifies
    <2> QED
        BY <2>1, <2>4
<1>5. VerifyChain(SigningKey, t).broken_at = i + 1
    BY <1>1, <1>3, <1>4, ReportsLeast
<1> QED
    BY <1>5 DEF t

\* What can be made of a row without the key is an entry of the same number,
\* with a digest of the table.
LEMMA ForgedRowType ==
    ASSUME NEW T, NEW n, Genuine(T, n), NEW i \in 1..n, NEW e \in ForgedRow(T, T[i])
    PROVE  /\ e \in Entry
           /\ e.id = i
           /\ e.hmac = GENESIS \/ \E j \in 1..n : e.hmac = T[j].hmac
<1> DEFINE digests == {T[j].hmac : j \in 1..n} \cup {GENESIS}
<1>1. T[i] \in Entry /\ T[i].id = i /\ DOMAIN T = 1..n /\ T[i].hmac \in digests
    BY DEF Genuine
<1>2. \A d \in digests : d \in Digest
    <2>1. GENESIS \in Digest
        BY EmptySeq DEF GENESIS, Digest
    <2>2. \A j \in 1..n : T[j].hmac \in Digest
        BY DEF Genuine, Entry
    <2> QED
        BY <2>1, <2>2
<1>3. \A j \in 1..n : T[j].new \in Request /\ T[j].hmac \in digests
    BY DEF Genuine, Entry
<1>4. e \in Entry /\ e.id = i /\ e.hmac \in digests
    <2> HIDE DEF digests
    <2>1. CASE e = [T[i] EXCEPT !.ts = @ + 1]
        BY <1>1, <2>1 DEF Entry
    <2>2. CASE \E r \in Request : e = [T[i] EXCEPT !.new = r]
        BY <1>1, <2>2 DEF Entry
    <2>3. CASE \E p \in Params : e = [T[i] EXCEPT !.params = p]
        BY <1>1, <2>3, ParamsAssumption DEF Entry
    <2>4. CASE \E d \in digests : e = [T[i] EXCEPT !.prev_hmac = d]
        BY <1>1, <1>2, <2>4 DEF Entry
    <2>5. CASE \E d \in digests : e = [T[i] EXCEPT !.hmac = d]
        BY <1>1, <1>2, <2>5 DEF Entry
    <2>6. CASE \E j \in 1..n : e = [T[i] EXCEPT !.new = T[j].new, !.hmac = T[j].hmac]
        BY <1>1, <1>2, <1>3, <2>6 DEF Entry
    <2> QED
        BY <1>1, <2>1, <2>2, <2>3, <2>4, <2>5, <2>6 DEF ForgedRow, digests
<1> QED
    BY <1>4

\* Of a table append has written, verify names the row an editor without the
\* key has changed, or the one whose predecessor he has taken out.
THEOREM LedgerTamperingIsReported ==
    ASSUME "wide_float" \notin Params
    PROVE  Spec => TamperingIsReported
<1>1. ASSUME IInv'
      PROVE  \A i \in DOMAIN ledger' :
                /\ \A e \in ForgedRow(ledger', ledger'[i]) \ {ledger'[i]} :
                      \A table \in Rewritten(ledger', i, e) :
                          VerifyChain(SigningKey, table).broken_at = i
                /\ i + 1 \in DOMAIN ledger' =>
                      VerifyChain(SigningKey, Without(ledger', i)).broken_at = i + 1
    <2>1. PICK n \in Nat : Genuine(ledger', n)
        <3>1. Height' \in Nat /\ DOMAIN ledger' = 1..Height'
            BY <1>1 DEF IInv, TableInv
        <3>2. \A i \in 1..Height' : ledger'[i] \in Entry
            BY <1>1, <3>1 DEF IInv, TypeOK
        <3> QED
            BY <1>1, <3>1, <3>2 DEF IInv, ChainInv, Genuine
    <2>2. SUFFICES ASSUME NEW i \in 1..n
                   PROVE  /\ \A e \in ForgedRow(ledger', ledger'[i]) \ {ledger'[i]} :
                                \A table \in Rewritten(ledger', i, e) :
                                    VerifyChain(SigningKey, table).broken_at = i
                          /\ i + 1 \in 1..n =>
                                VerifyChain(SigningKey, Without(ledger', i)).broken_at = i + 1
        BY <2>1 DEF Genuine
    <2>3. ASSUME NEW e \in ForgedRow(ledger', ledger'[i]) \ {ledger'[i]},
                 NEW table \in Rewritten(ledger', i, e)
          PROVE  VerifyChain(SigningKey, table).broken_at = i
        <3>1. /\ e \in Entry
              /\ e.id = i
              /\ e.hmac = GENESIS \/ \E j \in 1..n : e.hmac = ledger'[j].hmac
            BY <2>1, ForgedRowType
        <3>2. DOMAIN ledger' = 1..n
            BY <2>1 DEF Genuine
        <3>3. DOMAIN table = 1..n /\ table[i] = e /\ \A j \in 1..(i - 1) : table[j] = ledger'[j]
            BY <3>2 DEF Rewritten
        <3> QED
            BY <2>1, <3>1, <3>3, RewrittenIsReported
    <2> QED
        BY <2>1, <2>3, RemovedIsReported
<1> QED
    BY SpecIInv, <1>1, PTL DEF TamperingIsReported

-----------------------------------------------------------------------------
(* The ledger implements the abstract append-only log.                     *)

\* The values AppendLog's variables have in a state of Ledger.
LogOf(table) == [i \in DOMAIN table |-> table[i].new]
AnswerOf(at) == [r \in Request |-> IF at[r] \in Pending THEN "pending" ELSE at[r]]

\* A function on 1..n is a sequence of length n.
LEMMA FunctionIsSeq ==
    ASSUME NEW S, NEW n \in Nat, NEW f \in [1..n -> S]
    PROVE  f \in Seq(S) /\ Len(f) = n
<1>1. f \in Seq(S)
    BY SeqDef
<1>2. DOMAIN f = 1..n /\ DOMAIN f = 1..Len(f) /\ Len(f) \in Nat
    BY <1>1, LenProperties
<1> QED
    BY <1>1, <1>2

\* A function on 1..(n + 1) is what Append makes of its first n values.
LEMMA AppendOfFunction ==
    ASSUME NEW S, NEW n \in Nat, NEW f \in [1..n -> S], NEW g \in [1..(n + 1) -> S],
           \A i \in 1..n : g[i] = f[i]
    PROVE  g = Append(f, g[n + 1])
<1>1. f \in Seq(S) /\ Len(f) = n
    BY FunctionIsSeq
<1>2. g \in Seq(S) /\ Len(g) = n + 1
    BY FunctionIsSeq
<1>3. g[n + 1] \in S
    OBVIOUS
<1> DEFINE a == Append(f, g[n + 1])
<1>4. /\ a \in Seq(S) /\ Len(a) = n + 1 /\ a[n + 1] = g[n + 1]
      /\ \A i \in 1..n : a[i] = f[i]
    BY <1>1, <1>3, AppendProperties
<1>5. \A i \in 1..(n + 1) : g[i] = a[i]
    BY <1>4
<1> HIDE DEF a
<1>6. g = a
    BY <1>2, <1>4, <1>5, SeqEqual
<1> QED
    BY <1>6 DEF a

\* A step that moves r between pending points is invisible to the caller.
LEMMA AnswerUnchanged ==
    ASSUME TypeOK, NEW r \in Request, NEW there \in Pending,
           pc[r] \in Pending, pc' = [pc EXCEPT ![r] = there]
    PROVE  AnswerOf(pc') = AnswerOf(pc)
<1>1. \A q \in Request : pc'[q] = IF q = r THEN there ELSE pc[q]
    BY DEF TypeOK
<1> QED
    BY <1>1 DEF AnswerOf

\* A step that ends the call tells the caller how.
LEMMA AnswerGiven ==
    ASSUME TypeOK, NEW r \in Request, NEW how \in {"ok", "err"},
           pc[r] \in Pending, pc' = [pc EXCEPT ![r] = how]
    PROVE  /\ AnswerOf(pc)[r] = "pending"
           /\ AnswerOf(pc') = [AnswerOf(pc) EXCEPT ![r] = how]
<1>1. \A q \in Request : pc'[q] = IF q = r THEN how ELSE pc[q]
    BY DEF TypeOK
<1>2. how \notin Pending
    BY DEF Pending
<1> QED
    BY <1>1, <1>2 DEF AnswerOf

\* Each step of a call is one of AppendLog's, or none it can see.
LEMMA StepImplements ==
    ASSUME IInv, NEW r \in Request, Step(r)
    PROVE  [Log!Next]_(Log!vars)
<1> DEFINE log == LogOf(ledger)
           answer == AnswerOf(pc)
<1>0. TypeOK
    BY DEF IInv
<1>1. CASE Commit(r)
    <2> DEFINE n == Height
    <2>1. /\ row[r].id = n + 1
          /\ DOMAIN ledger' = 1..(n + 1)
          /\ ledger'[n + 1] = StoredRow(row[r])
          /\ \A i \in 1..n : ledger'[i] = ledger[i]
        BY <1>1, CommitAppends
    <2>2. n \in Nat /\ DOMAIN ledger = 1..n
        BY DEF IInv, TableInv
    <2>3. tx[r] = "committing" /\ pc' = pc
        BY <1>1 DEF Commit
    <2>4. ledger'[n + 1].new = r
        BY <2>1, <2>3 DEF IInv, LockInv, SignInv, StoredRow
    <2>5. log \in [1..n -> Request]
        BY <1>0, <2>2 DEF TypeOK, Entry, LogOf
    <2>6. LogOf(ledger') \in [1..(n + 1) -> Request] /\ LogOf(ledger')[n + 1] = r
        <3>1. TypeOK'
            BY StepType
        <3>2. n + 1 \in 1..(n + 1)
            BY <2>2
        <3> QED
            BY <2>1, <2>4, <3>1, <3>2 DEF TypeOK, Entry, LogOf
    <2>7. \A i \in 1..n : LogOf(ledger')[i] = log[i]
        BY <2>1, <2>2 DEF LogOf
    <2> HIDE DEF n
    <2>8. LogOf(ledger') = Append(log, r)
        BY <2>2, <2>5, <2>6, <2>7, AppendOfFunction
    <2>9. \A i \in DOMAIN log : log[i] # r
        BY <2>3 DEF IInv, CallInv, LogOf
    <2>10. answer[r] # "ok"
        BY <2>3 DEF IInv, CallInv, AnswerOf
    <2> QED
        BY <2>3, <2>8, <2>9, <2>10
           DEF Log!Next, Log!Record, Log!Recorded, LogOf, AnswerOf
<1>2. CASE Return(r)
    <2>1. ledger' = ledger /\ tx[r] = "committed" /\ pc' = [pc EXCEPT ![r] = "ok"]
          /\ pc[r] \in Pending
        BY <1>2 DEF Return, Pending
    <2>2. answer[r] = "pending" /\ AnswerOf(pc') = [answer EXCEPT ![r] = "ok"]
        BY <1>0, <2>1, AnswerGiven
    <2>3. row[r].id \in DOMAIN ledger /\ ledger[row[r].id].new = r
        <3>1. row[r].id # 0
            BY <2>1 DEF IInv, LockInv
        <3>2. row[r].new = r
            BY <3>1 DEF IInv, SignInv
        <3>3. row[r].id \in DOMAIN ledger /\ ledger[row[r].id] = StoredRow(row[r])
            BY <2>1 DEF IInv, CallInv
        <3> QED
            BY <3>2, <3>3 DEF StoredRow
    <2>4. \E i \in DOMAIN log : log[i] = r
        BY <2>3 DEF LogOf
    <2> QED
        BY <2>1, <2>2, <2>4 DEF Log!Next, Log!Acknowledge, Log!Recorded, LogOf, AnswerOf
<1>3. CASE Raise(r)
    <2>1. ledger' = ledger /\ pc' = [pc EXCEPT ![r] = "err"] /\ pc[r] \in Pending
        BY <1>3 DEF Raise
    <2>2. answer[r] = "pending" /\ AnswerOf(pc') = [answer EXCEPT ![r] = "err"]
        BY <1>0, <2>1, AnswerGiven
    <2> QED
        BY <2>1, <2>2 DEF Log!Next, Log!Reject, LogOf, AnswerOf
<1>4. CASE ~Commit(r) /\ ~Return(r) /\ ~Raise(r)
    <2>1. ledger' = ledger
        BY <1>4, OthersKeepTable
    <2>2. \/ pc' = pc
          \/ \E there \in Pending : pc[r] \in Pending /\ pc' = [pc EXCEPT ![r] = there]
        BY <1>4 DEF Step, Begin, AcquireLock, ReadHead, InsertRow, SendCommit, Rollback,
                    Pending
    <2>3. AnswerOf(pc') = answer
        BY <1>0, <2>2, AnswerUnchanged
    <2> QED
        BY <2>1, <2>3 DEF Log!vars, LogOf, AnswerOf
<1> QED
    BY <1>1, <1>2, <1>3, <1>4

\* Concurrent, failing and abandoned calls of append are, to their callers,
\* one append-only log in which no call appears twice and no Ok is lost.
THEOREM LedgerImplementsAppendLog == Spec => ImplementsAppendLog
<1>1. Init => Log!Init
    <2> SUFFICES ASSUME Init PROVE Log!Init
        OBVIOUS
    <2>1. LogOf(ledger) = <<>>
        BY EmptySeq DEF Init, LogOf
    <2>2. AnswerOf(pc) = [r \in Request |-> "pending"]
        BY DEF Init, AnswerOf, Pending
    <2> QED
        BY <2>1, <2>2 DEF Log!Init, LogOf, AnswerOf
<1>2. IInv /\ [Next]_vars => [Log!Next]_(Log!vars)
    <2> SUFFICES ASSUME IInv, [Next]_vars PROVE [Log!Next]_(Log!vars)
        OBVIOUS
    <2>1. CASE \E r \in Request : Step(r)
        BY <2>1, StepImplements
    <2>2. CASE UNCHANGED vars
        BY <2>2 DEF vars, Log!vars
    <2> QED
        BY <2>1, <2>2 DEF Next, Terminated
<1> QED
    BY SpecIInv, <1>1, <1>2, PTL DEF Spec, ImplementsAppendLog, Log!Spec
=============================================================================
