--------------------------- MODULE RateLimitProofs ---------------------------
(***************************************************************************)
(* Proofs about RateLimit for any requests, any containers, any limit and  *)
(* any number of minutes.                                                  *)
(*                                                                         *)
(* The argument in one paragraph.  A request past its INCR has been        *)
(* counted, and one Valkey answered passed only as the n-th of its minute  *)
(* for an n up to the limit (CountInv).  A container's entry counts those  *)
(* it has served in the entry's minute; as long as a minute's count is not *)
(* lost, those that passed in it are among them (MemoryInv).  The counts   *)
(* never exceed the requests there were (ServedInv), so whoever is refused *)
(* had that many before it (RefusedInv).                                   *)
(***************************************************************************)
EXTENDS RateLimit, FiniteSetTheorems, TLAPS

\* The variables' types, with counters that are just numbers.
Types ==
    /\ clock \in Minute
    /\ connected \subseteq Container
    /\ pc \in [Request -> {"start", "incr", "expire", "memory"} \cup Over]
    /\ at \in [Request -> Container]
    /\ minute \in [Request -> Minute]
    /\ count \in [Minute -> Nat]
    /\ memory \in [Container -> [minute : Minute, count : Nat]]
    /\ fellBack \subseteq Request
    /\ lost \subseteq Container \X Minute
    /\ \A r \in Request : /\ pc[r] = "memory" => r \in fellBack
                          /\ pc[r] \in {"start", "incr", "expire"} => r \notin fellBack

\* The requests of a minute that Valkey counted and answered, but for those
\* it refused.
Counted(m) ==
    {r \in Request : pc[r] \in {"expire", "admitted"} /\ minute[r] = m /\ r \notin fellBack}

\* The requests of a minute that an INCR may have counted.
Past(m) == {r \in Request : pc[r] \notin {"start", "incr"} /\ minute[r] = m}

\* The requests of a minute that a container's map has counted, and those of
\* them it let pass.
Served(c, m) ==
    {r \in Request : /\ at[r] = c /\ minute[r] = m /\ r \in fellBack
                     /\ pc[r] \in {"admitted", "refused"}}

Local(c, m) == {r \in AdmittedIn(m) \cap fellBack : at[r] = c}

CountOf(c, m) == IF memory[c].minute = m THEN memory[c].count ELSE 0

CountInv ==
    \A m \in Minute :
        /\ Cardinality(Counted(m)) <= Limit
        /\ Cardinality(Counted(m)) <= count[m]
        /\ count[m] <= Cardinality(Past(m))

MemoryInv ==
    \A c \in Container, m \in Minute : <<c, m>> \notin lost =>
        /\ Cardinality(Local(c, m)) <= Limit
        /\ Cardinality(Local(c, m)) <= CountOf(c, m)

ServedInv ==
    \A c \in Container : memory[c].count <= Cardinality(Served(c, memory[c].minute))

RefusedInv ==
    \A r \in Request : pc[r] = "refused" => Cardinality(Past(minute[r]) \ {r}) >= Limit

IInv == Types /\ CountInv /\ MemoryInv /\ ServedInv /\ RefusedInv

-----------------------------------------------------------------------------
(* Cardinalities of sets of requests.                                      *)

\* A set of requests has a cardinality, and a subset no larger one.
LEMMA CardSubset ==
    ASSUME NEW T \in SUBSET Request, NEW S \in SUBSET T
    PROVE  /\ Cardinality(S) \in Nat /\ Cardinality(T) \in Nat
           /\ Cardinality(S) <= Cardinality(T)
<1>1. IsFiniteSet(T)
    BY RequestAssumption, FS_Subset DEF RequestAssumption
<1>2. IsFiniteSet(S)
    BY <1>1, FS_Subset
<1> QED
    BY <1>1, <1>2, FS_Subset, FS_CardinalityType

\* One more request makes a set larger by one at most.
LEMMA CardAtMostOneMore ==
    ASSUME NEW S \in SUBSET Request, NEW r \in Request, NEW T \in SUBSET (S \cup {r})
    PROVE  Cardinality(T) <= Cardinality(S) + 1
<1>1. IsFiniteSet(S)
    BY RequestAssumption, FS_Subset DEF RequestAssumption
<1>2. Cardinality(S) \in Nat
    BY <1>1, FS_CardinalityType
<1>4. Cardinality(S \cup {r}) <= Cardinality(S) + 1
    BY <1>1, <1>2, FS_AddElement
<1>3. /\ Cardinality(T) <= Cardinality(S \cup {r})
      /\ Cardinality(T) \in Nat /\ Cardinality(S \cup {r}) \in Nat
    BY CardSubset
<1> QED
    BY <1>2, <1>3, <1>4

\* And by one at least, if it was not in it.
LEMMA CardOneMore ==
    ASSUME NEW T \in SUBSET Request, NEW S \in SUBSET T, NEW r \in T, r \notin S
    PROVE  Cardinality(S) + 1 <= Cardinality(T)
<1>1. IsFiniteSet(S)
    BY RequestAssumption, FS_Subset DEF RequestAssumption
<1>2. Cardinality(S \cup {r}) = Cardinality(S) + 1
    BY <1>1, FS_AddElement
<1>3. Cardinality(S \cup {r}) <= Cardinality(T)
    BY CardSubset
<1> QED
    BY <1>2, <1>3

-----------------------------------------------------------------------------
(* The invariant.                                                          *)

\* Nothing is counted at the start.
LEMMA InitIInv == Init => IInv
<1> SUFFICES ASSUME Init PROVE IInv
    OBVIOUS
<1>1. Types
    BY LimitAssumption DEF Init, Types, Over, Minute, NoEntry, LimitAssumption
<1>2. Cardinality({}) = 0
    BY FS_EmptySet
<1>3. \A m \in Minute : Counted(m) = {} /\ Past(m) = {}
    BY DEF Init, Counted, Past
<1>4. \A c \in Container, m \in Minute : Local(c, m) = {} /\ Served(c, m) = {}
    BY DEF Init, Local, AdmittedIn, Served
<1>5. CountInv
    BY <1>2, <1>3, LimitAssumption DEF CountInv, Init, LimitAssumption
<1>6. MemoryInv
    BY <1>2, <1>4, LimitAssumption DEF MemoryInv, CountOf, Init, NoEntry, LimitAssumption
<1>7. ServedInv
    <2>1. \A c \in Container : memory[c].minute \in Minute /\ memory[c].count = 0
        BY LimitAssumption DEF Init, NoEntry, Minute, LimitAssumption
    <2> QED
        BY <1>2, <1>4, <2>1 DEF ServedInv
<1>8. RefusedInv
    BY DEF RefusedInv, Init
<1> QED
    BY <1>1, <1>5, <1>6, <1>7, <1>8 DEF IInv

\* Every step keeps the types.
LEMMA TypesStep == Types /\ [Next]_vars => Types'
<1> SUFFICES ASSUME Types, [Next]_vars PROVE Types'
    OBVIOUS
<1> USE LimitAssumption DEF Types, Over, LimitAssumption
<1>1. ASSUME NEW r \in Request, ReadMinute(r) PROVE Types'
    BY <1>1 DEF ReadMinute, Goto
<1>2. ASSUME NEW r \in Request, Incr(r) PROVE Types'
    BY <1>2 DEF Incr, Decide, Goto
<1>3. ASSUME NEW r \in Request, Expire(r) PROVE Types'
    BY <1>3 DEF Expire, Decide, Goto
<1>4. ASSUME NEW r \in Request, CacheFails(r) PROVE Types'
    BY <1>4 DEF CacheFails, Goto
<1>5. ASSUME NEW r \in Request, CountInMemory(r) PROVE Types'
    <2>1. lost' \subseteq Container \X Minute
        BY <1>5 DEF CountInMemory, Forgotten
    <2>2. memory' \in [Container -> [minute : Minute, count : Nat]]
        BY <1>5 DEF CountInMemory
    <2> QED
        BY <1>5, <2>1, <2>2 DEF CountInMemory, Decide, Goto
<1>6. ASSUME NEW r \in Request, Dropped(r) PROVE Types'
    BY <1>6 DEF Dropped, Goto
<1>7. ASSUME NEW c \in Container, Connect(c) PROVE Types'
    BY <1>7 DEF Connect, requestVars
<1>8. NoEntry \in [minute : Minute, count : Nat]
    BY DEF NoEntry, Minute
<1>9. ASSUME NEW c \in Container, Sweep(c) PROVE Types'
    BY <1>8, <1>9 DEF Sweep, Forgotten, requestVars
<1>10. ASSUME NEW c \in Container, Restart(c) PROVE Types'
    BY <1>8, <1>10 DEF Restart, Forgotten
<1>11. CASE Tick
    BY <1>11 DEF Tick, Minute, requestVars
<1>12. CASE UNCHANGED vars
    BY <1>12 DEF vars, requestVars
<1> QED
    BY <1>1, <1>2, <1>3, <1>4, <1>5, <1>6, <1>7, <1>9, <1>10, <1>11, <1>12 DEF Next, Check

\* A minute's count stays right when nobody new is counted as passed, and when
\* an INCR is that of a request which has not had one before.
LEMMA CountKept ==
    ASSUME Types, Types', CountInv, NEW m \in Minute,
           Counted(m)' \subseteq Counted(m), Past(m) \subseteq Past(m)',
           \/ count'[m] = count[m]
           \/ count'[m] = count[m] + 1 /\ \E r \in Past(m)' : r \notin Past(m)
    PROVE  /\ Cardinality(Counted(m)') <= Limit
           /\ Cardinality(Counted(m)') <= count'[m]
           /\ count'[m] <= Cardinality(Past(m)')
<1>1. /\ Cardinality(Counted(m)) <= Limit
      /\ Cardinality(Counted(m)) <= count[m]
      /\ count[m] <= Cardinality(Past(m))
    BY DEF CountInv
<1>2. Counted(m) \in SUBSET Request /\ Past(m)' \in SUBSET Request
    BY DEF Counted, Past
<1>3. /\ Cardinality(Counted(m)') \in Nat /\ Cardinality(Counted(m)) \in Nat
      /\ Cardinality(Counted(m)') <= Cardinality(Counted(m))
    BY <1>2, CardSubset
<1>4. /\ Cardinality(Past(m)') \in Nat /\ Cardinality(Past(m)) \in Nat
      /\ Cardinality(Past(m)) <= Cardinality(Past(m)')
    BY <1>2, CardSubset
<1>5. count[m] \in Nat /\ count'[m] \in Nat
    BY DEF Types
<1>6. count'[m] <= Cardinality(Past(m)')
    <2>1. CASE count'[m] = count[m]
        BY <2>1, <1>1, <1>4, <1>5
    <2>2. ASSUME count'[m] = count[m] + 1, NEW r \in Past(m)', r \notin Past(m)
          PROVE  count'[m] <= Cardinality(Past(m)')
        <3>1. Cardinality(Past(m)) + 1 <= Cardinality(Past(m)')
            BY <2>2, <1>2, CardOneMore
        <3> QED
            BY <3>1, <2>2, <1>1, <1>4, <1>5
    <2> QED
        BY <2>1, <2>2
<1> QED
    BY <1>1, <1>3, <1>5, <1>6, LimitAssumption DEF LimitAssumption

\* The requests Valkey answered keep to the limit and to its count.
LEMMA CountStep == Types /\ Types' /\ CountInv /\ [Next]_vars => CountInv'
<1> SUFFICES ASSUME Types, Types', CountInv, [Next]_vars, NEW m \in Minute
             PROVE  /\ Cardinality(Counted(m)') <= Limit
                    /\ Cardinality(Counted(m)') <= count'[m]
                    /\ count'[m] <= Cardinality(Past(m)')
    BY DEF CountInv
<1> DEFINE kept == /\ Counted(m)' \subseteq Counted(m) /\ Past(m) \subseteq Past(m)'
                   /\ \/ count'[m] = count[m]
                      \/ count'[m] = count[m] + 1 /\ \E r \in Past(m)' : r \notin Past(m)
<1>1. kept => /\ Cardinality(Counted(m)') <= Limit
              /\ Cardinality(Counted(m)') <= count'[m]
              /\ count'[m] <= Cardinality(Past(m)')
    BY CountKept
<1>2. ASSUME NEW r \in Request, ReadMinute(r) PROVE kept
    BY <1>2 DEF Types, ReadMinute, Goto, Counted, Past
<1>3. ASSUME NEW r \in Request, Incr(r), minute[r] # m PROVE kept
    BY <1>3 DEF Types, Incr, Decide, Goto, Counted, Past
<1>4. ASSUME NEW r \in Request, Incr(r), minute[r] = m
      PROVE  /\ Cardinality(Counted(m)') <= Limit
             /\ Cardinality(Counted(m)') <= count'[m]
             /\ count'[m] <= Cardinality(Past(m)')
    <2>1. count'[m] = count[m] + 1 /\ count[m] \in Nat
        BY <1>4 DEF Types, Incr
    <2>2. Past(m) \subseteq Past(m)' /\ r \in Past(m)' /\ r \notin Past(m)
        BY <1>4 DEF Types, Incr, Decide, Goto, Past
    <2>3. CASE count'[m] > Limit
        <3>1. Counted(m)' \subseteq Counted(m)
            BY <1>4, <2>1, <2>3, LimitAssumption
               DEF Types, Incr, Decide, Goto, Counted, LimitAssumption
        <3> QED
            BY <1>1, <2>1, <2>2, <3>1
    <2>4. CASE count'[m] <= Limit
        <3>1. Counted(m)' \in SUBSET (Counted(m) \cup {r}) /\ Counted(m) \in SUBSET Request
            BY <1>4 DEF Types, Incr, Decide, Goto, Counted
        <3>2. Cardinality(Counted(m)') <= Cardinality(Counted(m)) + 1
            BY <3>1, CardAtMostOneMore
        <3>3. Past(m) \in SUBSET Past(m)' /\ Past(m)' \in SUBSET Request
            BY <2>2 DEF Past
        <3>4. Cardinality(Past(m)) + 1 <= Cardinality(Past(m)')
            BY <2>2, <3>3, CardOneMore
        <3>5. /\ Cardinality(Counted(m)) \in Nat /\ Cardinality(Past(m)) \in Nat
              /\ Cardinality(Past(m)') \in Nat
            BY <3>1, <3>3, CardSubset
        <3>6. Cardinality(Counted(m)') \in Nat
            <4>1. Counted(m)' \in SUBSET Request
                BY DEF Counted
            <4> QED
                BY <4>1, CardSubset
        <3>7. Cardinality(Counted(m)) <= count[m] /\ count[m] <= Cardinality(Past(m))
            BY DEF CountInv
        <3> QED
            BY <2>1, <2>4, <3>2, <3>4, <3>5, <3>6, <3>7, LimitAssumption DEF LimitAssumption
    <2> QED
        BY <2>1, <2>3, <2>4, LimitAssumption DEF LimitAssumption
<1>5. ASSUME NEW r \in Request, Expire(r) PROVE kept
    BY <1>5, LimitAssumption DEF Types, Expire, Decide, Goto, Counted, Past, LimitAssumption
<1>6. ASSUME NEW r \in Request, CacheFails(r) PROVE kept
    <2>1. Counted(m)' \subseteq Counted(m) /\ Past(m) \subseteq Past(m)'
        BY <1>6 DEF Types, CacheFails, Goto, Counted, Past
    <2>2. CASE UNCHANGED count
        BY <2>1, <2>2
    <2>3. CASE pc[r] = "incr" /\ count' = [count EXCEPT ![minute[r]] = @ + 1]
        BY <1>6, <2>1, <2>3 DEF Types, CacheFails, Goto, Past
    <2> QED
        BY <1>6, <2>2, <2>3 DEF CacheFails
<1>7. ASSUME NEW r \in Request, CountInMemory(r) PROVE kept
    BY <1>7 DEF Types, CountInMemory, Decide, Goto, Counted, Past
<1>8. ASSUME NEW r \in Request, Dropped(r) PROVE kept
    <2>1. Counted(m)' \subseteq Counted(m) /\ Past(m) \subseteq Past(m)'
        BY <1>8 DEF Types, Dropped, Goto, Counted, Past
    <2>2. CASE UNCHANGED count
        BY <2>1, <2>2
    <2>3. CASE pc[r] = "incr" /\ count' = [count EXCEPT ![minute[r]] = @ + 1]
        BY <1>8, <2>1, <2>3 DEF Types, Dropped, Goto, Past
    <2> QED
        BY <1>8, <2>2, <2>3 DEF Dropped
<1>9. ASSUME NEW c \in Container, Restart(c) PROVE kept
    BY <1>9 DEF Types, Restart, Counted, Past
<1>10. ASSUME UNCHANGED <<requestVars, count>> PROVE kept
    BY <1>10 DEF requestVars, Counted, Past
<1>11. ASSUME NEW c \in Container, Connect(c) \/ Sweep(c) PROVE kept
    BY <1>10, <1>11 DEF Connect, Sweep
<1>12. ASSUME Tick \/ UNCHANGED vars PROVE kept
    BY <1>10, <1>12 DEF Tick, vars
<1> HIDE DEF kept
<1> QED
    BY <1>1, <1>2, <1>3, <1>4, <1>5, <1>6, <1>7, <1>8, <1>9, <1>11, <1>12 DEF Next, Check

-----------------------------------------------------------------------------
(* The map.                                                                *)

\* A container's minute stays right when it lets nobody new pass in it, and
\* keeps its count or has it noted as lost.
LEMMA LocalKept ==
    ASSUME Types, Types', MemoryInv, NEW c \in Container, NEW m \in Minute,
           <<c, m>> \notin lost', lost \subseteq lost',
           Local(c, m)' \subseteq Local(c, m), CountOf(c, m)' >= CountOf(c, m)
    PROVE  /\ Cardinality(Local(c, m)') <= Limit
           /\ Cardinality(Local(c, m)') <= CountOf(c, m)'
<1>1. /\ Cardinality(Local(c, m)) <= Limit
      /\ Cardinality(Local(c, m)) <= CountOf(c, m)
    BY DEF MemoryInv
<1>2. Local(c, m) \in SUBSET Request
    BY DEF Local, AdmittedIn
<1>3. /\ Cardinality(Local(c, m)') \in Nat /\ Cardinality(Local(c, m)) \in Nat
      /\ Cardinality(Local(c, m)') <= Cardinality(Local(c, m))
    BY <1>2, CardSubset
<1>4. CountOf(c, m) \in Nat /\ CountOf(c, m)' \in Nat
    BY DEF Types, CountOf
<1> QED
    BY <1>1, <1>3, <1>4, LimitAssumption DEF LimitAssumption

\* An entry that is put back to NoEntry is noted as lost, or was empty.
LEMMA ForgottenKept ==
    ASSUME Types, NEW c \in Container, NEW d \in Container, NEW m \in Minute,
           memory' = [memory EXCEPT ![c] = NoEntry], lost' = Forgotten(c),
           <<d, m>> \notin lost'
    PROVE  lost \subseteq lost' /\ CountOf(d, m)' >= CountOf(d, m)
<1>1. CASE d # c
    BY <1>1 DEF Types, Forgotten, CountOf
<1>2. CASE d = c
    <2>1. memory[c].count = 0 \/ memory[c].minute # m
        BY <1>2 DEF Forgotten
    <2>2. CountOf(c, m) = 0
        BY <2>1 DEF CountOf
    <2>3. CountOf(c, m)' = 0
        BY DEF Types, CountOf, NoEntry
    <2> QED
        BY <1>2, <2>2, <2>3 DEF Forgotten
<1> QED
    BY <1>1, <1>2

\* Each container keeps to the limit in the minutes its map has not lost.
LEMMA MemoryStep == Types /\ Types' /\ MemoryInv /\ [Next]_vars => MemoryInv'
<1> SUFFICES ASSUME Types, Types', MemoryInv, [Next]_vars,
                    NEW d \in Container, NEW m \in Minute, <<d, m>> \notin lost'
             PROVE  /\ Cardinality(Local(d, m)') <= Limit
                    /\ Cardinality(Local(d, m)') <= CountOf(d, m)'
    BY DEF MemoryInv
<1> DEFINE kept == /\ lost \subseteq lost' /\ Local(d, m)' \subseteq Local(d, m)
                   /\ CountOf(d, m)' >= CountOf(d, m)
<1>1. kept => /\ Cardinality(Local(d, m)') <= Limit
              /\ Cardinality(Local(d, m)') <= CountOf(d, m)'
    BY LocalKept
<1>2. CountOf(d, m) \in Nat
    BY DEF Types, CountOf
<1>3. ASSUME NEW r \in Request, ReadMinute(r) PROVE kept
    BY <1>2, <1>3 DEF Types, ReadMinute, Goto, Local, AdmittedIn, CountOf
<1>4. ASSUME NEW r \in Request, Incr(r) PROVE kept
    <2>1. Local(d, m)' \subseteq Local(d, m)
        BY <1>4 DEF Types, Incr, Decide, Goto, Local, AdmittedIn
    <2> QED
        BY <1>2, <1>4, <2>1 DEF Incr, CountOf
<1>5. ASSUME NEW r \in Request, Expire(r) PROVE kept
    <2>1. Local(d, m)' \subseteq Local(d, m)
        BY <1>5 DEF Types, Expire, Decide, Goto, Local, AdmittedIn
    <2> QED
        BY <1>2, <1>5, <2>1 DEF Expire, CountOf
<1>6. ASSUME NEW r \in Request, CacheFails(r) PROVE kept
    BY <1>2, <1>6 DEF Types, CacheFails, Goto, Local, AdmittedIn, CountOf
<1>7. ASSUME NEW r \in Request, CountInMemory(r), at[r] # d PROVE kept
    <2>1. Local(d, m)' \subseteq Local(d, m)
        BY <1>7 DEF Types, CountInMemory, Decide, Goto, Local, AdmittedIn
    <2>2. CountOf(d, m)' = CountOf(d, m) /\ lost \subseteq lost'
        BY <1>7 DEF Types, CountInMemory, Forgotten, CountOf
    <2> QED
        BY <1>2, <2>1, <2>2
<1>8. ASSUME NEW r \in Request, CountInMemory(r), at[r] = d, minute[r] # m PROVE kept
    <2>1. Local(d, m)' \subseteq Local(d, m)
        BY <1>8 DEF Types, CountInMemory, Decide, Goto, Local, AdmittedIn
    <2>2. lost \subseteq lost'
        BY <1>8 DEF CountInMemory, Forgotten
    <2>3. CountOf(d, m) = 0
        BY <1>8 DEF Types, CountInMemory, Forgotten, CountOf
    <2>4. CountOf(d, m)' = 0
        BY <1>8 DEF Types, CountInMemory, CountOf
    <2> QED
        BY <2>1, <2>2, <2>3, <2>4
<1>9. ASSUME NEW r \in Request, CountInMemory(r), at[r] = d, minute[r] = m
      PROVE  /\ Cardinality(Local(d, m)') <= Limit
             /\ Cardinality(Local(d, m)') <= CountOf(d, m)'
    <2>1. CountOf(d, m)' = CountOf(d, m) + 1
        <3>1. memory'[d].minute = m
            BY <1>9 DEF Types, CountInMemory
        <3>2. memory'[d].count = IF memory[d].minute = m THEN memory[d].count + 1 ELSE 1
            BY <1>9 DEF Types, CountInMemory
        <3> QED
            BY <3>1, <3>2 DEF CountOf
    <2>2. lost \subseteq lost'
        BY <1>9 DEF CountInMemory, Forgotten
    <2>3. pc' = [pc EXCEPT ![r] = IF CountOf(d, m) + 1 <= Limit THEN "admitted" ELSE "refused"]
        BY <1>9 DEF CountInMemory, Decide, Goto, CountOf
    <2>4. CASE CountOf(d, m)' > Limit
        <3>1. pc' = [pc EXCEPT ![r] = "refused"]
            <4>1. ~(CountOf(d, m) + 1 <= Limit)
                BY <1>2, <2>1, <2>4, LimitAssumption DEF LimitAssumption
            <4> QED
                BY <2>3, <4>1
        <3>2. Local(d, m)' \subseteq Local(d, m)
            BY <1>9, <3>1 DEF Types, CountInMemory, Local, AdmittedIn
        <3> QED
            BY <1>1, <1>2, <2>1, <2>2, <3>2
    <2>5. CASE CountOf(d, m)' <= Limit
        <3>1. Local(d, m)' \in SUBSET (Local(d, m) \cup {r}) /\ Local(d, m) \in SUBSET Request
            BY <1>9 DEF Types, CountInMemory, Decide, Goto, Local, AdmittedIn
        <3>2. Cardinality(Local(d, m)') <= Cardinality(Local(d, m)) + 1
            BY <3>1, CardAtMostOneMore
        <3>3. Local(d, m)' \in SUBSET Request
            BY DEF Local, AdmittedIn
        <3>4. Cardinality(Local(d, m)') \in Nat /\ Cardinality(Local(d, m)) \in Nat
            BY <3>1, <3>3, CardSubset
        <3>5. Cardinality(Local(d, m)) <= CountOf(d, m)
            BY <2>2 DEF MemoryInv
        <3> QED
            BY <1>2, <2>1, <2>5, <3>2, <3>4, <3>5, LimitAssumption DEF LimitAssumption
    <2> QED
        BY <1>2, <2>1, <2>4, <2>5, LimitAssumption DEF LimitAssumption
<1>10. ASSUME NEW r \in Request, Dropped(r) PROVE kept
    BY <1>2, <1>10 DEF Types, Dropped, Goto, Local, AdmittedIn, CountOf
<1>11. ASSUME UNCHANGED <<requestVars, memory, lost>> PROVE kept
    BY <1>2, <1>11 DEF requestVars, Local, AdmittedIn, CountOf
<1>12. ASSUME NEW c \in Container, Connect(c) PROVE kept
    BY <1>11, <1>12 DEF Connect
<1>13. ASSUME NEW c \in Container, Sweep(c) PROVE kept
    <2>1. lost \subseteq lost' /\ CountOf(d, m)' >= CountOf(d, m)
        BY <1>13, ForgottenKept DEF Sweep
    <2>2. Local(d, m)' \subseteq Local(d, m)
        BY <1>13 DEF Sweep, requestVars, Local, AdmittedIn
    <2> QED
        BY <2>1, <2>2
<1>14. ASSUME NEW c \in Container, Restart(c) PROVE kept
    <2>1. lost \subseteq lost' /\ CountOf(d, m)' >= CountOf(d, m)
        BY <1>14, ForgottenKept DEF Restart
    <2>2. Local(d, m)' \subseteq Local(d, m)
        BY <1>14 DEF Types, Restart, Local, AdmittedIn
    <2> QED
        BY <2>1, <2>2
<1>15. ASSUME Tick \/ UNCHANGED vars PROVE kept
    BY <1>11, <1>15 DEF Tick, vars
<1> HIDE DEF kept
<1> QED
    BY <1>1, <1>3, <1>4, <1>5, <1>6, <1>7, <1>8, <1>9, <1>10, <1>12, <1>13, <1>14, <1>15
       DEF Next, Check

-----------------------------------------------------------------------------
(* Refusals.                                                               *)

\* A request that was past the count stays so, in its minute and container,
\* and with its verdict if it has one.
LEMMA Settled ==
    ASSUME Types, [Next]_vars, NEW q \in Request, pc[q] \notin {"start", "incr"}
    PROVE  /\ at'[q] = at[q] /\ minute'[q] = minute[q]
           /\ pc'[q] \notin {"start", "incr"}
           /\ pc[q] \in Over => pc'[q] = pc[q]
           /\ q \in fellBack => q \in fellBack'
<1> DEFINE settled == /\ at'[q] = at[q] /\ minute'[q] = minute[q]
                      /\ pc'[q] \notin {"start", "incr"}
                      /\ pc[q] \in Over => pc'[q] = pc[q]
                      /\ q \in fellBack => q \in fellBack'
<1> USE DEF Types, Over
<1>1. ASSUME NEW r \in Request, ReadMinute(r) PROVE settled
    BY <1>1 DEF ReadMinute, Goto
<1>2. ASSUME NEW r \in Request, Incr(r) PROVE settled
    BY <1>2 DEF Incr, Decide, Goto
<1>3. ASSUME NEW r \in Request, Expire(r) PROVE settled
    BY <1>3 DEF Expire, Decide, Goto
<1>4. ASSUME NEW r \in Request, CacheFails(r) PROVE settled
    BY <1>4 DEF CacheFails, Goto
<1>5. ASSUME NEW r \in Request, CountInMemory(r) PROVE settled
    BY <1>5 DEF CountInMemory, Decide, Goto
<1>6. ASSUME NEW r \in Request, Dropped(r) PROVE settled
    BY <1>6 DEF Dropped, Goto
<1>7. ASSUME NEW c \in Container, Restart(c) PROVE settled
    BY <1>7 DEF Restart
<1>8. ASSUME UNCHANGED requestVars PROVE settled
    BY <1>8 DEF requestVars
<1>9. ASSUME NEW c \in Container, Connect(c) \/ Sweep(c) PROVE settled
    BY <1>8, <1>9 DEF Connect, Sweep
<1>10. ASSUME Tick \/ UNCHANGED vars PROVE settled
    BY <1>8, <1>10 DEF Tick, vars
<1> HIDE DEF settled
<1>11. settled
    BY <1>1, <1>2, <1>3, <1>4, <1>5, <1>6, <1>7, <1>9, <1>10 DEF Next, Check
<1> QED
    BY <1>11 DEF settled

\* So the sets of them only grow.
LEMMA PastGrows ==
    ASSUME Types, [Next]_vars, NEW m \in Minute, NEW c \in Container
    PROVE  Past(m) \subseteq Past(m)' /\ Served(c, m) \subseteq Served(c, m)'
<1>1. ASSUME NEW q \in Past(m) PROVE q \in Past(m)'
    <2>1. q \in Request /\ pc[q] \notin {"start", "incr"}
        BY DEF Past
    <2> QED
        BY <2>1, Settled DEF Past
<1>2. ASSUME NEW q \in Served(c, m) PROVE q \in Served(c, m)'
    <2>1. q \in Request /\ pc[q] \in {"admitted", "refused"}
        BY DEF Served
    <2>2. pc'[q] = pc[q] /\ at'[q] = at[q] /\ minute'[q] = minute[q]
          /\ (q \in fellBack => q \in fellBack')
        BY <2>1, Settled DEF Over
    <2> QED
        BY <2>1, <2>2 DEF Served
<1> QED
    BY <1>1, <1>2

\* Requests served by a map were served in a minute, by a container, for good.
LEMMA ServedIsPast ==
    ASSUME NEW m, NEW c
    PROVE  Served(c, m) \subseteq Past(m) /\ Past(m) \in SUBSET Request
BY DEF Served, Past

\* An entry never counts more than the requests it has served.
LEMMA ServedStep == Types /\ Types' /\ ServedInv /\ [Next]_vars => ServedInv'
<1> SUFFICES ASSUME Types, Types', ServedInv, [Next]_vars, NEW d \in Container
             PROVE  memory'[d].count <= Cardinality(Served(d, memory[d].minute)')
    BY DEF ServedInv
<1> DEFINE goal == memory'[d].count <= Cardinality(Served(d, memory[d].minute)')
<1>1. memory[d].minute \in Minute /\ memory[d].count \in Nat
    BY DEF Types
<1>2. memory'[d].minute \in Minute /\ memory'[d].count \in Nat
    BY DEF Types
<1>3. \A m \in Minute :
             /\ Served(d, m) \in SUBSET Request /\ Served(d, m)' \in SUBSET Request
             /\ Cardinality(Served(d, m)) \in Nat /\ Cardinality(Served(d, m)') \in Nat
    <2>1. \A m \in Minute : Served(d, m) \in SUBSET Request /\ Served(d, m)' \in SUBSET Request
        BY DEF Served
    <2> QED
        BY <2>1, CardSubset
<1>4. \A m \in Minute : Served(d, m) \subseteq Served(d, m)'
    BY PastGrows
<1>5. ASSUME memory'[d] = memory[d] PROVE goal
    <2>1. memory[d].count <= Cardinality(Served(d, memory[d].minute))
        BY DEF ServedInv
    <2>2. \A m \in Minute : Cardinality(Served(d, m)) <= Cardinality(Served(d, m)')
        BY <1>3, <1>4, CardSubset
    <2>3. PICK m \in Minute : m = memory[d].minute
        BY <1>1
    <2>4. memory'[d].count <= Cardinality(Served(d, m)')
        BY <1>1, <1>3, <1>5, <2>1, <2>2, <2>3
    <2>5. Served(d, memory[d].minute)' = Served(d, m)'
        BY <1>5, <2>3 DEF Served
    <2> QED
        BY <2>4, <2>5
<1>6. ASSUME memory' = [memory EXCEPT ![d] = NoEntry] PROVE goal
    <2>1. memory'[d].count = 0
        BY <1>6 DEF Types, NoEntry
    <2>2. Served(d, memory[d].minute)' \in SUBSET Request
        BY DEF Served
    <2>3. Cardinality(Served(d, memory[d].minute)') \in Nat
        BY <2>2, CardSubset
    <2> QED
        BY <2>1, <2>3
<1>7. ASSUME NEW r \in Request, CountInMemory(r), at[r] = d PROVE goal
    <2>0. PICK m \in Minute : m = minute[r]
        BY DEF Types
    <2>1. memory'[d].minute = m /\ Served(d, memory[d].minute)' = Served(d, m)'
        BY <1>7, <2>0 DEF Types, CountInMemory, Served
    <2>2. r \in Served(d, m)' /\ r \notin Served(d, m)
        BY <1>7, <2>0 DEF Types, CountInMemory, Decide, Goto, Served
    <2>3. Cardinality(Served(d, m)) + 1 <= Cardinality(Served(d, m)')
        BY <1>3, <1>4, <2>1, <2>2, CardOneMore
    <2>4. CASE memory[d].minute = m
        <3>1. memory'[d].count = memory[d].count + 1
            BY <1>7, <2>0, <2>4 DEF Types, CountInMemory
        <3>2. memory[d].count <= Cardinality(Served(d, m))
            BY <2>4 DEF ServedInv
        <3> QED
            BY <1>1, <1>3, <2>1, <2>3, <3>1, <3>2
    <2>5. CASE memory[d].minute # m
        <3>1. memory'[d].count = 1
            BY <1>7, <2>0, <2>5 DEF Types, CountInMemory
        <3> QED
            BY <1>3, <2>1, <2>3, <3>1
    <2> QED
        BY <2>4, <2>5
<1>8. ASSUME NEW c \in Container, Sweep(c) \/ Restart(c) PROVE goal
    <2>1. memory' = [memory EXCEPT ![c] = NoEntry]
        BY <1>8 DEF Sweep, Restart
    <2>2. c = d \/ memory'[d] = memory[d]
        BY <2>1 DEF Types
    <2> QED
        BY <1>5, <1>6, <2>1, <2>2
<1>9. ASSUME NEW r \in Request, CountInMemory(r), at[r] # d PROVE goal
    <2>1. memory'[d] = memory[d]
        BY <1>9 DEF Types, CountInMemory
    <2> QED
        BY <1>5, <2>1
<1>10. ASSUME UNCHANGED memory PROVE goal
    BY <1>5, <1>10
<1> HIDE DEF goal
<1>11. goal
    <2>1. ASSUME NEW r \in Request, Check(r) \/ Dropped(r) PROVE goal
        BY <1>7, <1>9, <1>10, <2>1
           DEF Check, ReadMinute, Incr, Expire, CacheFails, Dropped
    <2>2. ASSUME NEW c \in Container, Connect(c) PROVE goal
        BY <1>10, <2>2 DEF Connect
    <2>3. ASSUME Tick \/ UNCHANGED vars PROVE goal
        BY <1>10, <2>3 DEF Tick, vars
    <2> QED
        BY <1>8, <2>1, <2>2, <2>3 DEF Next
<1> QED
    BY <1>11 DEF goal

\* Whoever is refused has the limit's number of requests before it.
LEMMA RefusedStep ==
    Types /\ Types' /\ CountInv /\ ServedInv /\ RefusedInv /\ [Next]_vars => RefusedInv'
<1> SUFFICES ASSUME Types, Types', CountInv, ServedInv, RefusedInv, [Next]_vars,
                    NEW q \in Request, pc'[q] = "refused"
             PROVE  Cardinality(Past(minute[q])' \ {q}) >= Limit
    BY DEF RefusedInv
<1>1. PICK m \in Minute : m = minute[q]
    BY DEF Types
<1>2. ASSUME NEW S \in SUBSET (Past(m) \ {q}), Cardinality(S) >= Limit, minute'[q] = m
      PROVE  Cardinality(Past(minute[q])' \ {q}) >= Limit
    <2>1. PICK c \in Container : c = at[q]
        BY DEF Types
    <2>2. Past(m) \subseteq Past(m)'
        BY <2>1, PastGrows
    <2>3. S \in SUBSET (Past(m)' \ {q}) /\ Past(m)' \ {q} \in SUBSET Request
        BY <2>2 DEF Past
    <2>4. /\ Cardinality(S) <= Cardinality(Past(m)' \ {q})
          /\ Cardinality(S) \in Nat /\ Cardinality(Past(m)' \ {q}) \in Nat
        BY <2>3, CardSubset
    <2>5. Past(minute[q])' = Past(m)'
        BY <1>2 DEF Past
    <2> QED
        BY <1>2, <2>4, <2>5, LimitAssumption DEF LimitAssumption
<1>3. CASE pc[q] = "refused"
    <2>1. minute'[q] = m
        BY <1>1, <1>3, Settled
    <2>2. Cardinality(Past(m) \ {q}) >= Limit
        BY <1>1, <1>3 DEF RefusedInv
    <2> QED
        BY <1>2, <2>1, <2>2
<1>4. CASE pc[q] # "refused"
    <2>1. \/ Incr(q) /\ ~(count[m] + 1 <= Limit)
          \/ CountInMemory(q) /\ memory[at[q]].minute = m /\ ~(memory[at[q]].count + 1 <= Limit)
        <3>1. ASSUME NEW r \in Request, ReadMinute(r) PROVE FALSE
            BY <1>4, <3>1 DEF Types, ReadMinute, Goto
        <3>2. ASSUME NEW r \in Request, Incr(r) PROVE Incr(q) /\ ~(count[m] + 1 <= Limit)
            BY <1>1, <1>4, <3>2 DEF Types, Incr, Decide, Goto
        <3>3. ASSUME NEW r \in Request, Expire(r) PROVE FALSE
            BY <1>4, <3>3, LimitAssumption DEF Types, Expire, Decide, Goto, LimitAssumption
        <3>4. ASSUME NEW r \in Request, CacheFails(r) PROVE FALSE
            BY <1>4, <3>4 DEF Types, CacheFails, Goto
        <3>5. ASSUME NEW r \in Request, CountInMemory(r)
              PROVE  /\ CountInMemory(q) /\ memory[at[q]].minute = m
                     /\ ~(memory[at[q]].count + 1 <= Limit)
            <4>1. q = r
                BY <1>4, <3>5 DEF Types, CountInMemory, Decide, Goto
            <4> QED
                BY <1>1, <1>4, <3>5, <4>1, LimitAssumption
                   DEF Types, CountInMemory, Decide, Goto, LimitAssumption
        <3>6. ASSUME NEW r \in Request, Dropped(r) PROVE FALSE
            BY <1>4, <3>6 DEF Types, Dropped, Goto
        <3>7. ASSUME NEW c \in Container, Restart(c) PROVE FALSE
            BY <1>4, <3>7 DEF Types, Restart
        <3>8. ASSUME UNCHANGED requestVars PROVE FALSE
            BY <1>4, <3>8 DEF requestVars
        <3> QED
            BY <3>1, <3>2, <3>3, <3>4, <3>5, <3>6, <3>7, <3>8
               DEF Next, Check, Connect, Sweep, Tick, vars
    <2>2. CASE Incr(q) /\ ~(count[m] + 1 <= Limit)
        <3>1. minute'[q] = m /\ q \notin Past(m)
            BY <1>1, <2>2 DEF Incr, Past
        <3>2. count[m] <= Cardinality(Past(m)) /\ count[m] \in Nat
            BY DEF CountInv, Types
        <3>3. Past(m) \in SUBSET (Past(m) \ {q}) /\ Past(m) \in SUBSET Request
            BY <3>1 DEF Past
        <3>4. Cardinality(Past(m)) \in Nat
            BY <3>3, CardSubset
        <3>5. Cardinality(Past(m)) >= Limit
            BY <2>2, <3>2, <3>4, LimitAssumption DEF LimitAssumption
        <3> QED
            BY <1>2, <3>1, <3>3, <3>5
    <2>3. CASE /\ CountInMemory(q) /\ memory[at[q]].minute = m
               /\ ~(memory[at[q]].count + 1 <= Limit)
        <3> DEFINE c == at[q]
                   S == Served(c, m)
        <3>1. minute'[q] = m /\ q \notin S
            BY <1>1, <2>3 DEF CountInMemory, Served
        <3>2. memory[c].count <= Cardinality(S) /\ memory[c].count \in Nat
            BY <1>1, <2>3 DEF ServedInv, Types
        <3>3. S \in SUBSET (Past(m) \ {q}) /\ S \in SUBSET Request
            BY <3>1, ServedIsPast
        <3>4. Cardinality(S) \in Nat
            BY <3>3, CardSubset
        <3>5. Cardinality(S) >= Limit
            BY <2>3, <3>2, <3>4, LimitAssumption DEF LimitAssumption
        <3> QED
            BY <1>2, <3>1, <3>3, <3>5
    <2> QED
        BY <2>1, <2>2, <2>3
<1> QED
    BY <1>3, <1>4

-----------------------------------------------------------------------------
(* Theorems.                                                               *)

\* The inductive invariant of rate_limit.rs, check: counts in Valkey and in the
\* maps, and the requests they have counted.
THEOREM RateSpecIInv == Spec => []IInv
<1>1. IInv /\ [Next]_vars => IInv'
    BY TypesStep, CountStep, MemoryStep, ServedStep, RefusedStep DEF IInv
<1> QED
    BY <1>1, InitIInv, PTL DEF Spec

\* Type correctness of check (rate_limit.rs), for any number of requests: no
\* count exceeds the requests there were.
THEOREM RateTypeOK == Spec => []TypeOK
<1>1. IInv => TypeOK
    <2> SUFFICES ASSUME IInv PROVE TypeOK
        OBVIOUS
    <2>1. Types /\ CountInv /\ ServedInv
        BY DEF IInv
    <2>2. Cardinality(Request) \in Nat
        BY RequestAssumption, FS_CardinalityType DEF RequestAssumption
    <2>3. ASSUME NEW m \in Minute PROVE count[m] \in 0..Cardinality(Request)
        <3>1. /\ Cardinality(Past(m)) <= Cardinality(Request) /\ Cardinality(Past(m)) \in Nat
            BY CardSubset DEF Past
        <3> QED
            BY <2>1, <2>2, <3>1 DEF CountInv, Types
    <2>4. ASSUME NEW c \in Container
          PROVE  memory[c] \in [minute : Minute, count : 0..Cardinality(Request)]
        <3> DEFINE S == Served(c, memory[c].minute)
        <3>1. Cardinality(S) <= Cardinality(Request) /\ Cardinality(S) \in Nat
            BY CardSubset DEF Served
        <3>2. memory[c].count <= Cardinality(S)
            BY <2>1 DEF ServedInv
        <3>3. memory[c] \in [minute : Minute, count : Nat]
            BY <2>1 DEF Types
        <3>4. memory[c].count \in 0..Cardinality(Request)
            BY <2>2, <3>1, <3>2, <3>3
        <3> QED
            BY <3>3, <3>4
    <2> QED
        BY <2>1, <2>3, <2>4 DEF Types, TypeOK
<1> QED
    BY <1>1, RateSpecIInv, PTL

\* Of the requests of one minute that Valkey answers, no more than the limit
\* pass, whatever the number of containers, as long as Valkey keeps its count
\* (rate_limit.rs:21-34).
THEOREM RateSharedLimit == Spec => []SharedLimit
<1>1. IInv => SharedLimit
    <2> SUFFICES ASSUME IInv, NEW m \in Minute
                 PROVE  Cardinality(AdmittedIn(m) \ fellBack) <= Limit
        BY DEF SharedLimit
    <2>1. Cardinality(Counted(m)) <= Limit
        BY DEF IInv, CountInv
    <2>2. AdmittedIn(m) \ fellBack \in SUBSET Counted(m) /\ Counted(m) \in SUBSET Request
        BY DEF AdmittedIn, Counted
    <2>3. /\ Cardinality(AdmittedIn(m) \ fellBack) <= Cardinality(Counted(m))
          /\ Cardinality(AdmittedIn(m) \ fellBack) \in Nat
          /\ Cardinality(Counted(m)) \in Nat
        BY <2>2, CardSubset
    <2> QED
        BY <2>1, <2>3, LimitAssumption DEF LimitAssumption
<1> QED
    BY <1>1, RateSpecIInv, PTL

\* Without Valkey, each container keeps to the limit in every minute whose count
\* its map has not lost (rate_limit.rs:38-47).
THEOREM RateMemoryLimit == Spec => []MemoryLimit
<1>1. IInv => MemoryLimit
    BY DEF IInv, MemoryInv, MemoryLimit, Local
<1> QED
    BY <1>1, RateSpecIInv, PTL

\* Nobody is refused for a slow or a failing cache alone: as many others as the
\* limit allows were past their INCR (rate_limit.rs:32-47).
THEOREM RateRefusedOnlyOverLimit == Spec => []RefusedOnlyOverLimit
<1>1. IInv => RefusedOnlyOverLimit
    <2> SUFFICES ASSUME IInv, NEW r \in Request, pc[r] = "refused"
                 PROVE  Cardinality({q \in Request \ {r} : /\ minute[q] = minute[r]
                                                           /\ pc[q] \notin {"start", "incr"}})
                        >= Limit
        BY DEF RefusedOnlyOverLimit
    <2>1. {q \in Request \ {r} : /\ minute[q] = minute[r]
                                 /\ pc[q] \notin {"start", "incr"}} = Past(minute[r]) \ {r}
        BY DEF Past
    <2> QED
        BY <2>1 DEF IInv, RefusedInv
<1> QED
    BY <1>1, RateSpecIInv, PTL
=============================================================================
