-------------------------- MODULE AllowancesProofs --------------------------
(***************************************************************************)
(* Proofs about Allowances, for every number of accounts, chunk sizes and  *)
(* reruns.                                                                 *)
(***************************************************************************)
EXTENDS Allowances, WellFoundedInduction, TLAPS

-----------------------------------------------------------------------------
(* Chunks. *)

LEMMA ChunksType ==
  ASSUME NEW n \in Nat, NEW size \in Nat \ {0}
  PROVE  /\ Chunks(n, size) \in Nat
         /\ n <= Chunks(n, size) * size
         /\ Chunks(n, size) <= n
  <1>. DEFINE m == n + size - 1
              q == m \div size
  <1>1. m \in Nat /\ q \in Nat
    OBVIOUS
  <1>2. m = q * size + (m % size) /\ m % size \in 0 .. size - 1
    OBVIOUS
  <1>3. n <= q * size
    BY <1>1, <1>2
  <1>4. q <= n
    <2>1. q * size <= m
      BY <1>1, <1>2
    <2>2. CASE n = 0
      BY <1>1, <2>1, <2>2
    <2>3. CASE n > 0
      <3>1. (n - 1) * (size - 1) >= 0
        BY <2>3
      <3>2. n * size >= m
        BY <3>1
      <3>. QED  BY <1>1, <1>2, <2>1, <3>2
    <2>. QED  BY <2>2, <2>3
  <1>. QED  BY <1>1, <1>3, <1>4 DEF Chunks

\* Every item is in one of the chunks of chunks.
LEMMA ItemsCovered ==
  ASSUME NEW n \in Nat, NEW size \in Nat \ {0}, NEW calls \in Nat \ {0},
         NEW i \in 0 .. n - 1
  PROVE  i \div (size * calls) \in 0 .. Chunks(Chunks(n, size), calls) - 1
  <1>. DEFINE C == Chunks(n, size)
              D == Chunks(C, calls)
              w == size * calls
              q == i \div w
  <1>1. C \in Nat /\ n <= C * size
    BY ChunksType
  <1>2. D \in Nat /\ C <= D * calls
    BY <1>1, ChunksType
  <1>3. w \in Nat \ {0}
    OBVIOUS
  <1>. HIDE DEF C, D
  <1>4. n <= D * w
    <2>1. C * size <= (D * calls) * size
      BY <1>1, <1>2
    <2>2. (D * calls) * size = D * w
      BY <1>2
    <2>. QED  BY <1>1, <1>2, <1>3, <2>1, <2>2
  <1>. HIDE DEF w
  <1>5. q \in Nat /\ q * w <= i
    BY <1>3
  <1>. HIDE DEF q
  <1>6. q < D
    <2>. SUFFICES ASSUME D <= q PROVE FALSE
      BY <1>2, <1>5
    <2>1. D * w <= q * w
      BY <1>2, <1>3, <1>5
    <2>. QED  BY <1>2, <1>3, <1>4, <1>5, <2>1
  <1>. QED  BY <1>2, <1>5, <1>6 DEF q, w, D, C

LEMMA BatchesType ==
  ASSUME options \in SetupArgs, options.batchSize > 0, options.maxCalls > 0
  PROVE  Batches \in 0 .. Accounts
  <1>1. /\ options.numClients \in 0 .. Accounts
        /\ options.batchSize \in Nat \ {0} /\ options.maxCalls \in Nat \ {0}
    BY SizesAssumption DEF SetupArgs
  <1>2. StorageCalls \in 0 .. options.numClients
    BY <1>1, ChunksType DEF StorageCalls
  <1>3. Batches \in 0 .. StorageCalls
    BY <1>1, <1>2, ChunksType DEF Batches
  <1>. QED  BY <1>1, <1>2, <1>3, SizesAssumption

-----------------------------------------------------------------------------
(* Max. *)

\* A set of naturals has a least element, and a bounded one a greatest.
LEMMA LeastNatural ==
  ASSUME NEW S \in SUBSET Nat, S # {}
  PROVE  \E m \in S : \A k \in S : m <= k
  <1>1. PICK m \in S : \A k \in S : ~(<<k, m>> \in OpToRel(<, Nat))
    BY NatLessThanWellFounded, WFMin, Zenon
  <1>2. \A k \in S : ~(k < m)
    BY <1>1, Zenon DEF OpToRel
  <1>. QED  BY <1>2

LEMMA MaxIsGreatest ==
  ASSUME NEW n \in Nat, NEW S \in SUBSET (0 .. n), S # {}
  PROVE  Max(S) \in S /\ \A s \in S : s <= Max(S)
  <1>. DEFINE T == {n - s : s \in S}
  <1>1. T \in SUBSET Nat /\ T # {}
    BY \A s \in S : n - s \in Nat
  <1>2. PICK t \in T : \A u \in T : t <= u
    BY <1>1, LeastNatural
  <1>3. PICK s \in S : t = n - s
    BY <1>2
  <1>4. \A r \in S : s >= r
    BY <1>2, <1>3
  <1>. QED  BY <1>4 DEF Max

-----------------------------------------------------------------------------
(* The chain only grows. *)

ChainOK ==
  /\ chain \in Seq([tx : Transaction, effect : Effect])
  /\ finalized \in 0 .. Len(chain)

LEMMA Grows ==
  ASSUME TypeOK, [Next]_vars
  PROVE  /\ Len(chain) <= Len(chain') /\ finalized <= finalized'
         /\ \A i \in DOMAIN chain : i \in DOMAIN chain' /\ chain'[i] = chain[i]
         /\ finalized' \in Nat /\ initial' = initial /\ options' = options
  <1>t. ChainOK
    BY DEF TypeOK, ChainOK
  <1>1. CASE Include
    <2>1. PICK entry : chain' = Append(chain, entry)
      BY <1>1 DEF Include
    <2>. QED  BY <1>1, <1>t, <2>1 DEF Include, NodeFrame, ChainOK
  <1>2. CASE Finalize
    BY <1>2, <1>t DEF Finalize, NodeFrame, ChainOK
  <1>3. CASE ~Include /\ ~Finalize
    <2>1. UNCHANGED <<chain, finalized, initial, options>>
      BY <1>3 DEF Next, Setup, Admin, Chain, StartSetup, GetNonce, Submit,
           SubmitFails, NextBatch, Verify, StartAdmin, QuotaSet, ReadBack, Drop,
           Rerun, Disconnected, Frame, NodeFrame, vars, nodeVars
    <2>. QED  BY <1>t, <2>1 DEF ChainOK
  <1>. QED  BY <1>1, <1>2, <1>3

\* What is finalized stays, and so does what it says of an account.
LEMMA DoneStays ==
  ASSUME TypeOK, [Next]_vars, NEW r, NEW b, Done(r, b)
  PROVE  Done(r, b)'
  <1>1. PICK i \in 1 .. finalized :
          /\ chain[i].effect # "failed"
          /\ chain[i].tx.by = "setup" /\ chain[i].tx.run = r
          /\ chain[i].tx.batch = b
    BY DEF Done
  <1>2. i \in DOMAIN chain /\ finalized \in Nat
    BY DEF TypeOK
  <1>3. chain'[i] = chain[i]
    BY <1>2, Grows DEF TypeOK
  <1>. QED  BY <1>1, <1>2, <1>3, Grows DEF Done

Writing(account, n) ==
  {i \in 1 .. n : chain[i].effect = "applied" /\ account \in Writes(chain[i].tx)}

LEMMA WritingStays ==
  ASSUME TypeOK, [Next]_vars, NEW account, NEW n \in 0 .. Len(chain)
  PROVE  Writing(account, n)' = Writing(account, n)
  <1>1. \A i \in 1 .. n : chain'[i] = chain[i]
    BY Grows DEF TypeOK
  <1>2. options' = options
    BY Grows
  <1>3. \A tx : Writes(tx)' = Writes(tx)
    BY <1>2 DEF Writes, BatchAccounts
  <1>. QED  BY <1>1, <1>3 DEF Writing

LEMMA AllowanceStays ==
  ASSUME TypeOK, [Next]_vars, NEW account, NEW n \in 0 .. Len(chain)
  PROVE  AllowanceAt(account, n)' = AllowanceAt(account, n)
  <1>1. Writing(account, n)' = Writing(account, n)
    BY WritingStays
  <1>2. initial' = initial
    BY Grows
  <1>3. CASE Writing(account, n) = {}
    BY <1>1, <1>2, <1>3 DEF AllowanceAt, Writing
  <1>4. CASE Writing(account, n) # {}
    <2>1. n \in Nat /\ Writing(account, n) \in SUBSET (0 .. n)
      BY DEF TypeOK, Writing
    <2>2. Max(Writing(account, n)) \in 1 .. n
      BY <1>4, <2>1, MaxIsGreatest DEF Writing
    <2>3. chain'[Max(Writing(account, n))] = chain[Max(Writing(account, n))]
      BY <2>2, Grows DEF TypeOK
    <2>. QED  BY <1>1, <1>4, <2>3 DEF AllowanceAt, Writing
  <1>. QED  BY <1>3, <1>4

\* Who has an allowance keeps one.
LEMMA AllowanceRemains ==
  ASSUME TypeOK, [Next]_vars, NEW account, NEW m \in 0 .. Len(chain), NEW n \in Nat,
         m <= n, AllowanceAt(account, m) # "none"
  PROVE  AllowanceAt(account, n)' # "none"
  <1>1. Writing(account, m) \subseteq Writing(account, n)'
    <2>1. Writing(account, m) = Writing(account, m)'
      BY WritingStays
    <2>. QED  BY <2>1 DEF Writing, TypeOK
  <1>2. initial' = initial
    BY Grows
  <1>3. CASE Writing(account, m) = {}
    BY <1>2, <1>3 DEF AllowanceAt, Writing
  <1>4. CASE Writing(account, m) # {}
    BY <1>1, <1>4 DEF AllowanceAt, Writing
  <1>. QED  BY <1>3, <1>4

-----------------------------------------------------------------------------
(* The inductive invariant. *)

\* The batches before the current one are done, and the sizes are positive once
\* they have been divided by.
SetupInv ==
  /\ \A b \in 0 .. batch - 1 : Done(run, b)
  /\ pc["setup"] \in {"start", "nonce"} => batch = 0
  /\ pc["setup"] \in {"nonce", "submit", "wait", "verify", "success"}
       => options.batchSize > 0
  /\ pc["setup"] \in {"submit", "wait", "verify", "success"} => options.maxCalls > 0
  /\ pc["setup"] \in {"submit", "wait"} => batch < Batches
  /\ pc["setup"] \in {"verify", "success"} => batch = Batches
  /\ pc["setup"] = "success" =>
       \A i \in 0 .. options.numClients - 1 : AllowanceAt(i, finalized) # "none"

AdminInv ==
  /\ pc["admin"] \in {"verify", "success"} =>
       InBlock("admin") /\ nonce["admin"] < finalized
  /\ SetQuotaTrue

IndInv == TypeOK /\ BatchesInOrder /\ SetupInv /\ AdminInv

LEMMA IndInit == Init => IndInv
  <1>. SUFFICES ASSUME Init PROVE IndInv
    OBVIOUS
  <1>1. TypeOK
    <2>1. initial \in [Account -> Quota]
      BY DEF Init, Quota
    <2>. QED  BY <2>1, SizesAssumption DEF Init, TypeOK, Location, Process
  <1>2. BatchesInOrder
    BY DEF Init, BatchesInOrder
  <1>3. SetupInv /\ AdminInv
    BY DEF Init, SetupInv, AdminInv, SetQuotaTrue, Process
  <1>. QED  BY <1>1, <1>2, <1>3 DEF IndInv

LEMMA CurrentType ==
  ASSUME TypeOK, NEW p \in Process
  PROVE  Current(p) \in Transaction
  BY SizesAssumption DEF TypeOK, Current, Transaction

LEMMA TypeStep == IndInv /\ [Next]_vars => TypeOK'
  <1>. SUFFICES ASSUME IndInv, [Next]_vars PROVE TypeOK'
    OBVIOUS
  <1>t. TypeOK
    BY DEF IndInv
  <1>u. CASE UNCHANGED vars
    BY <1>t, <1>u DEF TypeOK, vars, nodeVars, processVars
  <1>1. CASE Include
    <2>1. PICK tx \in pool, effect \in Effect :
            /\ tx.nonce = Len(chain)
            /\ chain' = Append(chain, [tx |-> tx, effect |-> effect])
            /\ pool' = {other \in pool : other.nonce > tx.nonce}
      BY <1>1 DEF Include, Effect
    <2>2. tx \in Transaction /\ chain \in Seq([tx : Transaction, effect : Effect])
      BY <1>t DEF TypeOK
    <2>3. chain' \in Seq([tx : Transaction, effect : Effect])
      BY <2>1, <2>2
    <2>4. Len(chain') = Len(chain) + 1
      BY <2>1, <2>2
    <2>5. \A i \in DOMAIN chain' : chain'[i].tx.nonce = i - 1
      BY <1>t, <2>1, <2>2 DEF TypeOK
    <2>6. \A other \in pool' : other \in Transaction /\ other.nonce >= Len(chain')
      BY <1>t, <2>1, <2>2, <2>4 DEF TypeOK, Transaction
    <2>7. finalized \in 0 .. Len(chain') /\ nonce \in [Process -> 0 .. Len(chain')]
      BY <1>t, <2>2, <2>4 DEF TypeOK
    <2>. QED  BY <1>1, <1>t, <2>3, <2>5, <2>6, <2>7
              DEF Include, NodeFrame, processVars, TypeOK
  <1>2. CASE Finalize \/ Drop
    BY <1>2, <1>t DEF Finalize, Drop, NodeFrame, processVars, TypeOK
  <1>3. ASSUME NEW p \in Process, GetNonce(p) \/ Submit(p) PROVE TypeOK'
    <2>1. Current(p) \in Transaction /\ Current(p).nonce = nonce[p]
      BY <1>t, CurrentType DEF Current
    <2>2. pc' \in [Process -> Location]
      BY <1>3, <1>t DEF GetNonce, Submit, Goto, TypeOK, Location
    <2>3. nonce' \in [Process -> 0 .. Len(chain)]
      BY <1>3, <1>t DEF GetNonce, Submit, TypeOK
    <2>4. pool' \subseteq Transaction /\ \A tx \in pool' : tx.nonce >= Len(chain)
      BY <1>3, <1>t, <2>1 DEF GetNonce, Submit, TypeOK
    <2>. QED  BY <1>3, <1>t, <2>2, <2>3, <2>4 DEF GetNonce, Submit, Frame, TypeOK
  <1>4. ASSUME NEW p \in Process, SubmitFails(p) \/ Disconnected(p) PROVE TypeOK'
    BY <1>4, <1>t DEF SubmitFails, Disconnected, Goto, Frame, TypeOK, Location
  <1>5. CASE StartSetup \/ Verify \/ StartAdmin \/ QuotaSet \/ ReadBack
    BY <1>5, <1>t DEF StartSetup, Verify, StartAdmin, QuotaSet, ReadBack, Goto,
         Frame, TypeOK, Location
  <1>6. CASE NextBatch
    <2>1. nonce["setup"] + 1 \in 0 .. Len(chain)
      <3>1. nonce["setup"] \in Nat /\ finalized \in 0 .. Len(chain)
        BY <1>t DEF TypeOK, Process
      <3>2. Len(chain) \in Nat
        BY <1>t DEF TypeOK
      <3>. QED  BY <1>6, <3>1, <3>2 DEF NextBatch, Ok
    <2>2. batch + 1 \in 0 .. Accounts
      BY <1>6, <1>t, BatchesType, SizesAssumption
         DEF NextBatch, IndInv, SetupInv, TypeOK
    <2>3. /\ pc' \in [Process -> Location]
          /\ nonce' \in [Process -> 0 .. Len(chain)]
      BY <1>6, <1>t, <2>1 DEF NextBatch, Goto, TypeOK, Location, Process
    <2>4. batch' \in 0 .. Accounts
      BY <1>6, <2>2 DEF NextBatch
    <2>. QED  BY <1>6, <1>t, <2>3, <2>4 DEF NextBatch, Frame, TypeOK
  <1>7. CASE Rerun
    <2>1. pc' \in [Process -> Location]
      BY <1>7, <1>t DEF Rerun, Goto, TypeOK, Location
    <2>2. batch' \in 0 .. Accounts /\ run' \in 1 .. Runs
      BY <1>7, <1>t, SizesAssumption DEF Rerun, TypeOK
    <2>. QED  BY <1>7, <1>t, <2>1, <2>2 DEF Rerun, Frame, TypeOK
  <1>. QED  BY <1>u, <1>1, <1>2, <1>3, <1>4, <1>5, <1>6, <1>7
            DEF Next, Setup, Admin, Chain, Process

\* Batches are added in order, and what is done stays done.
LEMMA OrderStep == IndInv /\ [Next]_vars => BatchesInOrder'
  <1>. SUFFICES ASSUME IndInv, [Next]_vars PROVE BatchesInOrder'
    OBVIOUS
  <1>. DEFINE Sent == pool \cup {chain[i].tx : i \in DOMAIN chain}
  <1>t. TypeOK
    BY DEF IndInv
  <1>1. \A tx \in Sent' : tx \in Sent \/ (tx.by = "setup" => tx = Current("setup"))
    <2>1. CASE Include
      <3>1. PICK tx \in pool, effect \in Effect :
              /\ chain' = Append(chain, [tx |-> tx, effect |-> effect])
              /\ pool' \subseteq pool
        BY <2>1 DEF Include, Effect
      <3>2. \A i \in DOMAIN chain' :
              chain'[i].tx = tx \/ (i \in DOMAIN chain /\ chain'[i] = chain[i])
        BY <1>t, <3>1 DEF TypeOK
      <3>. QED  BY <3>1, <3>2
    <2>2. ASSUME NEW p \in Process, Submit(p)
          PROVE  \A tx \in Sent' :
                   tx \in Sent \/ (tx.by = "setup" => tx = Current("setup"))
      <3>1. chain' = chain
        BY <2>2 DEF Submit, Frame
      <3>2. pool' \subseteq pool \cup {Current(p)}
        BY <2>2 DEF Submit
      <3>3. Current(p).by = "setup" => p = "setup"
        BY DEF Current
      <3>. QED  BY <3>1, <3>2, <3>3
    <2>3. CASE ~Include /\ \A p \in Process : ~Submit(p)
      <3>1. chain' = chain /\ pool' \subseteq pool
        BY <2>3 DEF Next, Setup, Admin, Chain, Process, StartSetup, GetNonce,
           SubmitFails, NextBatch, Verify, StartAdmin, QuotaSet, ReadBack, Drop,
           Finalize, Rerun, Disconnected, Frame, vars, nodeVars
      <3>. QED  BY <3>1
    <2>. QED  BY <2>1, <2>2, <2>3
  <1>2. ASSUME NEW tx \in Sent', tx.by = "setup", NEW b \in 0 .. tx.batch - 1
        PROVE  Done(tx.run, b)
    <2>1. CASE tx \in Sent
      BY <1>2, <2>1 DEF IndInv, BatchesInOrder
    <2>2. CASE tx = Current("setup")
      BY <1>2, <2>2 DEF IndInv, SetupInv, Current
    <2>. QED  BY <1>1, <1>2, <2>1, <2>2
  <1>3. ASSUME NEW tx \in Sent', tx.by = "setup", NEW b \in 0 .. tx.batch - 1
        PROVE  Done(tx.run, b)'
    BY <1>t, <1>2, <1>3, DoneStays
  <1>. QED  BY <1>3 DEF BatchesInOrder

\* Whether a transaction is in a block, and its nonce finalized, does not change.
LEMMA InBlockStays ==
  ASSUME TypeOK, [Next]_vars, InBlock("admin"), nonce["admin"] < finalized,
         nonce'["admin"] = nonce["admin"]
  PROVE  (InBlock("admin") /\ nonce["admin"] < finalized)'
  <1>1. nonce["admin"] \in Nat /\ nonce["admin"] + 1 \in DOMAIN chain
    BY DEF TypeOK, InBlock, Process
  <1>2. Current("admin")' = Current("admin")
    BY DEF Current
  <1>3. finalized \in Nat /\ Len(chain) \in Nat /\ Len(chain') \in Nat
    BY Grows DEF TypeOK
  <1>. QED  BY <1>1, <1>2, <1>3, Grows DEF InBlock

LEMMA SetupStep == IndInv /\ [Next]_vars => SetupInv'
  <1>. SUFFICES ASSUME IndInv, [Next]_vars PROVE SetupInv'
    OBVIOUS
  <1>t. TypeOK /\ SetupInv
    BY DEF IndInv
  <1>o. options' = options /\ Batches' = Batches
    BY <1>t, Grows DEF Batches, StorageCalls
  <1>d. \A r, b : Done(r, b) => Done(r, b)'
    BY <1>t, DoneStays
  <1>a. \A i : AllowanceAt(i, finalized) # "none"
                => (AllowanceAt(i, finalized) # "none")'
    <2>1. /\ finalized \in 0 .. Len(chain)
          /\ finalized' \in Nat /\ finalized <= finalized'
      BY <1>t, Grows DEF TypeOK
    <2>2. \A i : \A m \in 0 .. Len(chain), n \in Nat :
            m <= n /\ AllowanceAt(i, m) # "none" => AllowanceAt(i, n)' # "none"
      BY <1>t, AllowanceRemains
    <2>. QED  BY <2>1, <2>2
  \* Everything the invariant is about stays as it is.
  <1>1. CASE UNCHANGED <<pc["setup"], batch, run>>
    BY <1>1, <1>t, <1>o, <1>d, <1>a DEF SetupInv
  <1>2. CASE pc'["setup"] = "failure" /\ UNCHANGED <<batch, run>>
    BY <1>2, <1>t, <1>o, <1>d DEF SetupInv
  <1>3. CASE StartSetup
    BY <1>3, <1>t, <1>o, <1>d, SizesAssumption
       DEF StartSetup, Goto, SetupInv, TypeOK, Process, SetupArgs
  <1>4. CASE GetNonce("setup")
    <2>1. options.batchSize \in Nat /\ options.maxCalls \in Nat
      BY <1>t, SizesAssumption DEF TypeOK, SetupArgs
    <2>2. CASE options.maxCalls = 0
      BY <1>4, <1>t, <1>o, <1>d, <2>2 DEF GetNonce, Goto, SetupInv, TypeOK, Process
    <2>3. CASE options.maxCalls > 0
      <3>1. Batches \in Nat
        BY <1>4, <1>t, <2>1, <2>3, BatchesType, SizesAssumption
           DEF GetNonce, SetupInv, TypeOK
      <3>. QED  BY <1>4, <1>t, <1>o, <1>d, <2>1, <2>3, <3>1
                DEF GetNonce, Goto, SetupInv, TypeOK, Process
    <2>. QED  BY <2>1, <2>2, <2>3
  <1>5. CASE Submit("setup")
    BY <1>5, <1>t, <1>o, <1>d DEF Submit, Goto, SetupInv, TypeOK, Process
  <1>6. CASE NextBatch
    <2>1. batch \in Nat /\ Batches \in Nat
      BY <1>6, <1>t, BatchesType, SizesAssumption DEF NextBatch, SetupInv, TypeOK
    <2>2. Done(run, batch)
      <3>1. nonce["setup"] + 1 \in 1 .. finalized
        BY <1>6, <1>t DEF NextBatch, Ok, TypeOK, Process
      <3>2. /\ chain[nonce["setup"] + 1].tx = Current("setup")
            /\ chain[nonce["setup"] + 1].effect # "failed"
        BY <1>6 DEF NextBatch, Ok, InBlock
      <3>. QED  BY <3>1, <3>2 DEF Done, Current
    <2>3. (\A b \in 0 .. batch - 1 : Done(run, b))'
      <3>1. \A b \in 0 .. batch : Done(run, b)
        BY <1>t, <2>1, <2>2 DEF SetupInv
      <3>2. run' = run /\ batch' = batch + 1
        BY <1>6 DEF NextBatch
      <3>. QED  BY <1>d, <2>1, <3>1, <3>2
    <2>. QED  BY <1>6, <1>t, <1>o, <2>1, <2>3
              DEF NextBatch, Goto, SetupInv, TypeOK, Process
  <1>7. CASE Verify
    BY <1>7, <1>t, <1>o, <1>d, <1>a
       DEF Verify, Goto, Frame, SetupInv, TypeOK, Process
  <1>8. CASE Rerun
    BY <1>8, <1>t DEF Rerun, Goto, SetupInv, TypeOK, Process
  <1>9. ASSUME ~(StartSetup \/ GetNonce("setup") \/ Submit("setup") \/ NextBatch
                 \/ Verify \/ Rerun)
        PROVE  \/ UNCHANGED <<pc["setup"], batch, run>>
               \/ pc'["setup"] = "failure" /\ UNCHANGED <<batch, run>>
    <2>1. CASE SubmitFails("setup") \/ Disconnected("setup")
      BY <2>1, <1>t DEF SubmitFails, Disconnected, Goto, TypeOK, Process
    <2>2. CASE Chain \/ Drop \/ UNCHANGED vars
      BY <2>2 DEF Chain, Include, Finalize, Drop, NodeFrame, vars, processVars
    <2>3. CASE Admin \/ Disconnected("admin")
      <3>1. pc'["setup"] = pc["setup"]
        BY <2>3, <1>t DEF Admin, StartAdmin, GetNonce, Submit, SubmitFails, QuotaSet,
           ReadBack, Disconnected, Goto, TypeOK, Process
      <3>2. UNCHANGED <<batch, run>>
        BY <2>3 DEF Admin, StartAdmin, GetNonce, Submit, SubmitFails, QuotaSet,
           ReadBack, Disconnected
      <3>. QED  BY <3>1, <3>2
    <2>. QED  BY <1>9, <2>1, <2>2, <2>3 DEF Next, Setup, Process
  <1>. QED  BY <1>1, <1>2, <1>3, <1>4, <1>5, <1>6, <1>7, <1>8, <1>9

LEMMA AdminStep == IndInv /\ [Next]_vars => AdminInv'
  <1>. SUFFICES ASSUME IndInv, [Next]_vars PROVE AdminInv'
    OBVIOUS
  <1>t. TypeOK /\ AdminInv
    BY DEF IndInv
  <1>. DEFINE HadQuota ==
         \E n \in nonce["admin"] + 1 .. Len(chain) : AllowanceAt(Target, n) = "quota"
  <1>1. CASE UNCHANGED <<pc["admin"], nonce["admin"]>>
    <2>1. pc["admin"] \in {"verify", "success"} =>
            (InBlock("admin") /\ nonce["admin"] < finalized)'
      BY <1>1, <1>t, InBlockStays DEF AdminInv
    <2>2. HadQuota => HadQuota'
      <3>. SUFFICES ASSUME HadQuota PROVE HadQuota'
        OBVIOUS
      <3>1. PICK n \in nonce["admin"] + 1 .. Len(chain) :
              AllowanceAt(Target, n) = "quota"
        OBVIOUS
      <3>2. n \in 0 .. Len(chain) /\ n \in nonce'["admin"] + 1 .. Len(chain')
        BY <1>1, <1>t, Grows DEF TypeOK, Process
      <3>3. AllowanceAt(Target, n)' = "quota"
        BY <1>t, <3>1, <3>2, AllowanceStays
      <3>. QED  BY <3>2, <3>3
    <2>. QED  BY <1>1, <1>t, <2>1, <2>2 DEF AdminInv, SetQuotaTrue
  <1>2. CASE pc'["admin"] \notin {"verify", "success"}
    BY <1>2 DEF AdminInv, SetQuotaTrue
  <1>3. CASE QuotaSet
    <2>1. InBlock("admin") /\ nonce["admin"] < finalized
      BY <1>3 DEF QuotaSet, Ok
    <2>2. nonce'["admin"] = nonce["admin"] /\ pc'["admin"] = "verify"
      BY <1>3, <1>t DEF QuotaSet, Goto, TypeOK, Process
    <2>. QED  BY <1>t, <2>1, <2>2, InBlockStays DEF AdminInv, SetQuotaTrue
  <1>4. CASE ReadBack
    <2>1. InBlock("admin") /\ nonce["admin"] < finalized
      BY <1>4, <1>t DEF ReadBack, AdminInv
    <2>2. UNCHANGED <<nonce, chain, options, initial>>
      BY <1>4 DEF ReadBack, Frame
    <2>3. (InBlock("admin") /\ nonce["admin"] < finalized)'
      BY <1>t, <2>1, <2>2, InBlockStays
    <2>4. CASE ShowQuota = "quota"
      <3>1. Len(chain) \in nonce["admin"] + 1 .. Len(chain)
        BY <1>t, <2>1 DEF InBlock, TypeOK, Process
      <3>2. HadQuota
        BY <2>4, <3>1 DEF ShowQuota
      <3>3. HadQuota'
        <4>1. PICK n \in nonce["admin"] + 1 .. Len(chain) :
                AllowanceAt(Target, n) = "quota"
          BY <3>2
        <4>2. n \in 0 .. Len(chain)
          BY <1>t DEF TypeOK, Process
        <4>3. AllowanceAt(Target, n)' = "quota"
          BY <1>t, <4>1, <4>2, AllowanceStays
        <4>. QED  BY <2>2, <4>3
      <3>. QED  BY <2>3, <3>3 DEF AdminInv, SetQuotaTrue
    <2>5. CASE ShowQuota # "quota"
      <3>1. pc'["admin"] = "failure"
        BY <1>4, <1>t, <2>5 DEF ReadBack, Goto, TypeOK, Process
      <3>. QED  BY <3>1 DEF AdminInv, SetQuotaTrue
    <2>. QED  BY <2>4, <2>5
  <1>5. ASSUME ~(QuotaSet \/ ReadBack)
        PROVE  \/ UNCHANGED <<pc["admin"], nonce["admin"]>>
               \/ pc'["admin"] \notin {"verify", "success"}
    <2>1. CASE StartAdmin \/ GetNonce("admin") \/ Submit("admin")
               \/ SubmitFails("admin") \/ Disconnected("admin")
      BY <2>1, <1>t DEF StartAdmin, GetNonce, Submit, SubmitFails, Disconnected, Goto,
         TypeOK, Process
    <2>2. CASE Chain \/ Drop \/ UNCHANGED vars
      BY <2>2 DEF Chain, Include, Finalize, Drop, NodeFrame, vars, processVars
    <2>3. CASE Setup \/ Rerun \/ Disconnected("setup")
      BY <2>3, <1>t DEF Setup, StartSetup, GetNonce, Submit, SubmitFails, NextBatch,
         Verify, Rerun, Disconnected, Goto, TypeOK, Process
    <2>. QED  BY <1>5, <2>1, <2>2, <2>3 DEF Next, Admin, Process
  <1>. QED  BY <1>1, <1>2, <1>3, <1>4, <1>5

LEMMA Invariance == Spec => []IndInv
  <1>1. IndInv /\ [Next]_vars => IndInv'
    BY TypeStep, OrderStep, SetupStep, AdminStep DEF IndInv
  <1>. QED  BY IndInit, <1>1, PTL DEF Spec

-----------------------------------------------------------------------------
(* The theorems. *)

\* The types, and: the chain's transactions have the nonces 0, 1, 2, ...; the
\* pool never holds one whose nonce has been used.
THEOREM TypeCorrect == Spec => []TypeOK
  <1>1. IndInv => TypeOK
    BY DEF IndInv
  <1>. QED  BY Invariance, <1>1, PTL

\* No run of setup-allowances ever has a batch in the pool or in a block with one
\* of the batches before it not finalized, or failed: for any number of batches,
\* reruns and transactions of set-quota between them.
THEOREM BatchesAreInOrder == Spec => []BatchesInOrder
  <1>1. IndInv => BatchesInOrder
    BY DEF IndInv
  <1>. QED  BY Invariance, <1>1, PTL

\* A run of setup-allowances that reports success has had every account in a
\* finalized transaction of its own (with any chunk sizes, ItemsCovered), and
\* every account has an allowance.
THEOREM SetupIsTrue == Spec => []SetupTrue
  <1>1. IndInv => SetupTrue
    <2>. SUFFICES ASSUME IndInv, pc["setup"] = "success",
                         NEW i \in 0 .. options.numClients - 1
                  PROVE  /\ \E b \in 0 .. batch - 1 :
                               i \in BatchAccounts(b) /\ Done(run, b)
                         /\ AllowanceAt(i, finalized) # "none"
      BY DEF SetupTrue
    <2>1. /\ options.numClients \in Nat
          /\ options.batchSize \in Nat \ {0} /\ options.maxCalls \in Nat \ {0}
      BY SizesAssumption DEF IndInv, TypeOK, SetupInv, SetupArgs
    <2>2. batch = Batches /\ AllowanceAt(i, finalized) # "none"
      BY DEF IndInv, SetupInv
    <2>3. i \div (options.batchSize * options.maxCalls) \in 0 .. Batches - 1
      BY <2>1, ItemsCovered DEF Batches, StorageCalls
    <2>4. i \in BatchAccounts(i \div (options.batchSize * options.maxCalls))
      BY DEF BatchAccounts
    <2>5. Done(run, i \div (options.batchSize * options.maxCalls))
      BY <2>2, <2>3 DEF IndInv, SetupInv
    <2>. QED  BY <2>2, <2>3, <2>4, <2>5
  <1>. QED  BY Invariance, <1>1, PTL

\* admin set-quota reports success only if its transaction is finalized and the
\* account has had the quota asked for at some point of the chain since.
THEOREM SetQuotaIsTrue == Spec => []SetQuotaTrue
  <1>1. IndInv => SetQuotaTrue
    BY DEF IndInv, AdminInv
  <1>. QED  BY Invariance, <1>1, PTL
=============================================================================
