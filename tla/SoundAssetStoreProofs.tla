------------------------ MODULE SoundAssetStoreProofs ------------------------
(***************************************************************************)
(* Proofs about SoundAssetStore, for any set of bundles and any number of  *)
(* blocks, generations, leases and mishaps.                                *)
(***************************************************************************)
EXTENDS SoundAssetStore, TLAPS

-----------------------------------------------------------------------------
(* The inductive invariant.                                                *)

PlainStep == {"eraseCommit", "eraseRest", "writeHeader", "eraseBank",
              "eraseHeader", "writeBody", "writeMarker"}
PartStep == {"erasePart", "writePart"}

\* The steps before there is a transaction in RAM, and the ones of one.
OpeningStep == {"eraseCommit", "eraseRest", "writeHeader", "eraseBank"}

PlainOp == [step : PlainStep, bank : Bank, plan : Plan]
PartOp == [step : PartStep, bank : Bank, plan : Plan, part : Part]

\* The operation under way has its type, and is one of the transaction in RAM
\* or opens one.
OpOK ==
  /\ op \in {Idle} \cup PlainOp \cup PartOp
  /\ op.step \in OpeningStep => update = None /\ scanned
  /\ op # Idle /\ op.step \notin OpeningStep =>
       update # None /\ op.bank = update.bank /\ op.plan = update.plan

\* There is something in this commit record.
Written(k) == k.commit \notin {Erased, Torn}

\* The payload is all there, and its manifest validates.
Whole(k, p) ==
  /\ \A i \in Part \ {0} : k.part[i] = p.bundle
  /\ p.bundle \notin Malformed

\* A commit record is written for the staged plan when the payload is whole, and
\* the sweep of a bank takes the header and the manifest first.
SoundBank(k) ==
  Written(k) =>
    /\ Whole(k, k.commit.plan) \/ (k.part[0] \notin Bundle /\ k.header \in {Erased, Torn})
    /\ k.header \notin {Erased, Torn} => k.commit.plan = k.header

BanksSound == \A b \in Bank : SoundBank(flash[b])

\* Two bundles in the banks are of consecutive generations.
Consecutive(s) ==
  \A a, b \in Bank : a # b /\ s[a] # None /\ s[b] # None =>
    Gen(s[a]) = Gen(s[b]) + 1 \/ Gen(s[b]) = Gen(s[a]) + 1

Successive == Consecutive(Strict)

\* The transaction in RAM: no other plan is staged in its bank, and once its commit
\* record is begun only the manifest can be written again.
Staged ==
  update # None =>
    /\ flash[update.bank].header \in {update.plan, Erased, Torn}
    /\ Written(flash[update.bank]) =>
         /\ flash[update.bank].commit.plan = update.plan
         /\ Whole(flash[update.bank], update.plan)
         /\ Part \ {0} \subseteq update.done

\* What the step under way may rely on.
StepReady ==
  /\ op.step \in {"eraseRest", "writeHeader"} => flash[op.bank].commit = Erased
  /\ op.step = "eraseHeader" => Committed(flash[op.bank]) = None
  /\ op.step \in PartStep /\ Written(flash[op.bank]) => op.part = 0
  /\ op.step \in {"writeBody", "writeMarker"} =>
       /\ Whole(flash[op.bank], op.plan)
       /\ flash[op.bank].part[0] = op.plan.bundle
       /\ Part \ {0} \subseteq update.done

\* An update is under way, in this bank, with this plan.
Busy == op # Idle \/ update # None
BusyBank == IF update # None THEN update.bank ELSE op.bank
BusyPlan == IF update # None THEN update.plan ELSE op.plan
Rest == Committed(flash[Other(BusyBank)])

\* The bank that is not written holds what the update replaces.
Targeted ==
  Busy => IF Rest = None THEN BusyPlan.base = 0
          ELSE BusyPlan.base = Gen(Rest) /\ BusyPlan.baseBundle = Rest.bundle

\* The plan p is t, or later.
Reaches(p, t) ==
  t # None => /\ p # None
              /\ Gen(p) >= Gen(t)
              /\ Gen(p) = Gen(t) => p = t

PlanOf(r) == IF r = None THEN None ELSE r.plan

Active == Select(Strict)
ActivePlan == PlanOf(Active)

\* What was told is in the bank that is not written, or simply active.
ToldKept == Reaches(IF Busy THEN Rest ELSE ActivePlan, told)

\* A lease is of a whole bundle, outside the bank that is written.
LeasesKept ==
  \A l \in 1..MaxLeases : leases[l] # None =>
    /\ Committed(flash[leases[l].bank]) = leases[l].plan
    /\ Busy => leases[l].bank # BusyBank

\* So is what reads are served from; when nothing is under way it is the active one.
ReadKept ==
  IsActive(read) =>
    /\ Committed(flash[read.bank]) = read.plan
    /\ IF Busy THEN read.bank # BusyBank ELSE read = Active

\* The snapshot of the banks misses nothing outside the bank that is written,
\* where a transaction knows of nothing.
SelectionKept ==
  scanned =>
    /\ \A b \in Bank : (Busy => b # BusyBank) => sel[b] = Committed(flash[b])
    /\ Busy => sel[BusyBank] \in {None, Committed(flash[BusyBank])}
    /\ update # None => sel[BusyBank] = None
    /\ op.step \in {"eraseRest", "writeHeader"} => sel[BusyBank] = None

StoreInv ==
  /\ TypeOK /\ OpOK /\ BanksSound /\ Successive /\ Staged /\ StepReady
  /\ Targeted /\ ToldKept /\ LeasesKept /\ ReadKept /\ SelectionKept

-----------------------------------------------------------------------------
(* Banks, and what they say.                                               *)

BankState == [header : Plan \cup {Erased, Torn},
              part : [Part -> Bundle \cup {Erased, Torn}],
              commit : Record \cup {Erased, Torn}]

Plans == [Bank -> Plan \cup {None}]

LEMMA BankFacts ==
  \A b \in Bank : /\ Other(b) \in Bank /\ Other(b) # b /\ Other(Other(b)) = b
                  /\ \A c \in Bank : c # b <=> c = Other(b)
  BY DEF Bank, Other

LEMMA PlanFacts ==
  ASSUME NEW p \in Plan
  PROVE  p.base \in Nat /\ Gen(p) \in Nat /\ p.bundle \in Bundle /\ p # None
  BY SoundStoreAssumption, SoundStoreSentinels DEF Plan, Gen

\* What decode_commit, validate_sound_bank_read_candidate and validate_sound_bank
\* conclude from a bank.
LEMMA CommittedIs ==
  ASSUME NEW k \in BankState
  PROVE  /\ 0 \in Part
         /\ Committed(k) \in Plan \cup {None}
         /\ Decoded(k) \in Plan \cup {None}
         /\ Decoded(k) # None <=> Written(k) /\ k.commit.stage = Complete
         /\ Decoded(k) # None => Decoded(k) = k.commit.plan
         /\ Committed(k) # None <=> /\ Decoded(k) # None
                                   /\ Whole(k, Decoded(k))
                                   /\ k.part[0] = Decoded(k).bundle
         /\ Committed(k) # None => Committed(k) = Decoded(k)
  <1>1. 0 \in Part
    BY SoundStoreAssumption DEF Part
  <1>2. Written(k) => k.commit \in Record /\ k.commit.plan \in Plan /\ k.commit.plan # None
    BY PlanFacts DEF BankState, Written, Record
  <1>3. /\ Decoded(k) \in Plan \cup {None}
        /\ Decoded(k) # None <=> Written(k) /\ k.commit.stage = Complete
        /\ Decoded(k) # None => Decoded(k) = k.commit.plan
    BY <1>2 DEF Decoded, Written
  <1>4. Committed(k) # None <=> /\ Decoded(k) # None
                               /\ Whole(k, Decoded(k))
                               /\ k.part[0] = Decoded(k).bundle
    BY <1>1 DEF Committed, Authentic, Whole
  <1>5. Committed(k) # None => Committed(k) = Decoded(k)
    BY DEF Committed
  <1> QED BY <1>1, <1>3, <1>4, <1>5

\* In a sound bank the manifest vouches for the payload, which is what the quick
\* scan relies on.
LEMMA AuthenticIsCommitted ==
  ASSUME NEW k \in BankState, SoundBank(k)
  PROVE  /\ Authentic(k) => Committed(k) = Decoded(k) /\ Committed(k) # None
         /\ Committed(k) # None => Authentic(k)
  <1>1. ASSUME Authentic(k)
        PROVE  Committed(k) = Decoded(k) /\ Committed(k) # None
    <2>1. Decoded(k) # None /\ k.part[0] = Decoded(k).bundle /\ Decoded(k) \in Plan
      BY <1>1, CommittedIs DEF Authentic
    <2>2. Written(k) /\ Decoded(k) = k.commit.plan /\ k.part[0] \in Bundle
      BY <2>1, CommittedIs, PlanFacts
    <2>3. Whole(k, Decoded(k))
      BY <2>2 DEF SoundBank
    <2> QED BY <2>1, <2>3, CommittedIs
  <1>2. Committed(k) # None => Authentic(k)
    BY CommittedIs DEF Authentic
  <1> QED BY <1>1, <1>2

\* select_sound_banks picks the later of two consecutive generations.
LEMMA SelectIs ==
  ASSUME NEW s \in Plans, Consecutive(s)
  PROVE  /\ Select(s) # Split
         /\ Select(s) \in Chosen \cup {None}
         /\ Select(s) = None <=> \A b \in Bank : s[b] = None
         /\ Select(s) # None => s[Select(s).bank] = Select(s).plan
         /\ \A b \in Bank : s[b] # None =>
              /\ Select(s) # None
              /\ b # Select(s).bank => Gen(Select(s).plan) = Gen(s[b]) + 1
  <1>1. {"A", "B"} \subseteq Bank /\ s["A"] \in Plan \cup {None} /\ s["B"] \in Plan \cup {None}
    BY DEF Plans, Bank
  <1>2. \A b \in Bank, q \in Plan : /\ At(b, q) \in Chosen /\ At(b, q).bank = b
                                    /\ At(b, q).plan = q /\ At(b, q) # None /\ At(b, q) # Split
    BY SoundStoreSentinels DEF At, Chosen
  <1>3. \A b \in Bank : b = "A" \/ b = "B"
    BY DEF Bank
  <1>4. CASE s["A"] = None \/ s["B"] = None
    <2>1. None # Split
      BY SoundStoreSentinels
    <2> QED BY <1>1, <1>2, <1>3, <1>4, <2>1 DEF Select
  <1>5. CASE s["A"] # None /\ s["B"] # None
    <2>1. /\ Gen(s["A"]) = Gen(s["B"]) + 1 \/ Gen(s["B"]) = Gen(s["A"]) + 1
          /\ Gen(s["A"]) \in Nat /\ Gen(s["B"]) \in Nat
      BY <1>1, <1>5, PlanFacts DEF Consecutive
    <2>2. /\ Gen(s["A"]) = Gen(s["B"]) + 1 => Select(s) = At("A", s["A"])
          /\ Gen(s["B"]) = Gen(s["A"]) + 1 => Select(s) = At("B", s["B"])
      BY <1>5, <2>1 DEF Select
    <2> QED BY <1>1, <1>2, <1>3, <1>5, <2>1, <2>2
  <1> QED BY <1>4, <1>5

\* A bank that holds nothing, or the later bundle, decides the selection.
LEMMA SelectDecided ==
  ASSUME NEW s \in Plans, Consecutive(s), NEW b \in Bank
  PROVE  /\ s[b] = None /\ s[Other(b)] # None => Select(s) = At(Other(b), s[Other(b)])
         /\ s[b] # None /\ (s[Other(b)] # None => Gen(s[b]) = Gen(s[Other(b)]) + 1)
              => Select(s) = At(b, s[b])
  <1>1. \A c \in Chosen : c.bank \in Bank /\ c = At(c.bank, c.plan)
    BY DEF Chosen, At
  <1>2. Other(b) \in Bank /\ Other(b) # b /\ \A c \in Bank : c # b <=> c = Other(b)
    BY BankFacts
  <1>3. ASSUME s[b] = None, s[Other(b)] # None
        PROVE  Select(s) = At(Other(b), s[Other(b)])
    <2>1. Select(s) \in Chosen /\ s[Select(s).bank] = Select(s).plan
      BY <1>2, <1>3, SelectIs
    <2>2. Select(s).plan \in Plan /\ Select(s).plan # None
      BY <2>1, PlanFacts DEF Chosen
    <2> QED BY <1>1, <1>2, <1>3, <2>1, <2>2
  <1>4. ASSUME s[b] # None, s[Other(b)] # None => Gen(s[b]) = Gen(s[Other(b)]) + 1
        PROVE  Select(s) = At(b, s[b])
    <2>1. Select(s) \in Chosen /\ s[Select(s).bank] = Select(s).plan
      BY <1>4, SelectIs
    <2>2. Select(s).plan \in Plan /\ Select(s).plan # None
      BY <2>1, PlanFacts DEF Chosen
    <2>3. s[b] \in Plan /\ Gen(s[b]) \in Nat
      BY <1>4, PlanFacts DEF Plans
    <2>4. Select(s).bank = b
      <3> SUFFICES ASSUME Select(s).bank # b PROVE FALSE
        OBVIOUS
      <3>1. Select(s).bank = Other(b) /\ s[Other(b)] # None
        BY <1>1, <1>2, <2>1, <2>2
      <3>2. Gen(s[Other(b)]) = Gen(s[b]) + 1
        BY <1>4, <2>1, <3>1, SelectIs
      <3>3. Gen(s[b]) = Gen(s[Other(b)]) + 1
        BY <1>4, <3>1
      <3> QED BY <2>3, <3>2, <3>3
    <2> QED BY <1>1, <2>1, <2>4
  <1> QED BY <1>3, <1>4

\* What one bank's bundle reaches the selected one does.
LEMMA SelectReaches ==
  ASSUME NEW s \in Plans, Consecutive(s), NEW t \in Plan \cup {None},
         NEW b \in Bank, Reaches(s[b], t)
  PROVE  Reaches(PlanOf(Select(s)), t)
  <1> SUFFICES ASSUME t # None PROVE Reaches(PlanOf(Select(s)), t)
    BY DEF Reaches
  <1>1. s[b] \in Plan /\ Gen(s[b]) >= Gen(t) /\ (Gen(s[b]) = Gen(t) => s[b] = t)
    BY DEF Reaches, Plans
  <1>2. /\ Select(s) \in Chosen /\ Select(s) # None
        /\ s[Select(s).bank] = Select(s).plan
        /\ b # Select(s).bank => Gen(Select(s).plan) = Gen(s[b]) + 1
    BY <1>1, SelectIs, PlanFacts
  <1>3. Select(s).plan \in Plan
    BY <1>2 DEF Chosen
  <1>4. /\ Gen(s[b]) \in Nat /\ Gen(t) \in Nat /\ Gen(Select(s).plan) \in Nat
        /\ Select(s).plan # None
    BY <1>1, <1>3, PlanFacts
  <1>5. PlanOf(Select(s)) = Select(s).plan
    BY <1>2 DEF PlanOf
  <1>6. CASE b = Select(s).bank
    BY <1>1, <1>2, <1>4, <1>5, <1>6 DEF Reaches
  <1>7. CASE b # Select(s).bank
    <2>1. Gen(Select(s).plan) > Gen(t)
      BY <1>1, <1>2, <1>4, <1>7
    <2> QED BY <1>4, <1>5, <2>1 DEF Reaches
  <1> QED BY <1>6, <1>7

-----------------------------------------------------------------------------
(* What the invariant says of a state.                                     *)

LEMMA TypedBanks ==
  ASSUME TypeOK
  PROVE  /\ \A b \in Bank : flash[b] \in BankState
         /\ Strict \in Plans
         /\ \A b \in Bank : Strict[b] = Committed(flash[b])
  <1>1. \A b \in Bank : flash[b] \in BankState
    BY DEF TypeOK, BankState
  <1>2. \A b \in Bank : Committed(flash[b]) \in Plan \cup {None}
    BY <1>1, CommittedIs
  <1> QED BY <1>1, <1>2 DEF Strict, Plans

\* The same of the next state.
LEMMA TypedBanksNext ==
  ASSUME TypeOK'
  PROVE  /\ \A b \in Bank : flash'[b] \in BankState
         /\ Strict' \in Plans
         /\ \A b \in Bank : Strict'[b] = Committed(flash'[b])
  <1>1. \A b \in Bank : flash'[b] \in BankState
    BY DEF TypeOK, BankState
  <1>2. \A b \in Bank : Committed(flash'[b]) \in Plan \cup {None}
    BY <1>1, CommittedIs
  <1> QED BY <1>1, <1>2 DEF Strict, Plans

LEMMA OpFacts ==
  ASSUME OpOK
  PROVE  /\ op = Idle <=> op.step = "idle"
         /\ op # Idle => /\ op.bank \in Bank /\ op.plan \in Plan
                         /\ op.step \in PlainStep \cup PartStep
                         /\ op.step \in PartStep => op \in PartOp /\ op.part \in Part
                         /\ op.step \notin PartStep => op \in PlainOp
  BY DEF OpOK, Idle, PlainOp, PartOp, PlainStep, PartStep

\* The bank and the plan of what is under way.
LEMMA BusyFacts ==
  ASSUME TypeOK, OpOK
  PROVE  /\ Busy => BusyBank \in Bank /\ BusyPlan \in Plan /\ Other(BusyBank) \in Bank
         /\ op # Idle => BusyBank = op.bank /\ BusyPlan = op.plan
         /\ update # None => /\ BusyBank = update.bank /\ BusyPlan = update.plan
                             /\ update.bank \in Bank /\ update.plan \in Plan
                             /\ update.done \in SUBSET Part
         /\ update # None /\ op # Idle => op.step \notin OpeningStep
  <1>1. update # None => /\ update.bank \in Bank /\ update.plan \in Plan
                         /\ update.done \in SUBSET Part
    BY DEF TypeOK
  <1>2. op # Idle => /\ BusyBank = op.bank /\ BusyPlan = op.plan
                     /\ update # None => op.step \notin OpeningStep
    BY DEF OpOK, BusyBank, BusyPlan
  <1>3. Busy => BusyBank \in Bank /\ BusyPlan \in Plan
    BY <1>1, <1>2, OpFacts DEF Busy, BusyBank, BusyPlan
  <1> QED BY <1>1, <1>2, <1>3, BankFacts DEF BusyBank, BusyPlan

\* The active bundle is that of a bank, and at least as late as the other one's.
LEMMA ActiveFacts ==
  ASSUME TypeOK, Successive
  PROVE  /\ Active # Split /\ Active \in Chosen \cup {None}
         /\ Active # None => /\ Active.bank \in Bank /\ Active.plan \in Plan
                             /\ Committed(flash[Active.bank]) = Active.plan
                             /\ IsActive(Active)
         /\ Active = None => \A b \in Bank : Committed(flash[b]) = None
         /\ ActivePlan \in Plan \cup {None}
  <1>1. Strict \in Plans /\ \A b \in Bank : Strict[b] = Committed(flash[b])
    BY TypedBanks
  <1>2. /\ Active # Split /\ Active \in Chosen \cup {None}
        /\ Active = None <=> \A b \in Bank : Strict[b] = None
        /\ Active # None => Strict[Active.bank] = Active.plan
    BY <1>1, SelectIs DEF Active, Successive
  <1>3. Active # None => Active.bank \in Bank /\ Active.plan \in Plan /\ IsActive(Active)
    BY <1>2, SoundStoreSentinels DEF Chosen, IsActive
  <1> QED BY <1>1, <1>2, <1>3 DEF ActivePlan, PlanOf

\* Between two operations the snapshot an operation works from is the truth.
LEMMA KnownIs ==
  ASSUME StoreInv, op = Idle, update = None
  PROVE  Known = Strict /\ ~Busy /\ Select(Known) = Active
  <1>1. ~Busy
    BY DEF Busy
  <1>2. Strict \in Plans /\ \A b \in Bank : Strict[b] = Committed(flash[b])
    BY TypedBanks DEF StoreInv
  <1>3. scanned => sel = Strict
    <2>1. scanned => \A b \in Bank : sel[b] = Committed(flash[b])
      BY <1>1 DEF StoreInv, SelectionKept
    <2>2. sel \in [Bank -> Plan \cup {None}]
      BY DEF StoreInv, TypeOK
    <2> QED BY <1>2, <2>1, <2>2 DEF Plans
  <1>4. Known = Strict
    BY <1>3 DEF Known
  <1> QED BY <1>1, <1>4 DEF Active

\* What a scan lets reads be served from.
LEMMA ReadableIs ==
  ASSUME StoreInv
  PROVE  /\ Readable(Strict) \in Chosen \cup {None, Blank}
         /\ IsActive(Readable(Strict)) => Readable(Strict) = Active
  <1>1. Active \in Chosen \cup {None}
    BY ActiveFacts DEF StoreInv
  <1>2. Readable(Strict) = Blank \/ Readable(Strict) = Active
    BY DEF Readable, Active
  <1> QED BY <1>1, <1>2 DEF IsActive

\* scan_committed_content looks at one manifest only, and finds the same bundle.
LEMMA QuickReadIs ==
  ASSUME StoreInv
  PROVE  /\ QuickRead \in Chosen \cup {None, Split, Blank}
         /\ IsActive(QuickRead) => QuickRead = Active
  <1> DEFINE decoded == [b \in Bank |-> Decoded(flash[b])]
             authentic == [b \in Bank |-> IF Authentic(flash[b]) THEN decoded[b] ELSE None]
             preferred == Select(decoded)
  <1>1. TypeOK /\ Successive /\ BanksSound
    BY DEF StoreInv
  <1>2. /\ Strict \in Plans /\ Consecutive(Strict)
        /\ \A b \in Bank : Strict[b] = Committed(flash[b]) /\ flash[b] \in BankState
    BY <1>1, TypedBanks DEF Successive
  <1>3. authentic = Strict
    <2>1. ASSUME NEW b \in Bank PROVE authentic[b] = Strict[b]
      <3>1. SoundBank(flash[b])
        BY <1>1 DEF BanksSound
      <3> QED BY <1>2, <3>1, AuthenticIsCommitted
    <2>2. DOMAIN Strict = Bank /\ DOMAIN authentic = Bank
      BY <1>2 DEF Plans
    <2> HIDE DEF authentic
    <2> QED BY <1>2, <2>1, <2>2 DEF Strict, authentic
  <1>4. decoded \in Plans /\ \A b \in Bank : Strict[b] # None => decoded[b] = Strict[b]
    BY <1>2, CommittedIs DEF Plans
  <1>5. QuickRead \in {Blank, preferred, Select(Strict)}
        /\ (QuickRead = preferred /\ QuickRead \notin {Blank, Select(Strict)} =>
              IsActive(preferred) /\ Strict[preferred.bank] # None)
    BY <1>3 DEF QuickRead
  <1> HIDE DEF decoded, authentic, preferred
  <1>6. Select(Strict) \in Chosen \cup {None}
    BY <1>2, SelectIs
  <1>7. ASSUME IsActive(preferred)
        PROVE  /\ preferred \in Chosen /\ decoded[preferred.bank] = preferred.plan
               /\ preferred.bank \in Bank
    <2>1. /\ "A" \in Bank /\ "B" \in Bank
          /\ decoded["A"] \in Plan \cup {None} /\ decoded["B"] \in Plan \cup {None}
      BY <1>4 DEF Plans, Bank
    <2>2. \A b \in Bank, q \in Plan : At(b, q) \in Chosen /\ At(b, q).bank = b
                                      /\ At(b, q).plan = q
      BY DEF At, Chosen
    <2>3. \/ decoded["A"] # None /\ preferred = At("A", decoded["A"])
          \/ decoded["B"] # None /\ preferred = At("B", decoded["B"])
      BY <1>7 DEF preferred, Select, IsActive
    <2> QED BY <2>1, <2>2, <2>3
  <1>8. ASSUME IsActive(preferred), Strict[preferred.bank] # None
        PROVE  preferred = Active
    <2> DEFINE b == preferred.bank
    <2>1. b \in Bank /\ preferred = At(b, Strict[b]) /\ Other(b) \in Bank
      BY <1>4, <1>7, <1>8, BankFacts DEF Chosen, At
    <2>2. CASE Strict[Other(b)] = None
      BY <1>2, <1>8, <2>1, <2>2, SelectDecided DEF Active
    <2>3. CASE Strict[Other(b)] # None
      <3>1. \A c \in Bank : decoded[c] = Strict[c]
        BY <1>4, <1>8, <2>1, <2>3, BankFacts
      <3>2. decoded = Strict
        BY <1>2, <1>4, <3>1 DEF Plans
      <3> QED BY <3>2 DEF preferred, Active
    <2> QED BY <2>2, <2>3
  <1>9. IsActive(QuickRead) => QuickRead = Active
    BY <1>5, <1>8 DEF Active, IsActive
  <1>10. QuickRead \in Chosen \cup {None, Split, Blank}
    BY <1>5, <1>6, <1>7 DEF IsActive
  <1> QED BY <1>9, <1>10

-----------------------------------------------------------------------------
(* Initially, and calls that leave the flash alone.                        *)

LEMMA InitHolds == Init => StoreInv
  <1> SUFFICES ASSUME Init PROVE StoreInv
    OBVIOUS
  <1>1. /\ update = None /\ op = Idle /\ told = None /\ scanned = FALSE /\ read = Unscanned
        /\ \A b \in Bank : flash[b] = BlankBank
        /\ leases = [l \in 1..MaxLeases |-> None]
    BY DEF Init, NoLeases
  <1>2. BlankBank \in BankState /\ ~Written(BlankBank)
    BY DEF BlankBank, BankState, Written
  <1>3. Committed(BlankBank) = None
    BY <1>2, CommittedIs
  <1>4. TypeOK
    <2>1. flash \in [Bank -> BankState]
      BY <1>2 DEF Init
    <2>2. mishaps \in 0..MaxMishaps
      BY SoundStoreAssumption DEF Init
    <2>3. sel \in [Bank -> Plan \cup {None}]
      BY DEF Init, NoBanks
    <2>4. /\ scanned \in BOOLEAN /\ read \in Chosen \cup {None, Split, Blank, Unscanned}
          /\ update \in [bank : Bank, plan : Plan, done : SUBSET Part] \cup {None}
          /\ told \in Plan \cup {None} /\ leases \in [1..MaxLeases -> Chosen \cup {None}]
      BY <1>1
    <2> QED BY <2>1, <2>2, <2>3, <2>4 DEF TypeOK, BankState
  <1>5. op.step = "idle" /\ ~Busy
    BY <1>1 DEF Idle, Busy
  <1>6. OpOK /\ StepReady
    BY <1>1, <1>5 DEF OpOK, StepReady, OpeningStep, PartStep
  <1>7. BanksSound
    BY <1>1, <1>2 DEF BanksSound, SoundBank
  <1>8. Successive
    BY <1>1, <1>3 DEF Successive, Consecutive, Strict
  <1> QED
    BY <1>1, <1>4, <1>5, <1>6, <1>7, <1>8 DEF StoreInv, Staged, Targeted, ToldKept, Reaches,
       LeasesKept, ReadKept, IsActive, SelectionKept

\* With the flash at rest, what the banks say is at rest.
LEMMA FlashRests ==
  ASSUME StoreInv, flash' = flash
  PROVE  /\ BanksSound' /\ Successive' /\ Strict' = Strict /\ Active' = Active
         /\ ActivePlan' = ActivePlan
  BY DEF StoreInv, BanksSound, Successive, Strict, Active, ActivePlan, PlanOf

\* Nothing is under way before and after: selection and leases may change.
LEMMA IdleKeeps ==
  ASSUME StoreInv, UNCHANGED <<flash, op>>, mishaps' \in 0..MaxMishaps,
         op = Idle, update = None, update' = None,
         told' \in {told} \cup (IF Active = None THEN {} ELSE {Active.plan}),
         scanned' \in BOOLEAN, sel' \in Plans, scanned' => sel' = Strict,
         read' \in Chosen \cup {None, Split, Blank, Unscanned},
         IsActive(read') => read' = Active,
         leases' \in [1..MaxLeases -> Chosen \cup {None}],
         \A l \in 1..MaxLeases : leases'[l] # None => leases'[l] \in {leases[l], Active}
  PROVE  StoreInv'
  <1>1. TypeOK /\ Successive /\ OpOK
    BY DEF StoreInv
  <1>2. ~Busy /\ ~Busy'
    BY DEF Busy
  <1>3. /\ Active \in Chosen \cup {None}
        /\ Active # None => Committed(flash[Active.bank]) = Active.plan /\ Active.plan \in Plan
    BY <1>1, ActiveFacts
  <1>4. TypeOK'
    BY <1>1, <1>3 DEF TypeOK, Plans
  <1>5. op'.step = "idle" /\ op' = Idle
    BY DEF Idle
  <1>6. OpOK' /\ StepReady' /\ Staged'
    BY <1>5 DEF OpOK, StepReady, OpeningStep, PartStep, Staged
  <1>7. BanksSound' /\ Successive' /\ Strict' = Strict /\ Active' = Active
        /\ ActivePlan' = ActivePlan
    BY FlashRests
  <1>8. Targeted'
    BY <1>2 DEF Targeted
  <1>9. ToldKept'
    <2>1. Reaches(ActivePlan, told)
      BY <1>2 DEF StoreInv, ToldKept
    <2>2. CASE told' = told
      BY <1>2, <1>7, <2>1, <2>2 DEF ToldKept, Reaches
    <2>3. CASE told' # told
      <3>1. Active # None /\ told' = Active.plan /\ ActivePlan = Active.plan
        BY <2>3 DEF ActivePlan, PlanOf
      <3>2. Gen(Active.plan) \in Nat /\ Active.plan # None
        BY <1>3, <3>1, PlanFacts
      <3> QED BY <1>2, <1>7, <3>1, <3>2 DEF ToldKept, Reaches
    <2> QED BY <2>2, <2>3
  <1>10. LeasesKept'
    BY <1>2, <1>3 DEF StoreInv, LeasesKept
  <1>11. ReadKept'
    BY <1>2, <1>3, <1>7 DEF ReadKept, IsActive
  <1>12. SelectionKept'
    <2>1. \A b \in Bank : Strict[b] = Committed(flash[b])
      BY <1>1, TypedBanks
    <2> QED BY <1>2, <1>5, <2>1 DEF SelectionKept
  <1> QED
    BY <1>4, <1>6, <1>7, <1>8, <1>9, <1>10, <1>11, <1>12 DEF StoreInv

LEMMA ScanKeeps ==
  ASSUME StoreInv, Scan
  PROVE  StoreInv'
  <1>1. op = Idle /\ update = None /\ ~scanned
    BY DEF Scan
  <1>2. Known = Strict
    BY <1>1, KnownIs
  <1>3. /\ UNCHANGED <<flash, update, leases, op, told, mishaps>>
        /\ scanned' = TRUE /\ sel' = Strict /\ read' = Readable(Strict)
    BY <1>1, <1>2 DEF Scan, Learn
  <1>4. /\ Strict \in Plans /\ leases \in [1..MaxLeases -> Chosen \cup {None}]
        /\ mishaps \in 0..MaxMishaps
    BY TypedBanks DEF StoreInv, TypeOK
  <1> QED BY <1>1, <1>3, <1>4, ReadableIs, IdleKeeps

LEMMA ScanFailsIdle ==
  ASSUME StoreInv, update = None, op = Idle, Forget, UNCHANGED <<flash, update, op, told>>,
         mishaps' \in 0..MaxMishaps,
         leases' \in {leases, NoLeases}
  PROVE  StoreInv'
  <1>1. scanned' = FALSE /\ sel' \in Plans /\ read' = Unscanned /\ ~IsActive(read')
    BY DEF Forget, NoBanks, Plans, IsActive
  <1>2. leases' \in [1..MaxLeases -> Chosen \cup {None}]
        /\ \A l \in 1..MaxLeases : leases'[l] # None => leases'[l] \in {leases[l], Active}
    BY DEF StoreInv, TypeOK, NoLeases
  <1> QED BY <1>1, <1>2, IdleKeeps

LEMMA AcquireIdle ==
  ASSUME StoreInv, NEW l \in 1..MaxLeases, Acquire(l), update = None
  PROVE  StoreInv'
  <1> DEFINE r == IF read = Unscanned THEN QuickRead ELSE read
  <1>1. /\ op = Idle /\ read' = r
        /\ leases' = IF IsActive(r) THEN [leases EXCEPT ![l] = r] ELSE leases
        /\ UNCHANGED <<flash, scanned, sel, update, op, told, mishaps>>
    BY DEF Acquire
  <1>2. Known = Strict /\ ~Busy
    BY <1>1, KnownIs
  <1>3. r \in Chosen \cup {None, Split, Blank, Unscanned} /\ (IsActive(r) => r = Active)
    <2>1. read \in Chosen \cup {None, Split, Blank, Unscanned} /\ (IsActive(read) => read = Active)
      BY <1>2 DEF StoreInv, TypeOK, ReadKept
    <2> QED BY <2>1, QuickReadIs
  <1> HIDE DEF r
  <1>4. /\ scanned' \in BOOLEAN /\ sel' \in Plans /\ (scanned' => sel' = Strict)
        /\ mishaps' \in 0..MaxMishaps
        /\ leases \in [1..MaxLeases -> Chosen \cup {None}]
    BY <1>1, <1>2 DEF StoreInv, TypeOK, Plans, Known
  <1>5. IsActive(r) => r \in Chosen
    BY <1>3 DEF IsActive
  <1>6. /\ leases' \in [1..MaxLeases -> Chosen \cup {None}]
        /\ \A m \in 1..MaxLeases : leases'[m] # None => leases'[m] \in {leases[m], Active}
    BY <1>1, <1>3, <1>4, <1>5
  <1> QED BY <1>1, <1>3, <1>4, <1>6, IdleKeeps

LEMMA ReleaseIdle ==
  ASSUME StoreInv, NEW l \in 1..MaxLeases, Release(l), update = None
  PROVE  StoreInv'
  <1>1. /\ op = Idle /\ leases' = [leases EXCEPT ![l] = None]
        /\ UNCHANGED <<flash, scanned, sel, read, update, op, told, mishaps>>
    BY DEF Release, selection
  <1>2. Known = Strict /\ ~Busy
    BY <1>1, KnownIs
  <1>3. /\ scanned' \in BOOLEAN /\ sel' \in Plans /\ (scanned' => sel' = Strict)
        /\ mishaps' \in 0..MaxMishaps
        /\ leases \in [1..MaxLeases -> Chosen \cup {None}]
        /\ read' \in Chosen \cup {None, Split, Blank, Unscanned}
        /\ (IsActive(read') => read' = Active)
    BY <1>1, <1>2 DEF StoreInv, TypeOK, Plans, Known, ReadKept
  <1>4. /\ leases' \in [1..MaxLeases -> Chosen \cup {None}]
        /\ \A m \in 1..MaxLeases : leases'[m] # None => leases'[m] \in {leases[m], Active}
    BY <1>1, <1>3
  <1> QED BY <1>1, <1>3, <1>4, IdleKeeps

-----------------------------------------------------------------------------
(* BEGIN, RESUME and RECOVER.                                              *)

\* An applicable plan goes to the bank that is not active and not leased.
LEMMA Opens ==
  ASSUME StoreInv, NEW p \in Plan, NEW b \in Bank, Applicable(p, b), Learn,
         UNCHANGED <<flash, leases, told>>, Busy', BusyBank' = b, BusyPlan' = p
  PROVE  /\ BanksSound' /\ Successive' /\ Targeted' /\ ToldKept' /\ LeasesKept' /\ ReadKept'
         /\ scanned' = TRUE /\ sel' = Strict /\ sel' \in Plans /\ Known[b] = Committed(flash[b])
         /\ read' \in Chosen \cup {None, Split, Blank, Unscanned}
         /\ op = Idle /\ update = None
  <1>1. /\ op = Idle /\ update = None /\ Known = Strict /\ ~Busy /\ Select(Known) = Active
        /\ Based(p, Active) /\ b = Target(Active) /\ ~Pinned(b)
    BY KnownIs DEF Applicable
  <1>2. TypeOK /\ Successive
    BY DEF StoreInv
  <1>3. /\ Active # None => /\ Active.bank \in Bank /\ Active.plan \in Plan
                            /\ Committed(flash[Active.bank]) = Active.plan
        /\ Active = None => \A c \in Bank : Committed(flash[c]) = None
    BY <1>2, ActiveFacts
  <1>4. /\ BanksSound' /\ Successive' /\ Strict' = Strict /\ Active' = Active
    BY FlashRests
  <1>5. /\ Other(b) \in Bank /\ Other(b) # b
        /\ Active # None => Active.bank = Other(b) /\ Active.bank # b
    BY <1>1, <1>3, BankFacts DEF Target
  <1>6. Rest' = Committed(flash[Other(b)])
    BY DEF Rest
  <1>7. Rest' = ActivePlan
    BY <1>3, <1>5, <1>6 DEF ActivePlan, PlanOf
  <1>8. Targeted'
    <2>1. CASE Active = None
      <3>1. Rest' = None /\ p.base = 0
        BY <1>1, <1>7, <2>1 DEF ActivePlan, PlanOf, Based
      <3> QED BY <3>1 DEF Targeted
    <2>2. CASE Active # None
      <3>1. Rest' = Active.plan /\ p.base = Gen(Active.plan) /\ p.baseBundle = Active.plan.bundle
        BY <1>1, <1>7, <2>2 DEF ActivePlan, PlanOf, Based
      <3>2. Rest' # None
        BY <1>3, <2>2, <3>1, PlanFacts
      <3> QED BY <3>1, <3>2 DEF Targeted
    <2> QED BY <2>1, <2>2
  <1>9. ToldKept'
    BY <1>1, <1>7 DEF StoreInv, ToldKept, Reaches
  <1>10. LeasesKept'
    <2>1. leases \in [1..MaxLeases -> Chosen \cup {None}]
      BY <1>2 DEF TypeOK
    <2>2. \A l \in 1..MaxLeases : leases[l] # None => leases[l].bank # b
      BY <1>1, <2>1 DEF Pinned
    <2> QED BY <2>2 DEF StoreInv, LeasesKept
  <1>11. /\ scanned' = TRUE /\ sel' = Strict
         /\ read' = IF scanned THEN read ELSE Readable(Strict)
    BY <1>1 DEF Learn
  <1>12. /\ read' \in Chosen \cup {None, Split, Blank, Unscanned}
         /\ IsActive(read') => read' = Active
    <2>1. read \in Chosen \cup {None, Split, Blank, Unscanned} /\ (IsActive(read) => read = Active)
      BY <1>1 DEF StoreInv, TypeOK, ReadKept
    <2> QED BY <1>11, <2>1, ReadableIs
  <1>13. ReadKept'
    BY <1>3, <1>5, <1>12 DEF ReadKept, IsActive
  <1> QED
    BY <1>1, <1>2, <1>4, <1>8, <1>9, <1>10, <1>11, <1>12, <1>13, TypedBanks

LEMMA BeginOrDiscardKeeps ==
  ASSUME StoreInv, NEW p \in Plan, NEW b \in Bank, Begin(p, b) \/ Discard(p, b)
  PROVE  StoreInv'
  <1>1. PICK step \in {"eraseCommit", "eraseBank"} : op' = [step |-> step, bank |-> b, plan |-> p]
    BY DEF Begin, Discard, Do
  <1>2. Applicable(p, b) /\ Learn /\ UNCHANGED <<flash, update, leases, told, mishaps>>
    BY DEF Begin, Discard
  <1>3. update' = None /\ op' \in PlainOp /\ op'.step = step /\ op'.bank = b /\ op'.plan = p
        /\ op' # Idle
    BY <1>1, <1>2 DEF Applicable, PlainOp, PlainStep, Idle
  <1>4. Busy' /\ BusyBank' = b /\ BusyPlan' = p
    BY <1>3 DEF Busy, BusyBank, BusyPlan
  <1>5. /\ BanksSound' /\ Successive' /\ Targeted' /\ ToldKept' /\ LeasesKept' /\ ReadKept'
        /\ scanned' = TRUE /\ sel' = Strict /\ sel' \in Plans
        /\ read' \in Chosen \cup {None, Split, Blank, Unscanned}
    BY <1>2, <1>4, Opens
  <1>6. TypeOK'
    BY <1>2, <1>3, <1>5 DEF StoreInv, TypeOK, Plans
  <1>7. OpOK' /\ StepReady' /\ Staged'
    BY <1>3, <1>5 DEF OpOK, StepReady, Staged, OpeningStep, PartStep
  <1>8. SelectionKept'
    <2>1. \A c \in Bank : Strict[c] = Committed(flash[c])
      BY TypedBanks DEF StoreInv
    <2> QED BY <1>2, <1>3, <1>4, <1>5, <2>1 DEF SelectionKept
  <1> QED BY <1>5, <1>6, <1>7, <1>8 DEF StoreInv

LEMMA ResumeKeeps ==
  ASSUME StoreInv, NEW p \in Plan, NEW b \in Bank, Resume(p, b)
  PROVE  StoreInv'
  <1> DEFINE done == {i \in Part : flash[b].part[i] = p.bundle}
  <1>1. /\ Applicable(p, b) /\ Learn /\ UNCHANGED <<flash, leases, op, told, mishaps>>
        /\ Known[b] = None /\ flash[b].header = p
        /\ update' = [bank |-> b, plan |-> p, done |-> done]
    BY DEF Resume, Loaded
  <1>2. /\ update' \in [bank : Bank, plan : Plan, done : SUBSET Part]
        /\ update'.bank = b /\ update'.plan = p /\ update'.done = done
    BY <1>1
  <1>3. update' # None /\ op' = Idle /\ op'.step = "idle"
    BY <1>1, <1>2, SoundStoreSentinels DEF Applicable, Idle
  <1>4. Busy' /\ BusyBank' = b /\ BusyPlan' = p
    BY <1>2, <1>3 DEF Busy, BusyBank, BusyPlan
  <1>5. /\ BanksSound' /\ Successive' /\ Targeted' /\ ToldKept' /\ LeasesKept' /\ ReadKept'
        /\ scanned' = TRUE /\ sel' = Strict /\ sel' \in Plans /\ Known[b] = Committed(flash[b])
        /\ read' \in Chosen \cup {None, Split, Blank, Unscanned}
    BY <1>1, <1>4, Opens
  <1>6. TypeOK'
    BY <1>1, <1>2, <1>5 DEF StoreInv, TypeOK, Plans
  <1>7. OpOK' /\ StepReady'
    BY <1>3 DEF OpOK, StepReady, OpeningStep, PartStep
  <1>8. Staged'
    <2> SUFFICES ASSUME Written(flash[b])
                 PROVE  /\ flash[b].commit.plan = p /\ Whole(flash[b], p)
                        /\ Part \ {0} \subseteq done
      BY <1>1, <1>2 DEF Staged
    <2>1. p \notin {Erased, Torn}
      BY SoundStoreSentinels
    <2>2. flash[b].commit.plan = p /\ Whole(flash[b], p)
      BY <1>1, <2>1 DEF StoreInv, BanksSound, SoundBank
    <2> QED BY <2>2 DEF Whole
  <1>9. SelectionKept'
    <2>1. \A c \in Bank : Strict[c] = Committed(flash[c])
      BY TypedBanks DEF StoreInv
    <2> QED BY <1>1, <1>3, <1>4, <1>5, <2>1 DEF SelectionKept
  <1> QED BY <1>5, <1>6, <1>7, <1>8, <1>9 DEF StoreInv

-----------------------------------------------------------------------------
(* Calls of a transaction in RAM.                                          *)

\* The transaction goes on, in its bank and with its plan.
LEMMA TransactionKeeps ==
  ASSUME StoreInv, update # None, UNCHANGED <<flash, told>>, mishaps' \in 0..MaxMishaps,
         update' \in [bank : Bank, plan : Plan, done : SUBSET Part],
         update'.bank = update.bank, update'.plan = update.plan,
         OpOK', StepReady', Staged', op'.step \notin OpeningStep,
         scanned' \in BOOLEAN, sel' \in Plans,
         scanned' => /\ sel'[Other(update.bank)] = Committed(flash[Other(update.bank)])
                     /\ sel'[update.bank] = None,
         read' \in Chosen \cup {None, Split, Blank, Unscanned},
         IsActive(read') => /\ Committed(flash[read'.bank]) = read'.plan
                            /\ read'.bank # update.bank,
         leases' \in [1..MaxLeases -> Chosen \cup {None}],
         \A l \in 1..MaxLeases : leases'[l] # None =>
           leases'[l] = leases[l] \/ (IsActive(read') /\ leases'[l] = read')
  PROVE  StoreInv'
  <1>1. TypeOK /\ OpOK
    BY DEF StoreInv
  <1>2. update' # None
    BY SoundStoreSentinels
  <1>3. /\ Busy /\ BusyBank = update.bank /\ BusyPlan = update.plan
        /\ Busy' /\ BusyBank' = update.bank /\ BusyPlan' = update.plan
        /\ Rest' = Rest /\ update.bank \in Bank
    BY <1>1, <1>2, BusyFacts DEF Busy, BusyBank, BusyPlan, Rest
  <1>4. TypeOK'
    BY <1>1 DEF TypeOK, Plans
  <1>5. BanksSound' /\ Successive'
    BY FlashRests
  <1>6. Targeted' /\ ToldKept'
    BY <1>3 DEF StoreInv, Targeted, ToldKept, Reaches
  <1>7. LeasesKept'
    BY <1>3 DEF StoreInv, LeasesKept
  <1>8. ReadKept'
    BY <1>3 DEF ReadKept
  <1>9. SelectionKept'
    BY <1>3, BankFacts DEF SelectionKept, OpeningStep
  <1> QED BY <1>4, <1>5, <1>6, <1>7, <1>8, <1>9 DEF StoreInv

\* The calls that only set flags and start a step.
LEMMA FlagsKeep ==
  ASSUME StoreInv, update # None, UNCHANGED <<flash, selection, leases, told>>,
         mishaps' \in 0..MaxMishaps,
         update' \in [bank : Bank, plan : Plan, done : SUBSET Part],
         update'.bank = update.bank, update'.plan = update.plan,
         OpOK', StepReady', Staged', op'.step \notin OpeningStep
  PROVE  StoreInv'
  <1>1. TypeOK /\ OpOK /\ Busy /\ BusyBank = update.bank /\ update.bank \in Bank
    BY BusyFacts DEF StoreInv, Busy
  <1>2. UNCHANGED <<scanned, sel, read>>
    BY DEF selection
  <1>3. /\ scanned' \in BOOLEAN /\ sel' \in Plans
        /\ read' \in Chosen \cup {None, Split, Blank, Unscanned}
        /\ leases' \in [1..MaxLeases -> Chosen \cup {None}]
    BY <1>1, <1>2 DEF TypeOK, Plans
  <1>4. scanned' => /\ sel'[Other(update.bank)] = Committed(flash[Other(update.bank)])
                    /\ sel'[update.bank] = None
    BY <1>1, <1>2, BankFacts DEF StoreInv, SelectionKept
  <1>5. IsActive(read') => /\ Committed(flash[read'.bank]) = read'.plan
                           /\ read'.bank # update.bank
    BY <1>1, <1>2 DEF StoreInv, ReadKept
  <1> QED BY <1>3, <1>4, <1>5, TransactionKeeps

LEMMA WritePartKeeps ==
  ASSUME StoreInv, NEW i \in Part, WritePart(i)
  PROVE  StoreInv'
  <1>1. /\ op = Idle /\ update # None /\ i \notin update.done
        /\ op' = [step |-> "erasePart", bank |-> update.bank, plan |-> update.plan, part |-> i]
        /\ UNCHANGED <<flash, selection, update, leases, told, mishaps>>
    BY DEF WritePart
  <1>2. /\ update \in [bank : Bank, plan : Plan, done : SUBSET Part]
        /\ mishaps' \in 0..MaxMishaps
    BY <1>1 DEF StoreInv, TypeOK
  <1>3. /\ op' \in PartOp /\ op'.step = "erasePart" /\ op'.bank = update.bank
        /\ op'.plan = update.plan /\ op'.part = i /\ op' # Idle
    BY <1>1, <1>2 DEF PartOp, PartStep, Idle
  <1>4. OpOK' /\ op'.step \notin OpeningStep
    BY <1>1, <1>3 DEF OpOK, OpeningStep
  <1>5. Staged'
    BY <1>1 DEF StoreInv, Staged
  <1>6. StepReady'
    BY <1>1, <1>3 DEF StoreInv, Staged, StepReady, PartStep
  <1> QED BY <1>1, <1>2, <1>4, <1>5, <1>6, FlagsKeep

LEMMA CommitKeeps ==
  ASSUME StoreInv, Commit
  PROVE  StoreInv'
  <1>1. /\ op = Idle /\ update # None /\ \A i \in Part : Arrived(i)
        /\ update' = [update EXCEPT !.done = PayloadVerified]
        /\ UNCHANGED <<flash, selection, leases, told, mishaps>>
    BY DEF Commit
  <1>2. /\ update \in [bank : Bank, plan : Plan, done : SUBSET Part]
        /\ mishaps' \in 0..MaxMishaps
    BY <1>1 DEF StoreInv, TypeOK
  <1>3. /\ update' \in [bank : Bank, plan : Plan, done : SUBSET Part]
        /\ update'.bank = update.bank /\ update'.plan = update.plan
        /\ Part \ {0} \subseteq update'.done
    BY <1>1, <1>2 DEF PayloadVerified
  <1>4. update' # None
    BY <1>3, SoundStoreSentinels
  <1>5. Staged'
    BY <1>1, <1>3 DEF StoreInv, Staged
  <1>6. CASE update.plan.bundle \in Malformed
    <2>1. op' = Idle /\ op'.step = "idle"
      BY <1>1, <1>6 DEF Commit, Idle
    <2>2. OpOK' /\ StepReady' /\ op'.step \notin OpeningStep
      BY <2>1 DEF OpOK, StepReady, OpeningStep, PartStep
    <2> QED BY <1>1, <1>2, <1>3, <1>5, <2>2, FlagsKeep
  <1>7. CASE update.plan.bundle \notin Malformed
    <2>1. op' = [step |-> "writeBody", bank |-> update.bank, plan |-> update.plan]
      BY <1>7 DEF Commit, Do
    <2>2. /\ op' \in PlainOp /\ op'.step = "writeBody" /\ op'.bank = update.bank
          /\ op'.plan = update.plan /\ op' # Idle
      BY <1>2, <2>1 DEF PlainOp, PlainStep, Idle
    <2>3. OpOK' /\ op'.step \notin OpeningStep
      BY <1>3, <1>4, <2>2 DEF OpOK, OpeningStep
    <2>4. 0 \in Part
      BY SoundStoreAssumption DEF Part
    <2>5. StepReady'
      BY <1>1, <1>3, <1>7, <2>2, <2>4 DEF StepReady, PartStep, Arrived, Whole
    <2> QED BY <1>1, <1>2, <1>3, <1>5, <2>3, <2>5, FlagsKeep
  <1> QED BY <1>6, <1>7

LEMMA CommitTooEarlyKeeps ==
  ASSUME StoreInv, CommitTooEarly
  PROVE  StoreInv'
  <1>1. /\ op = Idle /\ update # None
        /\ UNCHANGED <<flash, selection, leases, op, told, mishaps>>
    BY DEF CommitTooEarly
  <1>2. PICK i \in Part \ {0} :
          ~Arrived(i) /\ update' = [update EXCEPT !.done = (@ \cup 1..(i - 1)) \ {i}]
    BY DEF CommitTooEarly
  <1>3. /\ update \in [bank : Bank, plan : Plan, done : SUBSET Part]
        /\ mishaps' \in 0..MaxMishaps
    BY <1>1 DEF StoreInv, TypeOK
  <1>4. 1..(i - 1) \subseteq Part
    BY SoundStoreAssumption DEF Part
  <1>5. /\ update' \in [bank : Bank, plan : Plan, done : SUBSET Part]
        /\ update'.bank = update.bank /\ update'.plan = update.plan
    BY <1>2, <1>3, <1>4
  <1>6. ~Written(flash[update.bank])
    BY <1>1, <1>2 DEF StoreInv, Staged, Whole, Arrived
  <1>7. Staged'
    BY <1>1, <1>5, <1>6 DEF StoreInv, Staged
  <1>8. op' = Idle /\ op'.step = "idle"
    BY <1>1 DEF Idle
  <1>9. OpOK' /\ StepReady' /\ op'.step \notin OpeningStep
    BY <1>8 DEF OpOK, StepReady, OpeningStep, PartStep
  <1> QED BY <1>1, <1>3, <1>5, <1>7, <1>9, FlagsKeep

LEMMA AbortKeeps ==
  ASSUME StoreInv, Abort
  PROVE  StoreInv'
  <1>1. /\ op = Idle /\ update # None /\ Committed(flash[update.bank]) = None
        /\ op' = [step |-> "eraseHeader", bank |-> update.bank, plan |-> update.plan]
        /\ UNCHANGED <<flash, selection, update, leases, told>>
    BY DEF Abort, Do
  <1>2. /\ update \in [bank : Bank, plan : Plan, done : SUBSET Part]
        /\ mishaps \in 0..MaxMishaps
    BY <1>1 DEF StoreInv, TypeOK
  <1>3. mishaps' \in 0..MaxMishaps
    BY <1>2, SoundStoreAssumption DEF Abort
  <1>4. /\ op' \in PlainOp /\ op'.step = "eraseHeader" /\ op'.bank = update.bank
        /\ op'.plan = update.plan /\ op' # Idle
    BY <1>1, <1>2 DEF PlainOp, PlainStep, Idle
  <1>5. OpOK' /\ op'.step \notin OpeningStep
    BY <1>1, <1>4 DEF OpOK, OpeningStep
  <1>6. Staged' /\ StepReady'
    BY <1>1, <1>4 DEF StoreInv, Staged, StepReady, PartStep
  <1> QED BY <1>1, <1>2, <1>3, <1>5, <1>6, FlagsKeep

\* Reads, leases and failing scans in the middle of a transaction.
LEMMA ReadersKeep ==
  ASSUME StoreInv, update # None, op = Idle,
         \/ \E l \in 1..MaxLeases : Acquire(l) \/ Release(l)
         \/ ScanFails
  PROVE  StoreInv'
  <1>1. TypeOK /\ OpOK /\ Busy /\ BusyBank = update.bank /\ update.bank \in Bank
    BY BusyFacts DEF StoreInv, Busy
  <1>2. UNCHANGED <<flash, update, op, told>>
    BY DEF Acquire, Release, ScanFails
  <1>3. /\ update \in [bank : Bank, plan : Plan, done : SUBSET Part]
        /\ mishaps' \in 0..MaxMishaps
    BY <1>1, SoundStoreAssumption DEF TypeOK, Acquire, Release, ScanFails, Mishap
  <1>4. op' = Idle /\ op'.step = "idle"
    BY <1>2 DEF Idle
  <1>5. OpOK' /\ StepReady' /\ op'.step \notin OpeningStep /\ Staged'
    BY <1>2, <1>4 DEF OpOK, StepReady, OpeningStep, PartStep, StoreInv, Staged
  <1>6. /\ scanned => /\ sel[Other(update.bank)] = Committed(flash[Other(update.bank)])
                      /\ sel[update.bank] = None
        /\ IsActive(read) => /\ Committed(flash[read.bank]) = read.plan
                             /\ read.bank # update.bank
        /\ scanned \in BOOLEAN /\ sel \in Plans
        /\ read \in Chosen \cup {None, Split, Blank, Unscanned}
        /\ leases \in [1..MaxLeases -> Chosen \cup {None}]
    BY <1>1, BankFacts DEF StoreInv, SelectionKept, ReadKept, TypeOK, Plans
  <1>7. CASE ScanFails
    <2>1. scanned' = FALSE /\ sel' \in Plans /\ read' = Unscanned /\ leases' = leases
      BY <1>7 DEF ScanFails, Forget, NoBanks, Plans
    <2> QED BY <1>2, <1>3, <1>5, <1>6, <2>1, TransactionKeeps DEF IsActive
  <1>8. ASSUME NEW l \in 1..MaxLeases, Acquire(l) PROVE StoreInv'
    <2>1. /\ read' = read
          /\ leases' = IF IsActive(read) THEN [leases EXCEPT ![l] = read] ELSE leases
          /\ UNCHANGED <<scanned, sel>>
      BY <1>8 DEF Acquire
    <2>2. /\ leases' \in [1..MaxLeases -> Chosen \cup {None}]
          /\ \A m \in 1..MaxLeases : leases'[m] # None =>
               leases'[m] = leases[m] \/ (IsActive(read') /\ leases'[m] = read')
      <3>1. IsActive(read) => read \in Chosen
        BY <1>6 DEF IsActive
      <3> QED BY <1>6, <2>1, <3>1
    <2> QED BY <1>2, <1>3, <1>5, <1>6, <2>1, <2>2, TransactionKeeps
  <1>9. ASSUME NEW l \in 1..MaxLeases, Release(l) PROVE StoreInv'
    <2>1. leases' = [leases EXCEPT ![l] = None] /\ UNCHANGED <<scanned, sel, read>>
      BY <1>9 DEF Release, selection
    <2>2. /\ leases' \in [1..MaxLeases -> Chosen \cup {None}]
          /\ \A m \in 1..MaxLeases : leases'[m] # None => leases'[m] = leases[m]
      BY <1>6, <2>1
    <2> QED BY <1>2, <1>3, <1>5, <1>6, <2>1, <2>2, TransactionKeeps
  <1> QED BY <1>7, <1>8, <1>9

-----------------------------------------------------------------------------
(* The bank that is written changes, or the transaction ends.              *)

\* Where the bank that is written holds nothing, what it held, or the plan of the
\* update, the generations stay consecutive.
LEMMA StaysSuccessive ==
  ASSUME StoreInv, Busy, TypeOK', flash'[Other(BusyBank)] = flash[Other(BusyBank)],
         SoundBank(flash'[BusyBank]),
         Committed(flash'[BusyBank]) \in {None, Committed(flash[BusyBank]), BusyPlan}
  PROVE  BanksSound' /\ Successive'
  <1> DEFINE tb == BusyBank
             o == Other(BusyBank)
  <1>1. tb \in Bank /\ o \in Bank /\ BusyPlan \in Plan /\ tb # o
        /\ \A b \in Bank : b = tb \/ b = o
    BY BusyFacts, BankFacts DEF StoreInv
  <1>2. /\ \A b \in Bank : Strict[b] = Committed(flash[b]) /\ Strict'[b] = Committed(flash'[b])
        /\ Strict \in Plans /\ Strict' \in Plans
    BY TypedBanks, TypedBanksNext DEF StoreInv
  <1>3. BanksSound'
    BY <1>1 DEF StoreInv, BanksSound
  <1>4. Strict'[o] = Strict[o] /\ Strict'[tb] \in {None, Strict[tb], BusyPlan}
    BY <1>1, <1>2
  <1>5. Strict[o] # None => Gen(BusyPlan) = Gen(Strict[o]) + 1
    BY <1>1, <1>2 DEF StoreInv, Targeted, Rest, Gen
  <1> HIDE DEF tb, o
  <1>6. Consecutive(Strict')
    BY <1>1, <1>4, <1>5 DEF StoreInv, Successive, Consecutive
  <1> QED BY <1>3, <1>6 DEF Successive

\* Nothing is under way any more.
LEMMA Ends ==
  ASSUME StoreInv, Busy, TypeOK', op' = Idle, update' = None,
         flash'[Other(BusyBank)] = flash[Other(BusyBank)], SoundBank(flash'[BusyBank]),
         Committed(flash'[BusyBank]) \in {None, Committed(flash[BusyBank]), BusyPlan},
         told' = told \/ told' = ActivePlan',
         scanned' => sel' = Strict',
         IsActive(read') => read' = Active',
         leases' \in {leases, NoLeases}
  PROVE  StoreInv'
  <1>1. BusyBank \in Bank /\ Other(BusyBank) \in Bank
        /\ \A b \in Bank : b # BusyBank => b = Other(BusyBank)
    BY BusyFacts, BankFacts DEF StoreInv
  <1>2. BanksSound' /\ Successive'
    BY StaysSuccessive
  <1>3. /\ \A b \in Bank : Strict'[b] = Committed(flash'[b])
        /\ Strict' \in Plans /\ Consecutive(Strict')
    BY <1>2, TypedBanksNext DEF Successive
  <1>4. ~Busy' /\ op'.step = "idle"
    BY DEF Busy, Idle
  <1>5. OpOK' /\ StepReady' /\ Staged' /\ Targeted'
    BY <1>4 DEF OpOK, StepReady, OpeningStep, PartStep, Staged, Targeted
  <1>6. ToldKept'
    <2>1. CASE told' = told
      <3>1. Reaches(Strict'[Other(BusyBank)], told)
        BY <1>1, <1>3 DEF StoreInv, ToldKept, Rest
      <3>2. told \in Plan \cup {None}
        BY DEF StoreInv, TypeOK
      <3>3. Reaches(PlanOf(Select(Strict')), told)
        BY <1>1, <1>3, <3>1, <3>2, SelectReaches
      <3> QED BY <1>4, <2>1, <3>3 DEF ToldKept, ActivePlan, Active
    <2>2. CASE told' = ActivePlan'
      <3>1. told' \in Plan \cup {None}
        BY DEF TypeOK
      <3>2. told' # None => Gen(told') \in Nat
        BY <3>1, PlanFacts
      <3> QED BY <1>4, <2>2, <3>2 DEF ToldKept, Reaches
    <2> QED BY <2>1, <2>2
  <1>7. LeasesKept'
    <2> SUFFICES ASSUME NEW l \in 1..MaxLeases, leases'[l] # None
                 PROVE  Committed(flash'[leases'[l].bank]) = leases'[l].plan
      BY <1>4 DEF LeasesKept
    <2>1. leases'[l] = leases[l]
      BY DEF NoLeases
    <2>2. leases[l].bank \in Bank /\ leases[l].bank # BusyBank
          /\ Committed(flash[leases[l].bank]) = leases[l].plan
      BY <2>1 DEF StoreInv, LeasesKept, TypeOK, Chosen
    <2> QED BY <1>1, <2>1, <2>2
  <1>8. ReadKept'
    <2> SUFFICES ASSUME IsActive(read')
                 PROVE  Committed(flash'[read'.bank]) = read'.plan
      BY <1>4 DEF ReadKept
    <2>1. read' = Select(Strict') /\ read' # None
      BY DEF Active, IsActive
    <2>2. Select(Strict') \in Chosen /\ Strict'[Select(Strict').bank] = Select(Strict').plan
      BY <1>3, <2>1, SelectIs
    <2>3. read'.bank \in Bank
      BY <2>1, <2>2 DEF Chosen
    <2> QED BY <1>3, <2>1, <2>2, <2>3
  <1>9. SelectionKept'
    BY <1>3, <1>4 DEF SelectionKept
  <1> QED BY <1>2, <1>5, <1>6, <1>7, <1>8, <1>9 DEF StoreInv

\* A transaction whose marker is there is the active bundle, and the only thing
\* its bank can hold.
LEMMA TransactionBank ==
  ASSUME StoreInv, update # None
  PROVE  /\ Committed(flash[update.bank]) \in {None, update.plan}
         /\ Committed(flash[update.bank]) # None => Active = At(update.bank, update.plan)
         /\ Active # At(update.bank, update.plan) =>
              /\ Committed(flash[update.bank]) = None
              /\ Active # None => Active.bank = Other(update.bank)
         /\ flash[update.bank] \in BankState /\ SoundBank(flash[update.bank])
  <1> DEFINE tb == update.bank
             k == flash[tb]
             s == Strict
  <1>1. TypeOK /\ OpOK /\ Busy /\ BusyBank = tb /\ BusyPlan = update.plan /\ tb \in Bank
        /\ Other(tb) \in Bank /\ update.plan \in Plan
    BY BusyFacts DEF StoreInv, Busy
  <1>2. k \in BankState /\ SoundBank(k)
    BY <1>1, TypedBanks DEF StoreInv, BanksSound
  <1>3. Committed(k) \in {None, update.plan}
    BY <1>2, CommittedIs DEF StoreInv, Staged
  <1>4. /\ s \in Plans /\ Consecutive(s) /\ s[tb] = Committed(k)
        /\ s[Other(tb)] = Committed(flash[Other(tb)])
    BY <1>1, TypedBanks DEF StoreInv, Successive
  <1>5. s[Other(tb)] # None => Gen(update.plan) = Gen(s[Other(tb)]) + 1
    BY <1>1, <1>4 DEF StoreInv, Targeted, Rest, Gen
  <1>6. Committed(k) # None => Active = At(tb, update.plan)
    BY <1>1, <1>3, <1>4, <1>5, SelectDecided DEF Active
  <1>7. ASSUME Committed(k) = None, Active # None PROVE Active.bank = Other(tb)
    <2>1. /\ Active.bank \in Bank /\ Active.plan \in Plan
          /\ Committed(flash[Active.bank]) = Active.plan
      BY <1>7, ActiveFacts DEF StoreInv
    <2>2. Active.plan # None
      BY <2>1, PlanFacts
    <2> QED BY <1>1, <1>7, <2>1, <2>2, BankFacts
  <1> QED BY <1>2, <1>3, <1>6, <1>7

LEMMA AbortCommittedKeeps ==
  ASSUME StoreInv, AbortCommitted
  PROVE  StoreInv'
  <1>1. /\ op = Idle /\ update # None
        /\ scanned' = TRUE /\ sel' = Strict /\ read' = Active /\ update' = None
        /\ UNCHANGED <<flash, leases, op, told, mishaps>>
    BY DEF AbortCommitted, Active
  <1>2. /\ Busy /\ BusyBank = update.bank
    BY <1>1, BusyFacts DEF StoreInv, Busy
  <1>3. Strict' = Strict /\ Active' = Active
    BY <1>1, FlashRests
  <1>4. TypeOK'
    BY <1>1, TypedBanks, ActiveFacts DEF StoreInv, TypeOK, Plans
  <1>5. SoundBank(flash[update.bank])
    BY <1>1, TransactionBank
  <1> QED BY <1>1, <1>2, <1>3, <1>4, <1>5, Ends

LEMMA QueryKeeps ==
  ASSUME StoreInv, QueryCurrentActive
  PROVE  StoreInv'
  <1>1. Active # Split /\ Active \in Chosen \cup {None} /\ (Active # None => IsActive(Active))
        /\ (Active # None => Active.plan \in Plan)
    BY ActiveFacts DEF StoreInv
  <1>2. /\ op = Idle /\ UNCHANGED <<flash, leases, op, mishaps>>
        /\ scanned' = TRUE /\ sel' = Strict /\ read' = Readable(Strict)
        /\ update' = IF update # None /\ Active = At(update.bank, update.plan)
                     THEN None ELSE update
        /\ told' = IF Active # None THEN Active.plan ELSE told
    BY <1>1 DEF QueryCurrentActive, Active, IsActive
  <1>3. /\ Readable(Strict) \in Chosen \cup {None, Blank}
        /\ IsActive(Readable(Strict)) => Readable(Strict) = Active
    BY ReadableIs
  <1>4. /\ Strict \in Plans /\ leases \in [1..MaxLeases -> Chosen \cup {None}]
        /\ mishaps \in 0..MaxMishaps
        /\ \A b \in Bank : Strict[b] = Committed(flash[b])
    BY TypedBanks DEF StoreInv, TypeOK
  <1>5. TypeOK'
    BY <1>1, <1>2, <1>3, <1>4 DEF StoreInv, TypeOK, Plans
  <1>6. Strict' = Strict /\ Active' = Active /\ ActivePlan' = ActivePlan
    BY <1>2, FlashRests
  <1>7. CASE update = None
    BY <1>2, <1>3, <1>4, <1>7, IdleKeeps
  <1>8. CASE update # None /\ Active = At(update.bank, update.plan)
    <2>1. Busy /\ BusyBank = update.bank /\ SoundBank(flash[update.bank])
      BY <1>8, BusyFacts, TransactionBank DEF StoreInv, Busy
    <2>2. told' = told \/ told' = ActivePlan'
      BY <1>2, <1>6 DEF ActivePlan, PlanOf
    <2> QED BY <1>2, <1>3, <1>5, <1>6, <1>8, <2>1, <2>2, Ends
  <1>9. CASE update # None /\ Active # At(update.bank, update.plan)
    <2>1. /\ Busy /\ BusyBank = update.bank /\ BusyPlan = update.plan
          /\ update.bank \in Bank /\ Other(update.bank) \in Bank
          /\ update \in [bank : Bank, plan : Plan, done : SUBSET Part]
      BY <1>9, BusyFacts, BankFacts DEF StoreInv, Busy, TypeOK
    <2>2. update' = update
      BY <1>2, <1>9
    <2>3. /\ Committed(flash[update.bank]) = None
          /\ Active # None => /\ Active.bank = Other(update.bank)
                              /\ Committed(flash[Active.bank]) = Active.plan
      BY <1>9, TransactionBank, ActiveFacts DEF StoreInv
    <2>4. Busy' /\ BusyBank' = BusyBank /\ BusyPlan' = BusyPlan /\ Rest' = Rest
      BY <1>2, <1>9, <2>2 DEF Busy, BusyBank, BusyPlan, Rest
    <2>5. op'.step = "idle" /\ op' = Idle
      BY <1>2 DEF Idle
    <2>6. OpOK' /\ StepReady' /\ Staged' /\ BanksSound' /\ Successive' /\ Targeted'
      <3>1. BanksSound' /\ Successive'
        BY <1>2, FlashRests
      <3>2. OpOK' /\ StepReady'
        BY <2>5 DEF OpOK, StepReady, OpeningStep, PartStep
      <3>3. Staged'
        BY <1>2, <2>2 DEF StoreInv, Staged
      <3>4. Targeted'
        BY <2>1, <2>4 DEF StoreInv, Targeted
      <3> QED BY <3>1, <3>2, <3>3, <3>4
    <2>7. ToldKept'
      <3>1. CASE Active = None
        BY <1>2, <2>1, <2>4, <3>1 DEF StoreInv, ToldKept
      <3>2. CASE Active # None
        <4>1. Rest = Active.plan /\ told' = Rest
          BY <1>2, <2>1, <2>3, <3>2 DEF Rest
        <4>2. Gen(Active.plan) \in Nat /\ Active.plan # None
          BY <1>1, <3>2, PlanFacts
        <4> QED BY <2>4, <4>1, <4>2 DEF ToldKept, Reaches
      <3> QED BY <3>1, <3>2
    <2>8. LeasesKept'
      BY <1>2, <2>1, <2>4 DEF StoreInv, LeasesKept
    <2>9. ReadKept'
      <3>1. IsActive(read') => read' = Active /\ Active # None
        BY <1>2, <1>3 DEF IsActive
      <3>2. Other(update.bank) # update.bank
        BY <2>1, BankFacts
      <3> QED BY <1>2, <2>1, <2>3, <2>4, <3>1, <3>2 DEF ReadKept
    <2>10. SelectionKept'
      BY <1>2, <1>4, <2>1, <2>3, <2>4, <2>5 DEF SelectionKept
    <2> QED BY <1>5, <2>6, <2>7, <2>8, <2>9, <2>10 DEF StoreInv
  <1> QED BY <1>7, <1>8, <1>9
-----------------------------------------------------------------------------
(* What a step, whole or cut short, makes of a bank.                       *)

\* Only the commit record and the regions it vouches for count.
LEMMA SameContent ==
  ASSUME NEW k, NEW k2, k2.part = k.part, k2.commit = k.commit
  PROVE  Committed(k2) = Committed(k)
  BY DEF Committed, Authentic, Decoded

\* A header is torn, erased, or written where no commit record is.
LEMMA HeaderCut ==
  ASSUME NEW k \in BankState, SoundBank(k), NEW h \in Plan \cup {Erased, Torn},
         NEW k2, k2 = [k EXCEPT !.header = h],
         h \in {k.header, Erased, Torn} \/ k.commit = Erased
  PROVE  /\ k2 \in BankState /\ SoundBank(k2) /\ Committed(k2) = Committed(k)
         /\ k2.header = h /\ k2.commit = k.commit /\ k2.part = k.part
  <1>1. k2 \in BankState /\ k2.header = h /\ k2.part = k.part /\ k2.commit = k.commit
    BY DEF BankState
  <1>2. SoundBank(k2)
    BY <1>1 DEF SoundBank, Whole, Written
  <1> QED BY <1>1, <1>2, SameContent

\* A commit record is erased, or torn.
LEMMA CommitCut ==
  ASSUME NEW k \in BankState, SoundBank(k), NEW c \in {k.commit, Erased, Torn},
         NEW k2, k2 = [k EXCEPT !.commit = c]
  PROVE  /\ k2 \in BankState /\ SoundBank(k2) /\ Committed(k2) \in {None, Committed(k)}
         /\ k2.commit = c
  <1>1. k2 \in BankState /\ k2.header = k.header /\ k2.part = k.part /\ k2.commit = c
    BY DEF BankState
  <1>2. CASE c = k.commit
    BY <1>1, <1>2, SameContent DEF SoundBank, Whole, Written
  <1>3. CASE c \in {Erased, Torn}
    <2>1. ~Written(k2)
      BY <1>1, <1>3 DEF Written
    <2> QED BY <1>1, <2>1, CommittedIs DEF SoundBank
  <1> QED BY <1>1, <1>2, <1>3

\* Programming adds to a record of the same plan.
LEMMA ProgramIs ==
  ASSUME NEW c \in Record \cup {Erased, Torn}, NEW p \in Plan, NEW n \in 1..Complete,
         c \notin {Erased, Torn} => c.plan = p
  PROVE  /\ Program(c, p, n) \in Record \cup {Torn}
         /\ Program(c, p, n) # Torn => Program(c, p, n).plan = p
  <1>1. CASE c = Erased
    BY <1>1 DEF Program, Record
  <1>2. CASE c # Erased /\ c = Torn
    BY <1>2 DEF Program
  <1>3. CASE c \notin {Erased, Torn}
    <2>1. c \in Record /\ c.plan = p /\ c.stage \in 1..Complete
      BY <1>3 DEF Record
    <2> DEFINE m == IF c.stage > n THEN c.stage ELSE n
    <2>2. m \in 1..Complete /\ Program(c, p, n) = [c EXCEPT !.stage = m]
      BY <1>3, <2>1 DEF Program
    <2> HIDE DEF m
    <2> QED BY <2>1, <2>2 DEF Record
  <1> QED BY <1>1, <1>2, <1>3

\* The commit record of a whole payload is programmed.
LEMMA ProgramCut ==
  ASSUME NEW k \in BankState, NEW p \in Plan, NEW k2 \in BankState,
         Whole(k, p), k.header \in {p, Erased, Torn},
         k2.header = k.header, k2.part = k.part, Written(k2) => k2.commit.plan = p
  PROVE  SoundBank(k2) /\ Committed(k2) \in {None, p} /\ Whole(k2, p)
  <1>1. Whole(k2, p)
    BY DEF Whole
  <1>2. SoundBank(k2)
    BY <1>1 DEF SoundBank
  <1> QED BY <1>1, <1>2, CommittedIs

\* A part is written or erased; under a commit record only the manifest.
LEMMA PartCut ==
  ASSUME NEW k \in BankState, NEW p \in Plan, NEW i \in Part,
         NEW c \in Bundle \cup {Erased, Torn}, k.header \in {p, Erased, Torn},
         Written(k) => i = 0 /\ k.commit.plan = p /\ Whole(k, p),
         NEW k2, k2 = [k EXCEPT !.part[i] = c]
  PROVE  /\ k2 \in BankState /\ SoundBank(k2) /\ Committed(k2) \in {None, p}
         /\ k2.header = k.header /\ k2.commit = k.commit
         /\ Written(k2) => k2.commit.plan = p /\ Whole(k2, p)
  <1>1. k.part \in [Part -> Bundle \cup {Erased, Torn}]
    BY DEF BankState
  <1>2. /\ k2 \in BankState /\ k2.header = k.header /\ k2.commit = k.commit
        /\ k2.part = [k.part EXCEPT ![i] = c]
    BY <1>1 DEF BankState
  <1>3. Written(k2) => k2.commit.plan = p /\ Whole(k2, p)
    BY <1>1, <1>2 DEF Written, Whole
  <1>4. SoundBank(k2)
    BY <1>2, <1>3 DEF SoundBank
  <1> QED BY <1>2, <1>3, <1>4, CommittedIs

\* A sweep takes the header and the manifest before the rest.
LEMMA SweptIs ==
  ASSUME NEW k \in BankState, SoundBank(k), NEW last \in {Blocks + 1, Blocks + 2},
         NEW k2 \in Swept(k, last)
  PROVE  /\ k2 \in BankState /\ SoundBank(k2) /\ Committed(k2) \in {None, Committed(k)}
         /\ last = Blocks + 1 => k2.commit = k.commit
  <1>1. PICK at \in 0..last, c \in {Torn, Erased} :
          k2 = FromRegions([n \in Regions |->
                 IF n > last \/ n > at THEN Region(k, n) ELSE IF n = at THEN c ELSE Erased])
    BY DEF Swept
  <1> DEFINE f == [n \in Regions |->
                 IF n > last \/ n > at THEN Region(k, n) ELSE IF n = at THEN c ELSE Erased]
  <1>2. Blocks \in Nat /\ last \in Nat /\ at \in Nat /\ last >= Blocks + 1 /\ at <= last
    BY SoundStoreAssumption
  <1>3. f[0] \in {Torn, Erased}
    BY <1>2 DEF Regions
  <1>4. \A i \in Part : f[i + 1] = IF i + 1 > at THEN k.part[i]
                                  ELSE IF i + 1 = at THEN c ELSE Erased
    BY <1>2 DEF Regions, Region, Part
  <1>5. f[Blocks + 2] = IF Blocks + 2 > last \/ Blocks + 2 > at THEN k.commit
                        ELSE IF Blocks + 2 = at THEN c ELSE Erased
    BY <1>2 DEF Regions, Region
  <1>6. k2.header = f[0] /\ k2.part = [i \in Part |-> f[i + 1]] /\ k2.commit = f[Blocks + 2]
        /\ k2 = [header |-> f[0], part |-> [i \in Part |-> f[i + 1]], commit |-> f[Blocks + 2]]
    BY <1>1 DEF FromRegions
  <1> HIDE DEF f
  <1>7. k.part \in [Part -> Bundle \cup {Erased, Torn}] /\ k.commit \in Record \cup {Erased, Torn}
    BY DEF BankState
  <1>8. /\ \A i \in Part : k2.part[i] \in {k.part[i], Torn, Erased}
        /\ k2.commit \in {k.commit, Torn, Erased} /\ k2.header \in {Torn, Erased}
    BY <1>3, <1>4, <1>5, <1>6
  <1>9. k2 \in BankState
    <2>1. [i \in Part |-> f[i + 1]] \in [Part -> Bundle \cup {Erased, Torn}]
      BY <1>4, <1>7
    <2> QED BY <1>6, <1>7, <1>8, <2>1 DEF BankState
  <1>10. last = Blocks + 1 => k2.commit = k.commit
    BY <1>2, <1>5, <1>6
  <1>11. CASE at = 0
    <2>1. k2.commit = k.commit
      BY <1>2, <1>5, <1>6, <1>11
    <2>2. k2.part = k.part
      <3>1. \A i \in Part : f[i + 1] = k.part[i]
        BY <1>2, <1>4, <1>11 DEF Part
      <3> QED BY <1>6, <1>7, <3>1
    <2>3. SoundBank(k2)
      BY <1>8, <2>1, <2>2 DEF SoundBank, Whole, Written
    <2> QED BY <1>9, <1>10, <2>1, <2>2, <2>3, SameContent
  <1>12. CASE at # 0
    <2>1. k2.part[0] \in {Torn, Erased} /\ 0 \in Part
      BY <1>2, <1>4, <1>6, <1>12 DEF Part
    <2>2. k2.part[0] \notin Bundle
      BY <2>1, SoundStoreSentinels
    <2>3. SoundBank(k2)
      BY <1>8, <2>2 DEF SoundBank
    <2>4. Committed(k2) = None
      BY <1>9, <2>2, CommittedIs, PlanFacts
    <2> QED BY <1>9, <1>10, <2>3, <2>4
  <1> QED BY <1>11, <1>12
\* What any step of an operation, whole or cut short, leaves of the bank it is
\* writing.
LEMMA CutIs ==
  ASSUME StoreInv, op # Idle, NEW k \in Cuts
  PROVE  /\ k \in BankState /\ SoundBank(k)
         /\ Committed(k) \in {None, Committed(flash[op.bank]), op.plan}
         /\ op.step \in {"eraseRest", "writeHeader"} => k.commit = Erased
         /\ op.step = "eraseHeader" => Committed(k) = None
         /\ update # None =>
              /\ k.header \in {update.plan, Erased, Torn}
              /\ Written(k) => /\ k.commit.plan = update.plan /\ Whole(k, update.plan)
                               /\ Part \ {0} \subseteq update.done
  <1> DEFINE old == flash[op.bank]
  <1>1. /\ TypeOK /\ OpOK /\ op.bank \in Bank /\ op.plan \in Plan
        /\ op.step \in PlainStep \cup PartStep
        /\ op.step \in PartStep => op.part \in Part
    BY OpFacts DEF StoreInv
  <1>2. old \in BankState /\ SoundBank(old)
    BY <1>1, TypedBanks DEF StoreInv, BanksSound
  <1>3. /\ update # None =>
             /\ op.bank = update.bank /\ op.plan = update.plan
             /\ old.header \in {op.plan, Erased, Torn}
             /\ Written(old) => /\ old.commit.plan = op.plan /\ Whole(old, op.plan)
                                /\ Part \ {0} \subseteq update.done
        /\ op.step \in OpeningStep => update = None
        /\ op.step \notin OpeningStep => update # None
    BY <1>1 DEF StoreInv, OpOK, Staged
  <1>4. /\ op.step \in {"eraseRest", "writeHeader"} => old.commit = Erased
        /\ op.step = "eraseHeader" => Committed(old) = None
        /\ op.step \in PartStep /\ Written(old) => op.part = 0
        /\ op.step \in {"writeBody", "writeMarker"} =>
             Whole(old, op.plan) /\ Part \ {0} \subseteq update.done
    BY DEF StoreInv, StepReady
  <1>5. CASE k = old
    BY <1>2, <1>3, <1>4, <1>5
  <1>6. CASE op.step = "eraseCommit"
    <2>1. update = None
      BY <1>3, <1>6 DEF OpeningStep
    <2>2. PICK c \in {old.commit, Erased, Torn} : k = [old EXCEPT !.commit = c]
      BY <1>2, <1>6 DEF Cuts, Cut, BankState
    <2> QED BY <1>2, <1>6, <2>1, <2>2, CommitCut
  <1>7. CASE op.step = "eraseRest"
    <2>1. update = None
      BY <1>3, <1>7 DEF OpeningStep
    <2>2. k = old \/ k \in Swept(old, Blocks + 1)
      BY <1>7 DEF Cuts
    <2>3. CASE k \in Swept(old, Blocks + 1)
      <3>1. /\ k \in BankState /\ SoundBank(k) /\ Committed(k) \in {None, Committed(old)}
            /\ k.commit = old.commit
        BY <1>2, <2>3, SweptIs
      <3> QED BY <1>4, <1>7, <2>1, <3>1
    <2> QED BY <1>5, <2>2, <2>3
  <1>8. CASE op.step = "eraseBank"
    <2>1. update = None
      BY <1>3, <1>8 DEF OpeningStep
    <2>2. k = old \/ k \in Swept(old, Blocks + 2)
      BY <1>8 DEF Cuts
    <2>3. CASE k \in Swept(old, Blocks + 2)
      <3>1. k \in BankState /\ SoundBank(k) /\ Committed(k) \in {None, Committed(old)}
        BY <1>2, <2>3, SweptIs
      <3> QED BY <1>8, <2>1, <3>1
    <2> QED BY <1>5, <2>2, <2>3
  <1>9. CASE op.step = "writeHeader"
    <2>1. update = None /\ old.commit = Erased
      BY <1>3, <1>4, <1>9 DEF OpeningStep
    <2>2. PICK h \in Plan \cup {Erased, Torn} : k = [old EXCEPT !.header = h]
      BY <1>1, <1>2, <1>9 DEF Cuts, Cut, BankState
    <2>3. /\ k \in BankState /\ SoundBank(k) /\ Committed(k) = Committed(old)
          /\ k.commit = old.commit
      BY <1>2, <2>1, <2>2, HeaderCut
    <2> QED BY <1>9, <2>1, <2>3
  <1>10. CASE op.step = "eraseHeader"
    <2>1. update # None /\ Committed(old) = None
      BY <1>3, <1>4, <1>10 DEF OpeningStep
    <2>2. PICK h \in {old.header, Erased, Torn} : k = [old EXCEPT !.header = h]
      BY <1>2, <1>10 DEF Cuts, Cut, BankState
    <2>3. h \in Plan \cup {Erased, Torn}
      BY <1>2 DEF BankState
    <2>4. /\ k \in BankState /\ SoundBank(k) /\ Committed(k) = Committed(old)
          /\ k.header = h /\ k.commit = old.commit /\ k.part = old.part
      BY <1>2, <2>2, <2>3, HeaderCut
    <2> QED BY <1>3, <1>10, <2>1, <2>2, <2>4 DEF Whole, Written
  <1>11. CASE op.step \in PartStep
    <2>1. update # None /\ op.part \in Part /\ op.plan.bundle \in Bundle
      BY <1>1, <1>3, <1>11, PlanFacts DEF OpeningStep, PartStep
    <2>2. PICK c \in Bundle \cup {Erased, Torn} : k = [old EXCEPT !.part[op.part] = c]
      <3>1. old.part[op.part] \in Bundle \cup {Erased, Torn}
        BY <1>2, <2>1 DEF BankState
      <3>2. old = [old EXCEPT !.part[op.part] = old.part[op.part]]
        BY <1>2, <2>1 DEF BankState
      <3>3. \E c \in {old.part[op.part], Erased, Torn, op.plan.bundle} :
              k = [old EXCEPT !.part[op.part] = c]
        BY <1>11, <3>2 DEF Cuts, Cut, PartStep
      <3> QED BY <2>1, <3>1, <3>3
    <2>3. /\ k \in BankState /\ SoundBank(k) /\ Committed(k) \in {None, op.plan}
          /\ k.header = old.header /\ k.commit = old.commit
          /\ Written(k) => k.commit.plan = op.plan /\ Whole(k, op.plan)
      BY <1>1, <1>2, <1>3, <1>4, <1>11, <2>1, <2>2, PartCut
    <2> QED BY <1>3, <1>11, <2>1, <2>3 DEF Written, PartStep
  <1>12. CASE op.step \in {"writeBody", "writeMarker"}
    <2>1. update # None
      BY <1>3, <1>12 DEF OpeningStep
    <2>2. k = old \/ \E n \in 1..Complete :
                       k = [old EXCEPT !.commit = Program(old.commit, op.plan, n)]
      BY <1>12 DEF Cuts, Complete
    <2>3. ASSUME NEW n \in 1..Complete, k = [old EXCEPT !.commit = Program(old.commit, op.plan, n)]
          PROVE  /\ k \in BankState /\ SoundBank(k) /\ Committed(k) \in {None, op.plan}
                 /\ k.header = old.header /\ Whole(k, op.plan)
                 /\ Written(k) => k.commit.plan = op.plan
      <3>1. /\ Written(old) => old.commit.plan = op.plan
            /\ Whole(old, op.plan) /\ old.header \in {op.plan, Erased, Torn}
            /\ old \in BankState /\ op.plan \in Plan
        BY <1>1, <1>2, <1>3, <1>4, <1>12, <2>1
      <3> DEFINE c == Program(old.commit, op.plan, n)
      <3>2. old.commit \in Record \cup {Erased, Torn}
        BY <3>1 DEF BankState
      <3>3. c \in Record \cup {Torn} /\ (c # Torn => c.plan = op.plan)
        BY <3>1, <3>2, ProgramIs DEF Written
      <3>4. k = [old EXCEPT !.commit = c]
        BY <2>3
      <3> HIDE DEF old, c
      <3>5. k \in BankState /\ k.header = old.header /\ k.part = old.part /\ k.commit = c
        BY <3>1, <3>3, <3>4 DEF BankState
      <3>6. Written(k) => k.commit.plan = op.plan
        BY <3>3, <3>5 DEF Written
      <3> QED BY <3>1, <3>5, <3>6, ProgramCut
    <2>4. CASE k # old
      BY <1>3, <1>4, <1>12, <2>1, <2>2, <2>3, <2>4
    <2> QED BY <1>5, <2>4
  <1> QED
    BY <1>1, <1>6, <1>7, <1>8, <1>9, <1>10, <1>11, <1>12 DEF PlainStep
\* The flash after a step: one bank is as the step leaves it, the other is as it was.
LEMMA FlashAfter ==
  ASSUME StoreInv, op # Idle, NEW k \in Cuts, Flashed(k)
  PROVE  /\ Busy /\ BusyBank = op.bank /\ BusyPlan = op.plan /\ op.bank \in Bank
         /\ op.plan \in Plan /\ Other(op.bank) \in Bank /\ Other(op.bank) # op.bank
         /\ \A b \in Bank : b # op.bank => b = Other(op.bank)
         /\ flash'[op.bank] = k /\ flash'[Other(op.bank)] = flash[Other(op.bank)]
         /\ flash' \in [Bank -> BankState]
  <1>1. Busy /\ BusyBank = op.bank /\ BusyPlan = op.plan /\ op.bank \in Bank /\ op.plan \in Plan
    BY OpFacts, BusyFacts DEF StoreInv, Busy
  <1>2. /\ Other(op.bank) \in Bank /\ Other(op.bank) # op.bank
        /\ \A b \in Bank : b # op.bank => b = Other(op.bank)
    BY <1>1, BankFacts
  <1>3. k \in BankState
    BY CutIs
  <1>4. flash \in [Bank -> BankState]
    BY DEF StoreInv, TypeOK, BankState
  <1> QED BY <1>1, <1>2, <1>3, <1>4 DEF Flashed

-----------------------------------------------------------------------------
(* The flash steps.                                                        *)

\* A step after which the update goes on in its bank.
LEMMA StepGoesOn ==
  ASSUME StoreInv, op # Idle, NEW k \in Cuts, Flashed(k), TypeOK',
         Busy', BusyBank' = op.bank, BusyPlan' = op.plan, OpOK', StepReady', Staged',
         UNCHANGED <<scanned, read, leases, told>>,
         \A b \in Bank : b # op.bank => sel'[b] = sel[b],
         scanned => sel'[op.bank] = None
  PROVE  StoreInv'
  <1>1. /\ Busy /\ BusyBank = op.bank /\ BusyPlan = op.plan /\ op.bank \in Bank
        /\ op.plan \in Plan /\ Other(op.bank) \in Bank /\ Other(op.bank) # op.bank
        /\ \A b \in Bank : b # op.bank => b = Other(op.bank)
        /\ flash'[op.bank] = k /\ flash'[Other(op.bank)] = flash[Other(op.bank)]
    BY FlashAfter
  <1>2. SoundBank(k) /\ Committed(k) \in {None, Committed(flash[op.bank]), op.plan}
    BY CutIs
  <1>3. BanksSound' /\ Successive'
    BY <1>1, <1>2, StaysSuccessive
  <1>4. Rest' = Rest
    BY <1>1 DEF Rest
  <1>5. Targeted'
    BY <1>1, <1>4 DEF StoreInv, Targeted
  <1>6. ToldKept'
    BY <1>1, <1>4 DEF StoreInv, ToldKept
  <1>7. LeasesKept'
    <2> SUFFICES ASSUME NEW l \in 1..MaxLeases, leases[l] # None
                 PROVE  /\ Committed(flash'[leases[l].bank]) = leases[l].plan
                        /\ leases[l].bank # op.bank
      BY DEF LeasesKept
    <2>1. /\ Committed(flash[leases[l].bank]) = leases[l].plan
          /\ leases[l].bank # op.bank /\ leases[l].bank \in Bank
      BY <1>1 DEF StoreInv, LeasesKept, TypeOK, Chosen
    <2> QED BY <1>1, <2>1
  <1>8. ReadKept'
    <2> SUFFICES ASSUME IsActive(read)
                 PROVE  Committed(flash'[read.bank]) = read.plan /\ read.bank # op.bank
      BY DEF ReadKept
    <2>1. /\ Committed(flash[read.bank]) = read.plan /\ read.bank # op.bank
          /\ read.bank \in Bank
      BY <1>1 DEF StoreInv, ReadKept, TypeOK, Chosen, IsActive
    <2> QED BY <1>1, <2>1
  <1>9. SelectionKept'
    <2>1. scanned => sel[Other(op.bank)] = Committed(flash[Other(op.bank)])
      BY <1>1 DEF StoreInv, SelectionKept
    <2> QED BY <1>1, <2>1 DEF SelectionKept
  <1> QED BY <1>3, <1>5, <1>6, <1>7, <1>8, <1>9 DEF StoreInv

\* A step of a transaction, after which it goes on: what the snapshot knows of its
\* bank is nothing, before and after.
LEMMA TransactionStep ==
  ASSUME StoreInv, op # Idle, update # None, NEW k \in Cuts, Flashed(k),
         update' \in [bank : Bank, plan : Plan, done : SUBSET Part],
         update'.bank = update.bank, update'.plan = update.plan,
         update.done \subseteq update'.done,
         OpOK', StepReady', UNCHANGED <<scanned, sel, read, leases, told>>,
         mishaps' \in 0..MaxMishaps
  PROVE  StoreInv'
  <1>1. /\ Busy /\ BusyBank = op.bank /\ BusyPlan = op.plan /\ op.bank \in Bank
        /\ flash'[op.bank] = k /\ flash' \in [Bank -> BankState]
    BY FlashAfter
  <1>2. op.bank = update.bank /\ op.plan = update.plan
    BY <1>1 DEF BusyBank, BusyPlan
  <1>3. update' # None
    BY SoundStoreSentinels
  <1>4. TypeOK'
    BY <1>1 DEF StoreInv, TypeOK, BankState
  <1>5. Busy' /\ BusyBank' = op.bank /\ BusyPlan' = op.plan
    BY <1>2, <1>3 DEF Busy, BusyBank, BusyPlan
  <1>6. Staged'
    <2>1. /\ k.header \in {update.plan, Erased, Torn}
          /\ Written(k) => /\ k.commit.plan = update.plan /\ Whole(k, update.plan)
                           /\ Part \ {0} \subseteq update.done
      BY CutIs
    <2> QED BY <1>1, <1>2, <2>1 DEF Staged
  <1>7. scanned => sel[op.bank] = None
    BY <1>1 DEF StoreInv, SelectionKept
  <1> QED BY <1>4, <1>5, <1>6, <1>7, StepGoesOn

LEMMA EraseCommitKeeps ==
  ASSUME StoreInv, EraseCommit
  PROVE  StoreInv'
  <1> DEFINE k == [flash[op.bank] EXCEPT !.commit = Erased]
  <1>1. /\ op.step = "eraseCommit" /\ Flashed(k) /\ sel' = [sel EXCEPT ![op.bank] = None]
        /\ op' = [op EXCEPT !.step = "eraseRest"]
        /\ UNCHANGED <<scanned, read, update, leases, told, mishaps>>
    BY DEF EraseCommit, Then
  <1>2. /\ op # Idle /\ op \in PlainOp /\ update = None /\ scanned
        /\ sel \in [Bank -> Plan \cup {None}]
    BY <1>1, OpFacts DEF StoreInv, OpOK, OpeningStep, PartStep, TypeOK
  <1>3. k \in Cuts
    BY <1>1 DEF Cuts, Cut
  <1>4. flash[op.bank] \in BankState
    BY <1>2, TypedBanks DEF StoreInv, PlainOp
  <1>5. k.commit = Erased
    BY <1>4 DEF BankState
  <1> HIDE DEF k
  <1>6. /\ op.bank \in Bank /\ flash'[op.bank] = k /\ flash' \in [Bank -> BankState]
    BY <1>1, <1>2, <1>3, FlashAfter
  <1>7. /\ op' \in PlainOp /\ op'.step = "eraseRest" /\ op'.bank = op.bank
        /\ op'.plan = op.plan /\ op' # Idle
    BY <1>1, <1>2 DEF PlainOp, PlainStep, Idle
  <1>8. TypeOK'
    BY <1>1, <1>2, <1>6 DEF StoreInv, TypeOK, BankState
  <1>9. Busy' /\ BusyBank' = op.bank /\ BusyPlan' = op.plan
    BY <1>1, <1>2, <1>7 DEF Busy, BusyBank, BusyPlan
  <1>10. OpOK' /\ Staged'
    BY <1>1, <1>2, <1>7 DEF OpOK, OpeningStep, Staged
  <1>11. StepReady'
    BY <1>5, <1>6, <1>7 DEF StepReady, PartStep
  <1> QED
    BY <1>1, <1>2, <1>3, <1>6, <1>8, <1>9, <1>10, <1>11, StepGoesOn
\* A sweep that is not cut short.
LEMMA SweptWhole ==
  ASSUME NEW k
  PROVE  /\ [BlankBank EXCEPT !.commit = k.commit] \in Swept(k, Blocks + 1)
         /\ BlankBank \in Swept(k, Blocks + 2)
  <1>1. ASSUME NEW last \in {Blocks + 1, Blocks + 2}
        PROVE  [header |-> Erased, part |-> [i \in Part |-> Erased],
                commit |-> IF last = Blocks + 1 THEN k.commit ELSE Erased] \in Swept(k, last)
    <2> DEFINE f == [n \in Regions |->
                 IF n > last \/ n > last THEN Region(k, n) ELSE IF n = last THEN Erased ELSE Erased]
    <2>1. Blocks \in Nat
      BY SoundStoreAssumption
    <2>2. FromRegions(f) \in Swept(k, last)
      <3>1. last \in 0..last /\ Erased \in {Torn, Erased}
        BY <2>1
      <3> QED BY <3>1 DEF Swept
    <2>3. f[0] = Erased /\ \A i \in Part : f[i + 1] = Erased
      BY <2>1 DEF Regions, Part
    <2>4. f[Blocks + 2] = IF last = Blocks + 1 THEN k.commit ELSE Erased
      BY <2>1 DEF Regions, Region
    <2> HIDE DEF f
    <2>5. [i \in Part |-> f[i + 1]] = [i \in Part |-> Erased]
      BY <2>3
    <2> QED BY <2>2, <2>3, <2>4, <2>5 DEF FromRegions
  <1>2. Blocks + 1 # Blocks + 2
    BY SoundStoreAssumption
  <1> QED BY <1>1, <1>2 DEF BlankBank

LEMMA EraseRestKeeps ==
  ASSUME StoreInv, EraseRest
  PROVE  StoreInv'
  <1> DEFINE k == [BlankBank EXCEPT !.commit = flash[op.bank].commit]
  <1>1. /\ op.step = "eraseRest" /\ Flashed(k) /\ op' = [op EXCEPT !.step = "writeHeader"]
        /\ UNCHANGED <<scanned, sel, read, update, leases, told, mishaps>>
    BY DEF EraseRest, Then, selection
  <1>2. op # Idle /\ op \in PlainOp /\ update = None /\ scanned
    BY <1>1, OpFacts DEF StoreInv, OpOK, OpeningStep, PartStep
  <1>3. k \in Cuts
    BY <1>1, SweptWhole DEF Cuts
  <1> HIDE DEF k
  <1>4. k.commit = Erased
    BY <1>1, <1>2, <1>3, CutIs
  <1>5. /\ op.bank \in Bank /\ flash'[op.bank] = k /\ flash' \in [Bank -> BankState]
        /\ BusyBank = op.bank /\ Busy
    BY <1>1, <1>2, <1>3, FlashAfter
  <1>6. /\ op' \in PlainOp /\ op'.step = "writeHeader" /\ op'.bank = op.bank
        /\ op'.plan = op.plan /\ op' # Idle
    BY <1>1, <1>2 DEF PlainOp, PlainStep, Idle
  <1>7. TypeOK'
    BY <1>1, <1>2, <1>5 DEF StoreInv, TypeOK, BankState
  <1>8. Busy' /\ BusyBank' = op.bank /\ BusyPlan' = op.plan
    BY <1>1, <1>2, <1>6 DEF Busy, BusyBank, BusyPlan
  <1>9. OpOK' /\ Staged'
    BY <1>1, <1>2, <1>6 DEF OpOK, OpeningStep, Staged
  <1>10. StepReady'
    BY <1>4, <1>5, <1>6 DEF StepReady, PartStep
  <1>11. sel[op.bank] = None
    BY <1>1, <1>2, <1>5 DEF StoreInv, SelectionKept
  <1> QED
    BY <1>1, <1>2, <1>3, <1>7, <1>8, <1>9, <1>10, <1>11, StepGoesOn

LEMMA WriteHeaderKeeps ==
  ASSUME StoreInv, WriteHeader
  PROVE  StoreInv'
  <1> DEFINE k == [flash[op.bank] EXCEPT !.header = op.plan]
  <1>1. /\ op.step = "writeHeader" /\ Flashed(k) /\ op' = Idle
        /\ update' = [bank |-> op.bank, plan |-> op.plan, done |-> {}]
        /\ UNCHANGED <<scanned, sel, read, leases, told, mishaps>>
    BY DEF WriteHeader, selection
  <1>2. op # Idle /\ op.bank \in Bank /\ op.plan \in Plan /\ update = None /\ scanned
    BY <1>1, OpFacts DEF StoreInv, OpOK, OpeningStep, PartStep, Idle
  <1>3. k \in Cuts
    BY <1>1 DEF Cuts, Cut
  <1>4. flash[op.bank] \in BankState
    BY <1>2, TypedBanks DEF StoreInv
  <1>5. k.header = op.plan
    BY <1>4 DEF BankState
  <1> HIDE DEF k
  <1>6. k.commit = Erased
    BY <1>1, <1>2, <1>3, CutIs
  <1>7. /\ flash'[op.bank] = k /\ flash' \in [Bank -> BankState] /\ BusyBank = op.bank /\ Busy
    BY <1>1, <1>2, <1>3, FlashAfter
  <1>8. /\ update' \in [bank : Bank, plan : Plan, done : SUBSET Part]
        /\ update'.bank = op.bank /\ update'.plan = op.plan
    BY <1>1, <1>2
  <1>9. update' # None
    BY <1>8, SoundStoreSentinels
  <1>10. TypeOK'
    BY <1>1, <1>7, <1>8 DEF StoreInv, TypeOK, BankState
  <1>11. Busy' /\ BusyBank' = op.bank /\ BusyPlan' = op.plan
    BY <1>8, <1>9 DEF Busy, BusyBank, BusyPlan
  <1>12. op'.step = "idle"
    BY <1>1 DEF Idle
  <1>13. OpOK' /\ StepReady'
    BY <1>1, <1>12 DEF OpOK, StepReady, OpeningStep, PartStep
  <1>14. Staged'
    BY <1>5, <1>6, <1>7, <1>8 DEF Staged, Written
  <1>15. sel[op.bank] = None
    BY <1>1, <1>2, <1>7 DEF StoreInv, SelectionKept
  <1> QED
    BY <1>1, <1>2, <1>3, <1>10, <1>11, <1>13, <1>14, <1>15, StepGoesOn

LEMMA ErasePartKeeps ==
  ASSUME StoreInv, ErasePart
  PROVE  StoreInv'
  <1> DEFINE k == [flash[op.bank] EXCEPT !.part[op.part] = Erased]
  <1>1. /\ op.step = "erasePart" /\ Flashed(k) /\ op' = [op EXCEPT !.step = "writePart"]
        /\ UNCHANGED <<scanned, sel, read, update, leases, told, mishaps>>
    BY DEF ErasePart, Then, selection
  <1>2. op # Idle /\ op \in PartOp /\ update # None /\ op.bank = update.bank /\ op.plan = update.plan
    BY <1>1, OpFacts DEF StoreInv, OpOK, OpeningStep, PartStep, Idle
  <1>3. k \in Cuts
    BY <1>1 DEF Cuts, Cut
  <1>4. k.commit = flash[op.bank].commit
    BY <1>2, TypedBanks DEF StoreInv, BankState, PartOp
  <1> HIDE DEF k
  <1>5. flash'[op.bank] = k
    BY <1>1, <1>2, <1>3, FlashAfter
  <1>6. /\ op' \in PartOp /\ op'.step = "writePart" /\ op'.bank = op.bank
        /\ op'.plan = op.plan /\ op'.part = op.part /\ op' # Idle
    BY <1>1, <1>2 DEF PartOp, PartStep, Idle
  <1>7. OpOK'
    BY <1>1, <1>2, <1>6 DEF OpOK, OpeningStep
  <1>8. StepReady'
    BY <1>1, <1>4, <1>5, <1>6 DEF StoreInv, StepReady, PartStep, Written
  <1>9. /\ update \in [bank : Bank, plan : Plan, done : SUBSET Part]
        /\ mishaps \in 0..MaxMishaps
    BY <1>2 DEF StoreInv, TypeOK
  <1> QED BY <1>1, <1>2, <1>3, <1>7, <1>8, <1>9, TransactionStep

LEMMA FinishPartKeeps ==
  ASSUME StoreInv, FinishPart
  PROVE  StoreInv'
  <1> DEFINE k == [flash[op.bank] EXCEPT !.part[op.part] = op.plan.bundle]
  <1>1. /\ op.step = "writePart" /\ Flashed(k) /\ op' = Idle
        /\ update' = [update EXCEPT !.done = update.done \cup {op.part}]
        /\ UNCHANGED <<scanned, sel, read, leases, told, mishaps>>
    BY DEF FinishPart, selection
  <1>2. op # Idle /\ op.part \in Part /\ update # None
    BY <1>1, OpFacts DEF StoreInv, OpOK, OpeningStep, PartStep, Idle
  <1>3. k \in Cuts
    BY <1>1 DEF Cuts, Cut
  <1> HIDE DEF k
  <1>4. op'.step = "idle"
    BY <1>1 DEF Idle
  <1>5. OpOK' /\ StepReady'
    BY <1>1, <1>4 DEF OpOK, StepReady, OpeningStep, PartStep
  <1>6. /\ update \in [bank : Bank, plan : Plan, done : SUBSET Part]
        /\ mishaps \in 0..MaxMishaps
    BY <1>2 DEF StoreInv, TypeOK
  <1>7. /\ update' \in [bank : Bank, plan : Plan, done : SUBSET Part]
        /\ update'.bank = update.bank /\ update'.plan = update.plan
        /\ update.done \subseteq update'.done
    BY <1>1, <1>2, <1>6
  <1> QED BY <1>1, <1>2, <1>3, <1>5, <1>6, <1>7, TransactionStep

LEMMA WriteBodyKeeps ==
  ASSUME StoreInv, WriteBody
  PROVE  StoreInv'
  <1> DEFINE old == flash[op.bank]
             c == Program(old.commit, op.plan, 2)
             k == [old EXCEPT !.commit = c]
  <1>1. /\ op.step = "writeBody" /\ Flashed(k) /\ op' = [op EXCEPT !.step = "writeMarker"]
        /\ UNCHANGED <<scanned, sel, read, update, leases, told, mishaps>>
    BY DEF WriteBody, Then, selection
  <1>2. op # Idle /\ op \in PlainOp /\ update # None /\ op.bank = update.bank /\ op.plan = update.plan
    BY <1>1, OpFacts DEF StoreInv, OpOK, OpeningStep, PartStep, Idle
  <1>3. k \in Cuts
    BY <1>1 DEF Cuts
  <1>4. old \in BankState
    BY <1>2, TypedBanks DEF StoreInv, PlainOp
  <1> HIDE DEF c
  <1>5. k.part = old.part
    BY <1>4 DEF BankState
  <1> HIDE DEF k
  <1>6. flash'[op.bank] = k
    BY <1>1, <1>2, <1>3, FlashAfter
  <1>7. /\ op' \in PlainOp /\ op'.step = "writeMarker" /\ op'.bank = op.bank
        /\ op'.plan = op.plan /\ op' # Idle
    BY <1>1, <1>2 DEF PlainOp, PlainStep, Idle
  <1>8. OpOK'
    BY <1>1, <1>2, <1>7 DEF OpOK, OpeningStep
  <1>9. Whole(old, op.plan) /\ old.part[0] = op.plan.bundle /\ Part \ {0} \subseteq update.done
    BY <1>1 DEF StoreInv, StepReady
  <1>10. StepReady'
    BY <1>1, <1>5, <1>6, <1>7, <1>9 DEF StepReady, PartStep, Whole
  <1>11. /\ update \in [bank : Bank, plan : Plan, done : SUBSET Part]
         /\ mishaps \in 0..MaxMishaps
    BY <1>2 DEF StoreInv, TypeOK
  <1> QED BY <1>1, <1>2, <1>3, <1>8, <1>10, <1>11, TransactionStep
\* A step that leaves nothing committed in its bank leaves the other bank's bundle
\* active, as the snapshot and the readers have it.
LEMMA BankGone ==
  ASSUME StoreInv, op # Idle, NEW k \in Cuts, Flashed(k), TypeOK', Committed(k) = None
  PROVE  /\ scanned => [sel EXCEPT ![op.bank] = None] = Strict'
         /\ scanned /\ sel[op.bank] = None => sel = Strict'
         /\ IsActive(read) => read = Active'
  <1> DEFINE o == Other(op.bank)
  <1>1. /\ Busy /\ BusyBank = op.bank /\ BusyPlan = op.plan /\ op.bank \in Bank
        /\ op.plan \in Plan /\ o \in Bank /\ o # op.bank
        /\ \A b \in Bank : b # op.bank => b = o
        /\ flash'[op.bank] = k /\ flash'[o] = flash[o]
    BY FlashAfter
  <1>2. SoundBank(k)
    BY CutIs
  <1>3. Successive'
    BY <1>1, <1>2, StaysSuccessive
  <1>4. /\ Strict' \in Plans /\ Consecutive(Strict')
        /\ Strict'[op.bank] = None /\ Strict'[o] = Committed(flash[o])
    BY <1>1, <1>3, TypedBanksNext DEF Successive
  <1>5. sel \in Plans /\ (scanned => sel[o] = Committed(flash[o]))
    BY <1>1 DEF StoreInv, TypeOK, Plans, SelectionKept
  <1> HIDE DEF o
  <1>6. /\ scanned => [sel EXCEPT ![op.bank] = None] = Strict'
        /\ scanned /\ sel[op.bank] = None => sel = Strict'
    BY <1>1, <1>4, <1>5 DEF Plans
  <1>7. ASSUME IsActive(read) PROVE read = Active'
    <2>1. /\ read \in Chosen /\ read.bank # op.bank /\ Committed(flash[read.bank]) = read.plan
      BY <1>1, <1>7 DEF StoreInv, ReadKept, TypeOK, IsActive
    <2>2. read.bank = o /\ read.plan \in Plan /\ read = At(read.bank, read.plan)
      BY <1>1, <2>1 DEF Chosen, At
    <2>3. Strict'[o] = read.plan /\ read.plan # None
      BY <1>4, <2>1, <2>2, PlanFacts
    <2>4. Select(Strict') = At(o, Strict'[o])
      BY <1>1, <1>4, <2>3, SelectDecided DEF o
    <2> QED BY <2>2, <2>3, <2>4 DEF Active
  <1> QED BY <1>6, <1>7

\* A step after which nothing is under way.
LEMMA StepEnds ==
  ASSUME StoreInv, op # Idle, NEW k \in Cuts, Flashed(k), TypeOK', op' = Idle, update' = None,
         told' = told \/ told' = ActivePlan', scanned' => sel' = Strict',
         IsActive(read') => read' = Active', leases' \in {leases, NoLeases}
  PROVE  StoreInv'
  <1>1. /\ Busy /\ BusyBank = op.bank /\ BusyPlan = op.plan
        /\ flash'[op.bank] = k /\ flash'[Other(op.bank)] = flash[Other(op.bank)]
    BY FlashAfter
  <1>2. SoundBank(k) /\ Committed(k) \in {None, Committed(flash[op.bank]), op.plan}
    BY CutIs
  <1> QED BY <1>1, <1>2, Ends

LEMMA EraseBankKeeps ==
  ASSUME StoreInv, EraseBank
  PROVE  StoreInv'
  <1>1. /\ op.step = "eraseBank" /\ Flashed(BlankBank) /\ scanned' = TRUE
        /\ sel' = [sel EXCEPT ![op.bank] = None] /\ read' = Unscanned /\ op' = Idle
        /\ UNCHANGED <<update, leases, told, mishaps>>
    BY DEF EraseBank
  <1>2. op # Idle /\ op.bank \in Bank /\ update = None /\ scanned
    BY <1>1, OpFacts DEF StoreInv, OpOK, OpeningStep, PartStep, Idle
  <1>3. BlankBank \in Cuts
    BY <1>1, SweptWhole DEF Cuts
  <1>4. flash' \in [Bank -> BankState]
    BY <1>1, <1>2, <1>3, FlashAfter
  <1>5. TypeOK'
    BY <1>1, <1>2, <1>4 DEF StoreInv, TypeOK, BankState
  <1>6. Committed(BlankBank) = None
    <2>1. BlankBank \in BankState
      BY <1>2, <1>3, CutIs
    <2>2. ~Written(BlankBank)
      BY DEF BlankBank, Written
    <2> QED BY <2>1, <2>2, CommittedIs
  <1>7. sel' = Strict'
    BY <1>1, <1>2, <1>3, <1>5, <1>6, BankGone
  <1>8. ~IsActive(read')
    BY <1>1 DEF IsActive
  <1> QED BY <1>1, <1>2, <1>3, <1>5, <1>7, <1>8, StepEnds

LEMMA EraseHeaderKeeps ==
  ASSUME StoreInv, EraseHeader
  PROVE  StoreInv'
  <1> DEFINE k == [flash[op.bank] EXCEPT !.header = Erased]
  <1>1. /\ op.step = "eraseHeader" /\ Flashed(k) /\ update' = None /\ op' = Idle
        /\ UNCHANGED <<scanned, sel, read, leases, told, mishaps>>
    BY DEF EraseHeader, selection
  <1>2. op # Idle /\ update # None
    BY <1>1, OpFacts DEF StoreInv, OpOK, OpeningStep, Idle
  <1>3. k \in Cuts
    BY <1>1 DEF Cuts, Cut
  <1> HIDE DEF k
  <1>4. flash' \in [Bank -> BankState] /\ Busy /\ BusyBank = op.bank
    BY <1>1, <1>2, <1>3, FlashAfter
  <1>5. TypeOK'
    BY <1>1, <1>4 DEF StoreInv, TypeOK, BankState
  <1>6. Committed(k) = None
    BY <1>1, <1>2, <1>3, CutIs
  <1>7. scanned => sel[op.bank] = None
    BY <1>2, <1>4 DEF StoreInv, SelectionKept
  <1>8. (scanned' => sel' = Strict') /\ (IsActive(read') => read' = Active')
    BY <1>1, <1>2, <1>3, <1>5, <1>6, <1>7, BankGone
  <1> QED BY <1>1, <1>2, <1>3, <1>5, <1>8, StepEnds

LEMMA WriteMarkerKeeps ==
  ASSUME StoreInv, WriteMarker
  PROVE  StoreInv'
  <1> DEFINE old == flash[op.bank]
             k == [old EXCEPT !.commit = Program(old.commit, op.plan, Complete)]
  <1>1. /\ op.step = "writeMarker" /\ Flashed(k) /\ op' = Idle
        /\ UNCHANGED <<leases, mishaps>>
    BY DEF WriteMarker
  <1>2. op # Idle /\ op.bank \in Bank /\ op.plan \in Plan /\ update # None
    BY <1>1, OpFacts DEF StoreInv, OpOK, OpeningStep, PartStep, Idle
  <1>3. k \in Cuts
    BY <1>1 DEF Cuts
  <1> HIDE DEF k
  <1>4. flash' \in [Bank -> BankState]
    BY <1>1, <1>2, <1>3, FlashAfter
  <1>5. CASE Active' = At(op.bank, op.plan)
    <2>1. /\ scanned' = TRUE /\ sel' = Strict' /\ read' = Active'
          /\ update' = None /\ told' = op.plan
      BY <1>5 DEF WriteMarker, Active
    <2>2. Active' \in Chosen /\ Active' # None /\ Active'.plan = op.plan
      BY <1>2, <1>5, SoundStoreSentinels DEF At, Chosen
    <2>3. Strict' \in Plans
      <3>1. \A b \in Bank : Committed(flash'[b]) \in Plan \cup {None}
        BY <1>4, CommittedIs
      <3> QED BY <3>1 DEF Strict, Plans
    <2>4. TypeOK'
      BY <1>1, <1>2, <1>4, <2>1, <2>2, <2>3 DEF StoreInv, TypeOK, BankState, Plans
    <2>5. told' = ActivePlan'
      BY <2>1, <2>2 DEF ActivePlan, PlanOf
    <2> QED BY <1>1, <1>2, <1>3, <2>1, <2>4, <2>5, StepEnds
  <1>6. CASE Active' # At(op.bank, op.plan)
    <2>1. UNCHANGED <<scanned, sel, read, update, told>>
      BY <1>6 DEF WriteMarker, Active, selection
    <2>2. op'.step = "idle"
      BY <1>1 DEF Idle
    <2>3. OpOK' /\ StepReady'
      BY <1>1, <2>2 DEF OpOK, StepReady, OpeningStep, PartStep
    <2>4. /\ update \in [bank : Bank, plan : Plan, done : SUBSET Part]
          /\ mishaps \in 0..MaxMishaps
      BY <1>2 DEF StoreInv, TypeOK
    <2> QED BY <1>1, <1>2, <1>3, <2>1, <2>3, <2>4, TransactionStep
  <1> QED BY <1>5, <1>6

-----------------------------------------------------------------------------
(* Failures.                                                               *)

LEMMA ForgetIs ==
  ASSUME Forget
  PROVE  scanned' = FALSE /\ sel' \in Plans /\ read' = Unscanned /\ ~IsActive(read')
  BY DEF Forget, NoBanks, Plans, IsActive

LEMMA MishapIs ==
  ASSUME StoreInv, Mishap
  PROVE  mishaps' \in 0..MaxMishaps
  BY SoundStoreAssumption DEF StoreInv, TypeOK, Mishap

LEMMA StepFailsKeeps ==
  ASSUME StoreInv, StepFails
  PROVE  StoreInv'
  <1>1. PICK k \in Cuts : Flashed(k)
    BY DEF StepFails
  <1>2. /\ op # Idle /\ op' = Idle /\ UNCHANGED <<update, leases, told>>
        /\ mishaps' \in 0..MaxMishaps
        /\ IF op.step \in {"eraseCommit", "eraseBank"} THEN Forget
           ELSE UNCHANGED <<scanned, sel, read>>
    BY MishapIs DEF StepFails, selection
  <1>3. flash' \in [Bank -> BankState] /\ Busy /\ BusyBank = op.bank
    BY <1>1, <1>2, FlashAfter
  <1>4. op'.step = "idle"
    BY <1>2 DEF Idle
  <1>5. CASE op.step \in {"eraseCommit", "eraseBank"}
    <2>1. Forget /\ update = None
      BY <1>2, <1>5 DEF StoreInv, OpOK, OpeningStep
    <2>2. scanned' = FALSE /\ sel' \in Plans /\ read' = Unscanned /\ ~IsActive(read')
      BY <2>1, ForgetIs
    <2>3. TypeOK'
      BY <1>2, <1>3, <2>2 DEF StoreInv, TypeOK, BankState, Plans
    <2> QED BY <1>1, <1>2, <2>1, <2>2, <2>3, StepEnds
  <1>6. CASE op.step \in {"eraseRest", "writeHeader"}
    <2>1. UNCHANGED <<scanned, sel, read>> /\ update = None
      BY <1>2, <1>6 DEF StoreInv, OpOK, OpeningStep
    <2>2. TypeOK'
      BY <1>2, <1>3, <2>1 DEF StoreInv, TypeOK, BankState
    <2>3. k.commit = Erased /\ k \in BankState
      BY <1>1, <1>2, <1>6, CutIs
    <2>4. Committed(k) = None
      BY <2>3, CommittedIs DEF Written
    <2>5. scanned => sel[op.bank] = None
      BY <1>3, <1>6 DEF StoreInv, SelectionKept
    <2>6. (scanned' => sel' = Strict') /\ (IsActive(read') => read' = Active')
      BY <1>1, <1>2, <2>1, <2>2, <2>4, <2>5, BankGone
    <2> QED BY <1>1, <1>2, <2>1, <2>2, <2>6, StepEnds
  <1>7. CASE op.step \notin OpeningStep
    <2>1. UNCHANGED <<scanned, sel, read>> /\ update # None
      BY <1>2, <1>7 DEF StoreInv, OpOK, OpeningStep
    <2>2. OpOK' /\ StepReady'
      BY <1>2, <1>4 DEF OpOK, StepReady, OpeningStep, PartStep
    <2>3. update \in [bank : Bank, plan : Plan, done : SUBSET Part]
      BY <2>1 DEF StoreInv, TypeOK
    <2> QED BY <1>1, <1>2, <2>1, <2>2, <2>3, TransactionStep
  <1> QED BY <1>5, <1>6, <1>7 DEF OpeningStep

LEMMA PowerLossKeeps ==
  ASSUME StoreInv, PowerLoss
  PROVE  StoreInv'
  <1>1. /\ Forget /\ update' = None /\ leases' = NoLeases /\ op' = Idle /\ UNCHANGED told
        /\ mishaps' \in 0..MaxMishaps
    BY MishapIs DEF PowerLoss
  <1>2. scanned' = FALSE /\ sel' \in Plans /\ read' = Unscanned /\ ~IsActive(read')
    BY <1>1, ForgetIs
  <1>3. ASSUME flash' \in [Bank -> BankState] PROVE TypeOK'
    BY <1>1, <1>2, <1>3 DEF StoreInv, TypeOK, BankState, Plans, NoLeases
  <1>4. CASE op = Idle /\ update = None
    BY <1>1, <1>4, ScanFailsIdle DEF PowerLoss
  <1>5. CASE op = Idle /\ update # None
    <2>1. flash' = flash /\ flash \in [Bank -> BankState]
      BY <1>5 DEF PowerLoss, StoreInv, TypeOK, BankState
    <2>2. TypeOK'
      BY <1>3, <2>1
    <2>3. Busy /\ BusyBank = update.bank /\ SoundBank(flash[update.bank])
      BY <1>5, BusyFacts, TransactionBank DEF StoreInv, Busy
    <2> QED BY <1>1, <1>2, <2>1, <2>2, <2>3, Ends
  <1>6. CASE op # Idle
    <2>1. PICK k \in Cuts : Flashed(k)
      BY <1>6 DEF PowerLoss
    <2>2. TypeOK'
      BY <1>3, <1>6, <2>1, FlashAfter
    <2> QED BY <1>1, <1>2, <1>6, <2>1, <2>2, StepEnds
  <1> QED BY <1>4, <1>5, <1>6

LEMMA ScanFailsKeeps ==
  ASSUME StoreInv, ScanFails
  PROVE  StoreInv'
  <1>1. op = Idle /\ Forget /\ UNCHANGED <<flash, update, leases, op, told>>
        /\ mishaps' \in 0..MaxMishaps
    BY MishapIs DEF ScanFails
  <1>2. CASE update = None
    BY <1>1, <1>2, ScanFailsIdle
  <1>3. CASE update # None
    BY <1>1, <1>3, ReadersKeep
  <1> QED BY <1>2, <1>3

-----------------------------------------------------------------------------
(* The theorems.                                                           *)

\* Every step of the store keeps the invariant.
LEMMA NextKeeps ==
  ASSUME StoreInv, [Next]_vars
  PROVE  StoreInv'
  <1>1. CASE UNCHANGED vars
    <2>1. UNCHANGED <<flash, scanned, sel, read, update, leases, op, told, mishaps>>
      BY <1>1 DEF vars, selection
    <2> QED
      BY <2>1 DEF StoreInv, TypeOK, OpOK, BanksSound, Successive, Strict, Staged, StepReady,
         Targeted, ToldKept, LeasesKept, ReadKept, SelectionKept, Busy, BusyBank, BusyPlan, Rest,
         ActivePlan, Active
  <1>2. CASE Scan
    BY <1>2, ScanKeeps
  <1>3. CASE \E p \in Plan, b \in Bank : Begin(p, b) \/ Discard(p, b)
    BY <1>3, BeginOrDiscardKeeps
  <1>4. CASE \E p \in Plan, b \in Bank : Resume(p, b)
    BY <1>4, ResumeKeeps
  <1>5. CASE \E i \in Part : WritePart(i)
    BY <1>5, WritePartKeeps
  <1>6. CASE Commit \/ CommitTooEarly \/ Abort \/ AbortCommitted \/ QueryCurrentActive
    BY <1>6, CommitKeeps, CommitTooEarlyKeeps, AbortKeeps, AbortCommittedKeeps, QueryKeeps
  <1>7. CASE \E l \in DOMAIN leases : Acquire(l) \/ Release(l)
    <2>1. DOMAIN leases = 1..MaxLeases
      BY DEF StoreInv, TypeOK
    <2>2. op = Idle
      BY <1>7 DEF Acquire, Release
    <2>3. CASE update = None
      BY <1>7, <2>1, <2>3, AcquireIdle, ReleaseIdle
    <2>4. CASE update # None
      BY <1>7, <2>1, <2>2, <2>4, ReadersKeep
    <2> QED BY <2>3, <2>4
  <1>8. CASE Step
    BY <1>8, EraseCommitKeeps, EraseRestKeeps, WriteHeaderKeeps, EraseBankKeeps, EraseHeaderKeeps,
       ErasePartKeeps, FinishPartKeeps, WriteBodyKeeps, WriteMarkerKeeps DEF Step
  <1>9. CASE StepFails \/ ScanFails \/ PowerLoss
    BY <1>9, StepFailsKeeps, ScanFailsKeeps, PowerLossKeeps
  <1>10. 0 \in Part
    BY SoundStoreAssumption DEF Part
  <1> QED
    BY <1>1, <1>2, <1>3, <1>4, <1>5, <1>6, <1>7, <1>8, <1>9, <1>10
       DEF Next, WriteManifest, WritePayloadBlock

\* Whatever calls, failures and power losses the store meets, its two banks, its
\* snapshot of them, its transaction and its leases stay consistent.
THEOREM StoreInvariance == Spec => []StoreInv
  <1>1. Init => StoreInv
    BY InitHolds
  <1>2. StoreInv /\ [Next]_vars => StoreInv'
    BY NextKeeps
  <1> QED BY <1>1, <1>2, PTL DEF Spec

\* A bundle a client was told is active (commit_update, query_current_active) is
\* what the flash by itself yields, or a later one is, at every moment.
THEOREM ToldDurable == Spec => []ToldIsDurable
  <1>1. StoreInv => ToldIsDurable
    <2> SUFFICES ASSUME StoreInv PROVE ToldIsDurable
      OBVIOUS
    <2>1. Active # Split /\ ActivePlan \in Plan \cup {None}
      BY ActiveFacts DEF StoreInv
    <2>2. /\ Strict \in Plans /\ Consecutive(Strict) /\ told \in Plan \cup {None}
          /\ \A b \in Bank : Strict[b] = Committed(flash[b])
      BY TypedBanks DEF StoreInv, Successive, TypeOK
    <2>3. Reaches(ActivePlan, told)
      <3>1. CASE Busy
        <4>1. Reaches(Rest, told) /\ Other(BusyBank) \in Bank
          BY <3>1, BusyFacts DEF StoreInv, ToldKept
        <4>2. Reaches(Strict[Other(BusyBank)], told)
          BY <2>2, <4>1 DEF Rest
        <4> QED BY <2>2, <4>1, <4>2, SelectReaches DEF ActivePlan, Active
      <3>2. CASE ~Busy
        BY <3>2 DEF StoreInv, ToldKept
      <3> QED BY <3>1, <3>2
    <2> QED BY <2>1, <2>3 DEF ToldIsDurable, Reaches, ActivePlan, PlanOf, Active
  <1> QED BY <1>1, StoreInvariance, PTL

\* What acquire_active_read hands out stays whole until release_read.
THEOREM LeasesWhole == Spec => []LeasesReadable
  <1>1. StoreInv => LeasesReadable
    BY DEF StoreInv, LeasesKept, LeasesReadable, TypeOK
  <1> QED BY <1>1, StoreInvariance, PTL

\* The snapshot of the banks that BEGIN, RESUME and RECOVER decide from is never
\* stale.
THEOREM SnapshotHonest == Spec => []SelectionHonest
  <1>1. StoreInv => SelectionHonest
    <2> SUFFICES ASSUME StoreInv PROVE SelectionHonest
      OBVIOUS
    <2>1. TypeOK
      BY DEF StoreInv
    <2>2. ASSUME scanned, NEW b \in Bank, sel[b] # None PROVE Committed(flash[b]) = sel[b]
      BY <2>2 DEF StoreInv, SelectionKept
    <2>3. ASSUME scanned, op = Idle, update = None PROVE sel = Strict
      BY <2>3, KnownIs DEF Known
    <2> QED BY <2>1, <2>2, <2>3 DEF SelectionHonest
  <1> QED BY <1>1, StoreInvariance, PTL
=============================================================================
