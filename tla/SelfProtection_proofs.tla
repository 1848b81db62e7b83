------------------------ MODULE SelfProtection_proofs ------------------------
(***************************************************************************)
(* What holds of self-protection for every size of the table and every set  *)
(* of regions, contents, registrars and checkers.                           *)
(***************************************************************************)
EXTENDS SelfProtection, FiniteSetTheorems, WellFoundedInduction, TLAPS

Types == {TypeOf[r] : r \in Regions}

\* The locals of the calls; a registration that hashes has a region to hash.
LocalsOK ==
  /\ reg_slot \in [Registrars -> Slot]
  /\ reg_region \in [Registrars -> Regions \cup {NoRegion}]
  /\ \A t \in Registrars : reg_pc[t] = "hash" => reg_region[t] \in Regions
  /\ only \in [Checkers -> Types \cup {"all"}]
  /\ data \in [Checkers -> Regions \cup {NoRegion}]
  /\ disturbed \in [Checkers -> BOOLEAN]

\* Whoever is inside the module holds a reference.
UsersInside ==
  users = 0 => /\ \A t \in Registrars : reg_pc[t] = "idle"
               /\ \A c \in Checkers : pc[c] = "idle"

\* A check reports at most one violation per slot.
ViolationsBySlot ==
  \A c \in Checkers :
    /\ pc[c] = "idle" => violations[c] = 0
    /\ pc[c] \in {"idle", "end"} => slot[c] = 0
    /\ pc[c] \in {"look", "read", "compare"} => violations[c] <= slot[c]

\* A slot that has hashed its own region holds the hash of what was there.
BaseIsHashed ==
  module = "live" => \A i \in Slot : base[i] # NoHash => integrity_checks[i].hash = Hash(base[i])

\* Only a slot in use has a hash of its own; a checker whose slot was left alone
\* has hashed that slot's region.
OwnRegion ==
  /\ \A i \in Slot : base[i] # NoHash => integrity_checks[i].address # NoRegion
  /\ \A c \in Checkers : pc[c] = "compare" /\ ~disturbed[c]
                            => data[c] = integrity_checks[slot[c]].address

IInv ==
  /\ TypeOK
  /\ LocalsOK
  /\ UsersInside
  /\ ViolationsBySlot
  /\ RefsFollowLock
  /\ SlotsAccounted
  /\ BaseIsHashed
  /\ OwnRegion

Claiming == {t \in Registrars : reg_pc[t] # "idle"}

LockingStep == EnableModuleLocking \/ DisableModuleLocking \/ UserComes \/ UserGoes \/ ExitSelfProtection
InitStep == \E l \in {"STANDARD", "HIGH"}, sha256 \in BOOLEAN : InitSelfProtection(l, sha256)
UnregisterStep == \E r \in Regions : Unregister(TypeOf[r])
CheckStep(c) ==
  \/ \E r \in Regions : CheckBegin(c, TypeOf[r])
  \/ CheckBegin(c, "all") \/ CheckEnd(c) \/ CheckSkip(c) \/ CheckLook(c) \/ CheckRead(c)
  \/ CheckReadFails(c) \/ CheckPass(c) \/ CheckFail(c)

LEMMA NextSplit ==
  Next <=> \/ InitStep \/ LockingStep \/ UnregisterStep
           \/ \E r \in Regions, c \in Contents : Write(r, c)
           \/ \E t \in Registrars : \/ \E r \in Regions : RegisterClaim(t, r)
                                    \/ RegisterHash(t) \/ RegisterHashFails(t) \/ RegisterCount(t)
           \/ \E c \in Checkers : CheckStep(c)
BY DEF Next, InitStep, LockingStep, UnregisterStep, CheckStep
-----------------------------------------------------------------------------
(***************************************************************************)
(* Slots.                                                                   *)
(***************************************************************************)
\* A set of naturals that is not empty has a least element.
LEMMA LeastExists ==
  ASSUME NEW T \in SUBSET Nat, T # {}
  PROVE  \E x \in T : \A y \in T : x <= y
<1> DEFINE R == {ss \in Nat \X Nat : ss[1] < ss[2]}
<1>1. IsWellFoundedOn(R, Nat)
  BY NatLessThanWellFounded DEF OpToRel
<1>2. \A x, y \in T : y < x => <<y, x>> \in R
  OBVIOUS
<1> HIDE DEF R
<1>3. PICK x \in T : \A y \in T : ~(<<y, x>> \in R)
  BY <1>1, WFMin
<1>4. \A y \in T : ~(y < x)
  BY <1>2, <1>3, Zenon
<1>5. \A y \in T : x <= y
  BY <1>4
<1>6. QED
  BY <1>5

\* The scan for the first slot of a set ends in the set.
LEMMA FirstSlot ==
  ASSUME NEW S \in SUBSET Slot, S # {}
  PROVE  (CHOOSE i \in S : \A j \in S : i <= j) \in S
<1>1. S \in SUBSET Nat
  BY SelfProtectionAssumption DEF Slot
<1>2. \E i \in S : \A j \in S : i <= j
  BY <1>1, LeastExists
<1>3. QED
  BY <1>2

LEMMA FiniteSlots ==
  /\ IsFiniteSet(Slot) /\ Cardinality(Slot) = MaxChecks
  /\ IsFiniteSet(Occupied) /\ Cardinality(Occupied) \in 0 .. MaxChecks
  /\ IsFiniteSet(Claiming) /\ Cardinality(Claiming) \in 0 .. Cardinality(Registrars)
  /\ Cardinality(Registrars) \in Nat
<1>1. IsFiniteSet(Slot) /\ Cardinality(Slot) = MaxChecks
  BY FS_Interval, SelfProtectionAssumption DEF Slot
<1>2. Occupied \in SUBSET Slot /\ Claiming \in SUBSET Registrars
  BY DEF Occupied, Claiming
<1>3. /\ IsFiniteSet(Occupied) /\ Cardinality(Occupied) <= Cardinality(Slot)
      /\ IsFiniteSet(Claiming) /\ Cardinality(Claiming) <= Cardinality(Registrars)
  BY <1>1, <1>2, FS_Subset, SelfProtectionAssumption
<1>4. /\ Cardinality(Occupied) \in Nat /\ Cardinality(Claiming) \in Nat
      /\ Cardinality(Registrars) \in Nat
  BY <1>3, FS_CardinalityType, SelfProtectionAssumption
<1>5. QED
  BY <1>1, <1>3, <1>4, SelfProtectionAssumption

\* The slot and the entry of a registration, of a hash, and of what unregister
\* finds first.
LEMMA ClaimedSlot ==
  ASSUME TypeOK, NEW t \in Registrars, NEW r \in Regions, RegisterClaim(t, r)
  PROVE  \E i \in Slot \ Occupied :
           /\ integrity_checks' = [integrity_checks EXCEPT ![i] =
                 [address |-> r, type |-> TypeOf[r], hash |-> integrity_checks[i].hash]]
           /\ reg_slot' = [reg_slot EXCEPT ![t] = i]
           /\ base' = [base EXCEPT ![i] = NoHash]
           /\ Disturb(i)
<1> DEFINE free == Slot \ Occupied
           i == CHOOSE i \in free : \A j \in free : i <= j
<1>1. i \in free
  <2>1. free \in SUBSET Slot /\ free # {}
    BY DEF RegisterClaim, Occupied
  <2> HIDE DEF free
  <2>2. QED
    BY <2>1, FirstSlot
<1>2. /\ integrity_checks' = [integrity_checks EXCEPT ![i] =
           [address |-> r, type |-> TypeOf[r], hash |-> integrity_checks[i].hash]]
      /\ reg_slot' = [reg_slot EXCEPT ![t] = i]
      /\ base' = [base EXCEPT ![i] = NoHash]
      /\ Disturb(i)
  BY DEF RegisterClaim
<1>3. QED
  BY <1>1, <1>2

LEMMA HashedSlot ==
  ASSUME TypeOK, LocalsOK, NEW t \in Registrars, RegisterHash(t)
  PROVE  \E i \in Slot, content \in Contents :
           /\ integrity_checks' = [integrity_checks EXCEPT ![i] =
                 [address |-> integrity_checks[i].address, type |-> integrity_checks[i].type,
                  hash |-> Hash(content)]]
           /\ \E b \in {content, NoHash} :
                /\ base' = [base EXCEPT ![i] = b]
                /\ b # NoHash => integrity_checks[i].address \in Regions
           /\ Disturb(i)
<1> DEFINE i == reg_slot[t]
           content == memory[reg_region[t]]
<1>1. i \in Slot /\ content \in Contents /\ reg_region[t] \in Regions
  BY DEF TypeOK, LocalsOK, RegisterHash
<1>2. /\ integrity_checks' = [integrity_checks EXCEPT ![i] =
           [address |-> integrity_checks[i].address, type |-> integrity_checks[i].type,
            hash |-> Hash(content)]]
      /\ \E b \in {content, NoHash} :
           /\ base' = [base EXCEPT ![i] = b]
           /\ b # NoHash => integrity_checks[i].address \in Regions
      /\ Disturb(i)
  BY <1>1 DEF RegisterHash
<1> HIDE DEF i, content
<1>3. QED
  BY <1>1, <1>2

LEMMA UnregisteredSlot ==
  ASSUME NEW type, Unregister(type)
  PROVE  \E i \in Occupied : /\ integrity_checks' = [integrity_checks EXCEPT ![i] = Empty]
                             /\ base' = [base EXCEPT ![i] = NoHash]
                             /\ Disturb(i)
<1> DEFINE mine == {i \in Occupied : integrity_checks[i].type = type}
           i == CHOOSE i \in mine : \A j \in mine : i <= j
<1>1. i \in mine
  <2>1. mine \in SUBSET Slot /\ mine # {}
    BY DEF Unregister, Occupied
  <2> HIDE DEF mine
  <2>2. QED
    BY <2>1, FirstSlot
<1>2. /\ integrity_checks' = [integrity_checks EXCEPT ![i] = Empty]
      /\ base' = [base EXCEPT ![i] = NoHash]
      /\ Disturb(i)
  BY DEF Unregister
<1>3. QED
  BY <1>1, <1>2
-----------------------------------------------------------------------------
(***************************************************************************)
(* The table.                                                               *)
(***************************************************************************)
LEMMA InitIInv == Init => IInv
<1> SUFFICES ASSUME Init
             PROVE  IInv
  OBVIOUS
<1> DEFINE first == Content0
<1>1. first \in Contents
  BY SelfProtectionAssumption DEF Content0
<1>2. memory = [r \in Regions |-> first]
  BY DEF Init
<1> HIDE DEF first
<1>3. memory \in [Regions -> Contents]
  BY <1>1, <1>2
<1>4. Occupied = {} /\ Claiming = {}
  BY DEF Init, Occupied, Claiming, Empty
<1>5. SlotsAccounted
  <2>1. integrity_check_count = 0
    BY DEF Init
  <2>2. QED
    BY <1>4, <2>1, FS_EmptySet DEF SlotsAccounted, Claiming
<1>6. 0 \in Slot /\ Cardinality(Registrars) \in Nat /\ MaxChecks \in Nat
  BY FiniteSlots, SelfProtectionAssumption DEF Slot
<1>7. integrity_checks \in [Slot -> Entry] /\ base \in [Slot -> Contents \cup {NoHash}]
  BY DEF Init, Entry, Empty
<1>8. /\ integrity_check_count \in -Cardinality(Registrars) .. MaxChecks
      /\ violations \in [Checkers -> 0 .. MaxChecks] /\ slot \in [Checkers -> Slot]
  BY <1>6 DEF Init
<1>9. LocalsOK
  BY <1>6 DEF Init, LocalsOK
<1>10. TypeOK
  <2>1. /\ reg_pc \in [Registrars -> {"idle", "hash", "count"}]
        /\ pc \in [Checkers -> {"idle", "look", "read", "compare", "end"}]
        /\ seen \in [Checkers -> Contents \cup {NoHash}]
    BY DEF Init
  <2>2. module \in {"absent", "live"} /\ refs \in 0 .. 2 /\ users \in 0 .. 1
    BY DEF Init
  <2>3. module_locked \in BOOLEAN /\ crypto \in BOOLEAN
    BY Zenon DEF Init
  <2>4. QED
    BY <1>3, <1>7, <1>8, <1>9, <2>1, <2>2, <2>3 DEF TypeOK, LocalsOK, Types
<1>11. UsersInside /\ ViolationsBySlot /\ RefsFollowLock /\ BaseIsHashed /\ OwnRegion
  BY DEF Init, UsersInside, ViolationsBySlot, RefsFollowLock, BaseIsHashed, OwnRegion
<1>12. QED
  BY <1>5, <1>9, <1>10, <1>11 DEF IInv

\* Nobody is inside while the module is absent.
LEMMA AbsentIsEmpty ==
  ASSUME IInv, module = "absent"
  PROVE  users = 0 /\ Claiming = {} /\ \A c \in Checkers : pc[c] = "idle"
BY DEF IInv, RefsFollowLock, UsersInside, Claiming, TypeOK

LEMMA SlotsAccountedStep == IInv /\ [Next]_vars => SlotsAccounted'
<1> SUFFICES ASSUME IInv, [Next]_vars
             PROVE  SlotsAccounted'
  OBVIOUS
<1>0. /\ TypeOK /\ LocalsOK
      /\ integrity_check_count = Cardinality(Occupied) - Cardinality(Claiming)
      /\ Cardinality(Occupied) \in Nat /\ Cardinality(Claiming) \in Nat
  BY FiniteSlots, SelfProtectionAssumption DEF IInv, SlotsAccounted, Claiming
<1> SUFFICES integrity_check_count' = Cardinality(Occupied') - Cardinality(Claiming')
  BY DEF SlotsAccounted, Claiming
<1>1. ASSUME UNCHANGED integrity_check_count, Occupied' = Occupied, Claiming' = Claiming
      PROVE  integrity_check_count' = Cardinality(Occupied') - Cardinality(Claiming')
  BY <1>0, <1>1
<1>2. CASE InitStep
  <2>1. Occupied' = {} /\ Claiming' = Claiming /\ integrity_check_count' = 0
    BY <1>2 DEF InitStep, InitSelfProtection, Occupied, Empty, Claiming, reg
  <2>2. Claiming = {}
    BY <1>2, AbsentIsEmpty DEF InitStep, InitSelfProtection
  <2>3. QED
    BY <2>1, <2>2, FS_EmptySet
<1>3. ASSUME NEW t \in Registrars, NEW r \in Regions, RegisterClaim(t, r)
      PROVE  integrity_check_count' = Cardinality(Occupied') - Cardinality(Claiming')
  <2>1. PICK i \in Slot \ Occupied : integrity_checks' = [integrity_checks EXCEPT ![i] =
          [address |-> r, type |-> TypeOf[r], hash |-> integrity_checks[i].hash]]
    BY <1>0, <1>3, ClaimedSlot
  <2>2. Occupied' = Occupied \cup {i}
    BY <1>0, <2>1, SelfProtectionAssumption DEF Occupied, TypeOK
  <2>3. Claiming' = Claiming \cup {t} /\ t \notin Claiming
    BY <1>0, <1>3 DEF Claiming, RegisterClaim, TypeOK
  <2>4. /\ Cardinality(Occupied') = Cardinality(Occupied) + 1
        /\ Cardinality(Claiming') = Cardinality(Claiming) + 1
    BY <2>1, <2>2, <2>3, FiniteSlots, FS_AddElement
  <2>5. QED
    BY <1>0, <1>3, <2>4 DEF RegisterClaim
<1>4. ASSUME NEW t \in Registrars, RegisterHash(t)
      PROVE  integrity_check_count' = Cardinality(Occupied') - Cardinality(Claiming')
  <2>1. PICK i \in Slot, content \in Contents : integrity_checks' = [integrity_checks EXCEPT ![i] =
          [address |-> integrity_checks[i].address, type |-> integrity_checks[i].type,
           hash |-> Hash(content)]]
    BY <1>0, <1>4, HashedSlot
  <2>2. Occupied' = Occupied
    BY <1>0, <2>1 DEF Occupied, TypeOK
  <2>3. Claiming' = Claiming
    BY <1>0, <1>4 DEF Claiming, RegisterHash, Hashed, TypeOK
  <2>4. QED
    BY <1>1, <1>4, <2>2, <2>3 DEF RegisterHash
<1>5. ASSUME NEW t \in Registrars, RegisterHashFails(t)
      PROVE  integrity_check_count' = Cardinality(Occupied') - Cardinality(Claiming')
  BY <1>0, <1>1, <1>5 DEF RegisterHashFails, Hashed, table, Occupied, Claiming, TypeOK
<1>6. ASSUME NEW t \in Registrars, RegisterCount(t)
      PROVE  integrity_check_count' = Cardinality(Occupied') - Cardinality(Claiming')
  <2>1. Claiming' = Claiming \ {t} /\ t \in Claiming /\ Occupied' = Occupied
    BY <1>0, <1>6 DEF Claiming, RegisterCount, Occupied, TypeOK
  <2>2. Cardinality(Claiming') = Cardinality(Claiming) - 1
    BY <2>1, FiniteSlots, FS_RemoveElement
  <2>3. QED
    BY <1>0, <1>6, <2>1, <2>2 DEF RegisterCount
<1>7. ASSUME NEW r \in Regions, Unregister(TypeOf[r])
      PROVE  integrity_check_count' = Cardinality(Occupied') - Cardinality(Claiming')
  <2>1. PICK i \in Occupied : integrity_checks' = [integrity_checks EXCEPT ![i] = Empty]
    BY <1>7, UnregisteredSlot
  <2>2. Occupied' = Occupied \ {i}
    BY <1>0, <2>1 DEF Occupied, TypeOK, Empty
  <2>3. Claiming' = Claiming /\ integrity_check_count' = integrity_check_count - 1
    BY <1>7 DEF Claiming, Unregister, reg
  <2>4. Cardinality(Occupied') = Cardinality(Occupied) - 1
    BY <2>1, <2>2, FiniteSlots, FS_RemoveElement
  <2>5. QED
    BY <1>0, <2>3, <2>4
<1>8. CASE LockingStep \/ (\E r \in Regions, c \in Contents : Write(r, c)) \/ UNCHANGED vars
  BY <1>1, <1>8 DEF LockingStep, EnableModuleLocking, DisableModuleLocking, UserComes, UserGoes,
                    ExitSelfProtection, LockingOnly, Write, vars, table, reg, Occupied, Claiming
<1>9. ASSUME NEW c \in Checkers, CheckStep(c)
      PROVE  integrity_check_count' = Cardinality(Occupied') - Cardinality(Claiming')
  <2>1. UNCHANGED <<table, reg>>
    BY <1>9 DEF CheckStep, CheckBegin, CheckEnd, CheckSkip, CheckLook, CheckRead, CheckReadFails,
                CheckPass, CheckFail, Violation, Leave, CheckOnly
  <2>2. QED
    BY <1>1, <2>1 DEF table, reg, Occupied, Claiming
<1>10. QED
  BY <1>2, <1>3, <1>4, <1>5, <1>6, <1>7, <1>8, <1>9, NextSplit DEF UnregisterStep

LEMMA RefsFollowLockStep == IInv /\ [Next]_vars => (RefsFollowLock /\ UsersInside)'
<1> SUFFICES ASSUME IInv, [Next]_vars
             PROVE  (RefsFollowLock /\ UsersInside)'
  OBVIOUS
<1>0. TypeOK /\ RefsFollowLock /\ UsersInside
  BY DEF IInv
<1> USE <1>0 DEF RefsFollowLock, UsersInside
<1>1. CASE InitStep
  BY <1>1 DEF InitStep, InitSelfProtection, TypeOK, reg, check
<1>2. CASE LockingStep
  BY <1>2 DEF LockingStep, EnableModuleLocking, DisableModuleLocking, UserComes, UserGoes,
              ExitSelfProtection, LockingOnly, TypeOK, reg, check
<1>3. ASSUME NEW t \in Registrars,
             \/ \E r \in Regions : RegisterClaim(t, r)
             \/ RegisterHash(t) \/ RegisterHashFails(t) \/ RegisterCount(t)
      PROVE  (RefsFollowLock /\ UsersInside)'
  <2>1. UNCHANGED locking
    BY <1>3 DEF RegisterClaim, RegisterHash, RegisterHashFails, RegisterCount
  <2>2. users > 0 \/ reg_pc[t] # "idle"
    BY <1>3 DEF RegisterClaim, RegisterHash, RegisterHashFails, RegisterCount
  <2>3. QED
    BY <2>1, <2>2 DEF locking
<1>4. ASSUME NEW c \in Checkers, CheckStep(c)
      PROVE  (RefsFollowLock /\ UsersInside)'
  <2>1. users # 0 /\ UNCHANGED locking
    BY <1>4 DEF CheckStep, CheckBegin, CheckEnd, CheckSkip, CheckLook, CheckRead, CheckReadFails,
                CheckPass, CheckFail, Violation, Leave, CheckOnly, TypeOK
  <2>2. QED
    BY <2>1 DEF locking
<1>5. CASE UnregisterStep \/ (\E r \in Regions, c \in Contents : Write(r, c)) \/ UNCHANGED vars
  BY <1>5 DEF UnregisterStep, Unregister, Write, vars, locking, reg, check
<1>6. QED
  BY <1>1, <1>2, <1>3, <1>4, <1>5, NextSplit

LEMMA BaseIsHashedStep == IInv /\ [Next]_vars => BaseIsHashed'
<1> SUFFICES ASSUME IInv, [Next]_vars
             PROVE  BaseIsHashed'
  OBVIOUS
<1>0. TypeOK /\ LocalsOK /\ BaseIsHashed
  BY DEF IInv
<1>1. ASSUME UNCHANGED <<module, crypto, integrity_checks, base>>
      PROVE  BaseIsHashed'
  BY <1>0, <1>1 DEF BaseIsHashed, Hash
<1>2. CASE InitStep
  BY <1>2 DEF InitStep, InitSelfProtection, BaseIsHashed
<1>3. ASSUME NEW t \in Registrars, NEW r \in Regions, RegisterClaim(t, r)
      PROVE  BaseIsHashed'
  <2>1. PICK i \in Slot \ Occupied :
          /\ integrity_checks' = [integrity_checks EXCEPT ![i] =
               [address |-> r, type |-> TypeOf[r], hash |-> integrity_checks[i].hash]]
          /\ base' = [base EXCEPT ![i] = NoHash]
    BY <1>0, <1>3, ClaimedSlot
  <2>2. module' = module /\ crypto' = crypto
    BY <1>3 DEF RegisterClaim, locking
  <2>3. \A j \in Slot : j # i => base'[j] = base[j] /\ integrity_checks'[j] = integrity_checks[j]
    BY <1>0, <2>1 DEF TypeOK
  <2>4. base'[i] = NoHash
    BY <1>0, <2>1 DEF TypeOK
  <2>5. QED
    BY <1>0, <2>2, <2>3, <2>4 DEF BaseIsHashed, Hash
<1>4. ASSUME NEW t \in Registrars, RegisterHash(t)
      PROVE  BaseIsHashed'
  <2>1. PICK i \in Slot, content \in Contents :
          /\ integrity_checks' = [integrity_checks EXCEPT ![i] =
               [address |-> integrity_checks[i].address, type |-> integrity_checks[i].type,
                hash |-> Hash(content)]]
          /\ \E b \in {content, NoHash} : base' = [base EXCEPT ![i] = b]
    BY <1>0, <1>4, HashedSlot
  <2>2. module' = module /\ crypto' = crypto
    BY <1>4 DEF RegisterHash, locking
  <2>3. \A j \in Slot : j # i => base'[j] = base[j] /\ integrity_checks'[j] = integrity_checks[j]
    BY <1>0, <2>1 DEF TypeOK
  <2>4. base'[i] # NoHash => base'[i] = content
    BY <1>0, <2>1 DEF TypeOK
  <2>5. integrity_checks'[i].hash = Hash(content)
    BY <1>0, <2>1 DEF TypeOK
  <2>6. QED
    BY <1>0, <2>2, <2>3, <2>4, <2>5 DEF BaseIsHashed, Hash
<1>5. ASSUME NEW r \in Regions, Unregister(TypeOf[r])
      PROVE  BaseIsHashed'
  <2>1. PICK i \in Occupied : /\ integrity_checks' = [integrity_checks EXCEPT ![i] = Empty]
                              /\ base' = [base EXCEPT ![i] = NoHash]
    BY <1>5, UnregisteredSlot
  <2>2. module' = module /\ crypto' = crypto
    BY <1>5 DEF Unregister, locking
  <2>3. \A j \in Slot : j # i => base'[j] = base[j] /\ integrity_checks'[j] = integrity_checks[j]
    BY <1>0, <2>1 DEF TypeOK
  <2>4. i \in Slot => base'[i] = NoHash
    BY <1>0, <2>1 DEF TypeOK
  <2>5. QED
    BY <1>0, <2>2, <2>3, <2>4 DEF BaseIsHashed, Hash
<1>6. CASE LockingStep
  <2>1. \/ module' = "absent"
        \/ UNCHANGED <<module, crypto, integrity_checks, base>>
    BY <1>6 DEF LockingStep, EnableModuleLocking, DisableModuleLocking, UserComes, UserGoes,
                ExitSelfProtection, LockingOnly, table, history
  <2>2. QED
    BY <1>1, <2>1 DEF BaseIsHashed
<1>7. ASSUME NEW t \in Registrars, RegisterHashFails(t) \/ RegisterCount(t)
      PROVE  BaseIsHashed'
  BY <1>1, <1>7 DEF RegisterHashFails, RegisterCount, locking, table, history
<1>8. ASSUME NEW c \in Checkers, CheckStep(c)
      PROVE  BaseIsHashed'
  <2>1. CheckOnly
    BY <1>8 DEF CheckStep, CheckBegin, CheckEnd, CheckSkip, CheckLook, CheckRead, CheckReadFails,
                CheckPass, CheckFail, Violation, Leave
  <2>2. QED
    BY <1>1, <2>1 DEF CheckOnly, locking, table
<1>9. CASE (\E r \in Regions, c \in Contents : Write(r, c)) \/ UNCHANGED vars
  BY <1>1, <1>9 DEF Write, vars, locking, table, history
<1>10. QED
  BY <1>2, <1>3, <1>4, <1>5, <1>6, <1>7, <1>8, <1>9, NextSplit DEF UnregisterStep

\* A check has left behind one slot for each violation it found.
LEMMA ViolationsBySlotStep == IInv /\ [Next]_vars => ViolationsBySlot'
<1> SUFFICES ASSUME IInv, [Next]_vars
             PROVE  ViolationsBySlot'
  OBVIOUS
<1>0. TypeOK /\ ViolationsBySlot /\ MaxChecks \in Nat \ {0}
  BY SelfProtectionAssumption DEF IInv
<1>1. CASE UNCHANGED <<pc, slot, violations>>
  BY <1>0, <1>1 DEF ViolationsBySlot
<1>2. ASSUME NEW c \in Checkers, CheckStep(c)
      PROVE  ViolationsBySlot'
  <2>1. \A d \in Checkers : d # c => UNCHANGED <<pc[d], slot[d], violations[d]>>
    BY <1>0, <1>2 DEF TypeOK, CheckStep, CheckBegin, CheckEnd, CheckSkip, CheckLook, CheckRead,
                      CheckReadFails, CheckPass, CheckFail, Violation, Leave
  <2>2. /\ slot[c] \in Nat /\ violations[c] \in Nat
        /\ pc[c] \in {"idle", "look", "read", "compare", "end"}
    BY <1>0 DEF TypeOK, Slot
  <2>3. /\ pc'[c] = "idle" => violations'[c] = 0
        /\ pc'[c] \in {"idle", "end"} => slot'[c] = 0
        /\ pc'[c] \in {"look", "read", "compare"} => violations'[c] <= slot'[c]
    <3>1. CASE \/ \E r \in Regions : CheckBegin(c, TypeOf[r])
               \/ CheckBegin(c, "all") \/ CheckEnd(c) \/ CheckLook(c) \/ CheckRead(c)
      BY <1>0, <2>2, <3>1 DEF TypeOK, ViolationsBySlot, CheckBegin, CheckEnd, CheckLook, CheckRead
    <3>2. CASE CheckSkip(c) \/ CheckPass(c)
      <4>1. PICK last \in BOOLEAN : Leave(c, last)
        BY <3>2 DEF CheckSkip, CheckPass
      <4>2. pc[c] \in {"look", "compare"} /\ violations' = violations
        BY <3>2 DEF CheckSkip, CheckPass
      <4>3. pc'[c] = (IF last THEN "end" ELSE "look") /\ slot'[c] = (IF last THEN 0 ELSE slot[c] + 1)
        BY <1>0, <4>1 DEF Leave, TypeOK
      <4>4. violations[c] <= slot[c] /\ violations[c] \in Nat /\ slot[c] \in Nat
        <5>1. violations[c] <= slot[c]
          BY <1>0, <4>2 DEF ViolationsBySlot
        <5>2. QED
          BY <2>2, <5>1
      <4>5. CASE last
        BY <4>3, <4>5
      <4>6. CASE ~last
        <5>1. pc'[c] = "look" /\ slot'[c] = slot[c] + 1 /\ violations'[c] = violations[c]
          BY <4>2, <4>3, <4>6
        <5>2. QED
          BY <4>4, <5>1
      <4>7. QED
        BY <4>5, <4>6
    <3>3. CASE CheckReadFails(c) \/ CheckFail(c)
      <4>1. PICK last \in BOOLEAN : Leave(c, last)
        BY <3>3 DEF CheckReadFails, CheckFail, Violation
      <4>2. pc[c] \in {"read", "compare"} /\ violations'[c] = violations[c] + 1
        BY <1>0, <3>3 DEF CheckReadFails, CheckFail, Violation, TypeOK
      <4>3. pc'[c] = (IF last THEN "end" ELSE "look") /\ slot'[c] = (IF last THEN 0 ELSE slot[c] + 1)
        BY <1>0, <4>1 DEF Leave, TypeOK
      <4>4. violations[c] <= slot[c] /\ violations[c] \in Nat /\ slot[c] \in Nat
        <5>1. violations[c] <= slot[c]
          BY <1>0, <4>2 DEF ViolationsBySlot
        <5>2. QED
          BY <2>2, <5>1
      <4>5. CASE last
        BY <4>3, <4>5
      <4>6. CASE ~last
        <5>1. pc'[c] = "look" /\ slot'[c] = slot[c] + 1 /\ violations'[c] = violations[c] + 1
          BY <4>2, <4>3, <4>6
        <5>2. QED
          BY <4>4, <5>1
      <4>7. QED
        BY <4>5, <4>6
    <3>4. QED
      BY <1>2, <3>1, <3>2, <3>3 DEF CheckStep
  <2>4. QED
    BY <1>0, <2>1, <2>3 DEF ViolationsBySlot
<1>3. CASE InitStep \/ LockingStep \/ UnregisterStep \/ (\E r \in Regions, c \in Contents : Write(r, c))
  BY <1>1, <1>3 DEF InitStep, LockingStep, UnregisterStep, InitSelfProtection, EnableModuleLocking,
                    DisableModuleLocking, UserComes, UserGoes, ExitSelfProtection, LockingOnly, Write,
                    Unregister, check
<1>4. ASSUME NEW t \in Registrars,
             \/ \E r \in Regions : RegisterClaim(t, r)
             \/ RegisterHash(t) \/ RegisterHashFails(t) \/ RegisterCount(t)
      PROVE  ViolationsBySlot'
  BY <1>1, <1>4 DEF RegisterClaim, RegisterHash, RegisterHashFails, RegisterCount, check
<1>5. QED
  BY <1>1, <1>2, <1>3, <1>4, NextSplit DEF vars, check

\* Whoever changes a slot disturbs the checkers at it.
LEMMA OwnRegionStep == IInv /\ [Next]_vars => OwnRegion'
<1> SUFFICES ASSUME IInv, [Next]_vars
             PROVE  OwnRegion'
  OBVIOUS
<1>0. TypeOK /\ LocalsOK /\ OwnRegion /\ UsersInside /\ RefsFollowLock /\ NoRegion \notin Regions
  BY SelfProtectionAssumption DEF IInv
<1>1. ASSUME UNCHANGED <<integrity_checks, base, check, disturbed>>
      PROVE  OwnRegion'
  BY <1>0, <1>1 DEF OwnRegion, check
<1>2. ASSUME NEW i \in Slot, Disturb(i), UNCHANGED check,
             \A j \in Slot \ {i} : base'[j] = base[j] /\ integrity_checks'[j] = integrity_checks[j],
             base'[i] # NoHash => integrity_checks'[i].address # NoRegion
      PROVE  OwnRegion'
  <2>1. \A j \in Slot : base'[j] # NoHash => integrity_checks'[j].address # NoRegion
    BY <1>0, <1>2 DEF OwnRegion
  <2>2. ASSUME NEW c \in Checkers, pc'[c] = "compare", ~disturbed'[c]
        PROVE  data'[c] = integrity_checks'[slot'[c]].address
    <3>1. pc[c] = "compare" /\ ~disturbed[c] /\ slot[c] \in Slot \ {i}
      BY <1>0, <1>2, <2>2 DEF TypeOK, Disturb, AtSlot, check
    <3>2. QED
      BY <1>0, <1>2, <3>1 DEF OwnRegion, check
  <2>3. QED
    BY <2>1, <2>2 DEF OwnRegion
<1>3. CASE InitStep
  <2>1. /\ \A c \in Checkers : pc'[c] = "idle"
        /\ base' = [j \in Slot |-> NoHash]
    BY <1>0, <1>3 DEF InitStep, InitSelfProtection, UsersInside, RefsFollowLock, check, TypeOK
  <2>2. QED
    BY <2>1 DEF OwnRegion
<1>4. ASSUME NEW t \in Registrars, NEW r \in Regions, RegisterClaim(t, r)
      PROVE  OwnRegion'
  <2>1. PICK i \in Slot \ Occupied :
          /\ integrity_checks' = [integrity_checks EXCEPT ![i] =
               [address |-> r, type |-> TypeOf[r], hash |-> integrity_checks[i].hash]]
          /\ base' = [base EXCEPT ![i] = NoHash]
          /\ Disturb(i)
    BY <1>0, <1>4, ClaimedSlot
  <2>2. base'[i] = NoHash /\ UNCHANGED check
    BY <1>0, <1>4, <2>1 DEF TypeOK, RegisterClaim
  <2>3. \A j \in Slot \ {i} : base'[j] = base[j] /\ integrity_checks'[j] = integrity_checks[j]
    BY <1>0, <2>1 DEF TypeOK
  <2>4. QED
    BY <1>2, <2>1, <2>2, <2>3
<1>5. ASSUME NEW t \in Registrars, RegisterHash(t)
      PROVE  OwnRegion'
  <2>1. PICK i \in Slot, content \in Contents :
          /\ integrity_checks' = [integrity_checks EXCEPT ![i] =
               [address |-> integrity_checks[i].address, type |-> integrity_checks[i].type,
                hash |-> Hash(content)]]
          /\ \E b \in {content, NoHash} :
               /\ base' = [base EXCEPT ![i] = b]
               /\ b # NoHash => integrity_checks[i].address \in Regions
          /\ Disturb(i)
    BY <1>0, <1>5, HashedSlot
  <2>2. base'[i] # NoHash => integrity_checks[i].address \in Regions
    BY <1>0, <2>1 DEF TypeOK
  <2>3. integrity_checks'[i].address = integrity_checks[i].address /\ UNCHANGED check
    BY <1>0, <1>5, <2>1 DEF TypeOK, RegisterHash
  <2>4. \A j \in Slot \ {i} : base'[j] = base[j] /\ integrity_checks'[j] = integrity_checks[j]
    BY <1>0, <2>1 DEF TypeOK
  <2>5. QED
    BY <1>0, <1>2, <2>1, <2>2, <2>3, <2>4
<1>6. ASSUME NEW r \in Regions, Unregister(TypeOf[r])
      PROVE  OwnRegion'
  <2>1. PICK i \in Occupied : /\ integrity_checks' = [integrity_checks EXCEPT ![i] = Empty]
                              /\ base' = [base EXCEPT ![i] = NoHash]
                              /\ Disturb(i)
    BY <1>6, UnregisteredSlot
  <2>2. i \in Slot /\ UNCHANGED check
    BY <1>6, <2>1 DEF Occupied, Unregister
  <2>3. base'[i] = NoHash
    BY <1>0, <2>1, <2>2 DEF TypeOK
  <2>4. \A j \in Slot \ {i} : base'[j] = base[j] /\ integrity_checks'[j] = integrity_checks[j]
    BY <1>0, <2>1 DEF TypeOK
  <2>5. QED
    BY <1>2, <2>1, <2>2, <2>3, <2>4
<1>7. ASSUME NEW c \in Checkers, CheckStep(c)
      PROVE  OwnRegion'
  <2>1. UNCHANGED <<integrity_checks, base>>
    BY <1>7 DEF CheckStep, CheckBegin, CheckEnd, CheckSkip, CheckLook, CheckRead, CheckReadFails,
                CheckPass, CheckFail, Violation, Leave, CheckOnly, table
  <2>2. \A d \in Checkers \ {c} : UNCHANGED <<pc[d], slot[d], data[d], disturbed[d]>>
    BY <1>0, <1>7 DEF TypeOK, CheckStep, CheckBegin, CheckEnd, CheckSkip, CheckLook, CheckRead,
                CheckReadFails, CheckPass, CheckFail, Violation, Leave
  <2>3. pc'[c] = "compare" => data'[c] = integrity_checks[slot'[c]].address
    <3>1. CASE CheckRead(c)
      BY <1>0, <3>1 DEF TypeOK, CheckRead
    <3>2. CASE ~CheckRead(c)
      BY <1>0, <1>7, <3>2 DEF TypeOK, CheckStep, CheckBegin, CheckEnd, CheckSkip, CheckLook,
                CheckReadFails, CheckPass, CheckFail, Violation, Leave
    <3>3. QED
      BY <3>1, <3>2
  <2>4. QED
    BY <1>0, <2>1, <2>2, <2>3 DEF OwnRegion
<1>8. CASE \/ LockingStep \/ (\E r \in Regions, c \in Contents : Write(r, c)) \/ UNCHANGED vars
           \/ \E t \in Registrars : RegisterHashFails(t) \/ RegisterCount(t)
  BY <1>1, <1>8 DEF LockingStep, EnableModuleLocking, DisableModuleLocking, UserComes, UserGoes,
                ExitSelfProtection, LockingOnly, Write, RegisterHashFails, RegisterCount, vars,
                table, history
<1>9. QED
  BY <1>3, <1>4, <1>5, <1>6, <1>7, <1>8, NextSplit DEF UnregisterStep

LEMMA LocalsOKStep == IInv /\ [Next]_vars => LocalsOK'
<1> SUFFICES ASSUME IInv, [Next]_vars
             PROVE  LocalsOK'
  OBVIOUS
<1>0. /\ TypeOK /\ LocalsOK /\ 0 \in Slot
      /\ NoRegion \notin Regions
  BY SelfProtectionAssumption DEF IInv, Slot
<1>1. CASE UNCHANGED <<reg, only, data, disturbed>>
  BY <1>0, <1>1 DEF LocalsOK, reg
<1>2. ASSUME NEW t \in Registrars, NEW r \in Regions, RegisterClaim(t, r)
      PROVE  LocalsOK'
  <2>1. PICK i \in Slot \ Occupied : reg_slot' = [reg_slot EXCEPT ![t] = i]
    BY <1>0, <1>2, ClaimedSlot
  <2>2. reg_slot' \in [Registrars -> Slot] /\ disturbed' \in [Checkers -> BOOLEAN]
    BY <1>0, <1>2, <2>1 DEF LocalsOK, RegisterClaim, Disturb
  <2>3. /\ reg_region' \in [Registrars -> Regions \cup {NoRegion}]
        /\ \A u \in Registrars : reg_pc'[u] = "hash" => reg_region'[u] \in Regions
    BY <1>0, <1>2 DEF LocalsOK, RegisterClaim, TypeOK
  <2>4. UNCHANGED <<only, data>>
    BY <1>2 DEF RegisterClaim, check
  <2>5. QED
    BY <1>0, <2>2, <2>3, <2>4 DEF LocalsOK
<1>3. ASSUME NEW t \in Registrars, RegisterHash(t) \/ RegisterHashFails(t)
      PROVE  LocalsOK'
  <2>1. Hashed(t) /\ disturbed' \in [Checkers -> BOOLEAN] /\ UNCHANGED <<only, data>>
    BY <1>0, <1>3 DEF LocalsOK, RegisterHash, RegisterHashFails, Disturb, history, check
  <2>2. QED
    BY <1>0, <2>1 DEF LocalsOK, Hashed, TypeOK
<1>4. ASSUME NEW t \in Registrars, RegisterCount(t)
      PROVE  LocalsOK'
  BY <1>0, <1>4 DEF LocalsOK, RegisterCount, TypeOK, history, check
<1>5. ASSUME NEW r \in Regions, Unregister(TypeOf[r])
      PROVE  LocalsOK'
  BY <1>0, <1>5 DEF LocalsOK, Unregister, Disturb, reg, check
<1>6. ASSUME NEW c \in Checkers, CheckStep(c)
      PROVE  LocalsOK'
  <2>1. disturbed' \in [Checkers -> BOOLEAN] /\ UNCHANGED reg
    BY <1>0, <1>6 DEF LocalsOK, CheckStep, CheckBegin, CheckEnd, CheckSkip, CheckLook, CheckRead,
                      CheckReadFails, CheckPass, CheckFail, Violation, Leave, CheckOnly
  <2>2. only' \in [Checkers -> Types \cup {"all"}]
    BY <1>0, <1>6 DEF LocalsOK, Types, CheckStep, CheckBegin, CheckEnd, CheckSkip, CheckLook,
                      CheckRead, CheckReadFails, CheckPass, CheckFail, Violation, Leave
  <2>3. data' \in [Checkers -> Regions \cup {NoRegion}]
    <3>1. CASE CheckRead(c)
      BY <1>0, <3>1 DEF LocalsOK, CheckRead, TypeOK, Entry
    <3>2. CASE ~CheckRead(c)
      BY <1>0, <1>6, <3>2 DEF LocalsOK, CheckStep, CheckBegin, CheckEnd, CheckSkip, CheckLook,
                      CheckReadFails, CheckPass, CheckFail, Violation, Leave
    <3>3. QED
      BY <3>1, <3>2
  <2>4. QED
    BY <1>0, <2>1, <2>2, <2>3 DEF LocalsOK, reg
<1>7. CASE InitStep \/ LockingStep \/ (\E r \in Regions, c \in Contents : Write(r, c)) \/ UNCHANGED vars
  BY <1>1, <1>7 DEF InitStep, LockingStep, InitSelfProtection, EnableModuleLocking, history, vars,
                    DisableModuleLocking, UserComes, UserGoes, ExitSelfProtection, LockingOnly, Write, check
<1>8. QED
  BY <1>2, <1>3, <1>4, <1>5, <1>6, <1>7, NextSplit DEF UnregisterStep

\* The count's bounds follow from what it counts.
CountInBounds == integrity_check_count \in -Cardinality(Registrars) .. MaxChecks

LEMMA CountBounds == SlotsAccounted => CountInBounds
BY FiniteSlots, SelfProtectionAssumption DEF SlotsAccounted, Claiming, CountInBounds

LEMMA CountBoundsStep == IInv /\ [Next]_vars => CountInBounds'
<1>1. IInv /\ [Next]_vars => SlotsAccounted'
  BY SlotsAccountedStep
<1>2. SlotsAccounted' => CountInBounds'
  BY CountBounds, PTL
<1>3. QED
  BY <1>1, <1>2

LEMMA TypeOKStep == IInv /\ [Next]_vars => TypeOK'
<1> SUFFICES ASSUME IInv, [Next]_vars
             PROVE  TypeOK'
  OBVIOUS
<1>0. /\ TypeOK /\ LocalsOK /\ RefsFollowLock /\ ViolationsBySlot /\ 0 \in Slot
      /\ MaxChecks \in Nat \ {0} /\ Slot \subseteq Nat
  BY SelfProtectionAssumption DEF IInv, Slot
<1> DEFINE
     LockingOK == /\ module \in {"absent", "live"}
                  /\ module_locked \in BOOLEAN /\ crypto \in BOOLEAN
                  /\ refs \in 0 .. 2 /\ users \in 0 .. 1
     TableOK == integrity_checks \in [Slot -> Entry] /\ base \in [Slot -> Contents \cup {NoHash}]
     MemoryOK == memory \in [Regions -> Contents]
     RegOK == reg_pc \in [Registrars -> {"idle", "hash", "count"}]
     CheckOK == /\ pc \in [Checkers -> {"idle", "look", "read", "compare", "end"}]
                /\ slot \in [Checkers -> Slot]
                /\ seen \in [Checkers -> Contents \cup {NoHash}]
                /\ violations \in [Checkers -> 0 .. MaxChecks]
<1>1. CountInBounds' /\ LocalsOK'
  BY CountBoundsStep, LocalsOKStep
<1>2. LockingOK /\ TableOK /\ MemoryOK /\ RegOK /\ CheckOK
  BY <1>0 DEF TypeOK
<1>3. SUFFICES LockingOK' /\ TableOK' /\ MemoryOK' /\ RegOK' /\ CheckOK'
  BY <1>1 DEF TypeOK, CountInBounds, LocalsOK, Types
<1>4. /\ UNCHANGED locking => LockingOK'
      /\ UNCHANGED <<integrity_checks, base>> => TableOK'
      /\ UNCHANGED memory => MemoryOK'
      /\ UNCHANGED reg_pc => RegOK'
      /\ UNCHANGED <<pc, slot, seen, violations>> => CheckOK'
  BY <1>2 DEF locking
<1>5. CASE InitStep
  <2>1. PICK l \in {"STANDARD", "HIGH"}, sha256 \in BOOLEAN : InitSelfProtection(l, sha256)
    BY <1>5 DEF InitStep
  <2>2. LockingOK'
    BY <2>1 DEF InitSelfProtection
  <2>3. TableOK'
    BY <2>1 DEF InitSelfProtection, Empty, Entry
  <2>4. UNCHANGED <<memory, reg_pc, pc, slot, seen, violations>>
    BY <2>1 DEF InitSelfProtection, reg, check
  <2>5. QED
    BY <1>4, <2>2, <2>3, <2>4
<1>6. CASE LockingStep
  <2>1. UNCHANGED <<memory, integrity_checks, base, reg_pc, pc, slot, seen, violations>>
    BY <1>6 DEF LockingStep, EnableModuleLocking, DisableModuleLocking, UserComes, UserGoes,
                ExitSelfProtection, LockingOnly, table, reg, check, history
  <2>2. module' \in {"absent", "live"} /\ refs' \in 0 .. 2 /\ users' \in 0 .. 1
    <3>1. CASE EnableModuleLocking \/ UserComes
      BY <1>0, <1>2, <3>1 DEF EnableModuleLocking, UserComes, RefsFollowLock
    <3>2. CASE DisableModuleLocking \/ UserGoes \/ ExitSelfProtection
      BY <1>0, <1>2, <3>2 DEF DisableModuleLocking, UserGoes, ExitSelfProtection, RefsFollowLock
    <3>3. QED
      BY <1>6, <3>1, <3>2 DEF LockingStep
  <2>3. module_locked' \in BOOLEAN /\ crypto' \in BOOLEAN
    BY <1>2, <1>6, Zenon DEF LockingStep, EnableModuleLocking, DisableModuleLocking, UserComes,
                UserGoes, ExitSelfProtection
  <2>4. QED
    BY <1>4, <2>1, <2>2, <2>3
<1>7. ASSUME NEW r \in Regions, NEW c \in Contents, Write(r, c)
      PROVE  LockingOK' /\ TableOK' /\ MemoryOK' /\ RegOK' /\ CheckOK'
  <2>1. MemoryOK'
    BY <1>2, <1>7 DEF Write
  <2>2. UNCHANGED <<locking, integrity_checks, base, reg_pc, pc, slot, seen, violations>>
    BY <1>7 DEF Write, table, history, reg, check
  <2>3. QED
    BY <1>4, <2>1, <2>2
<1>8. ASSUME NEW t \in Registrars, NEW r \in Regions, RegisterClaim(t, r)
      PROVE  LockingOK' /\ TableOK' /\ MemoryOK' /\ RegOK' /\ CheckOK'
  <2>1. PICK i \in Slot \ Occupied :
          /\ integrity_checks' = [integrity_checks EXCEPT ![i] =
               [address |-> r, type |-> TypeOf[r], hash |-> integrity_checks[i].hash]]
          /\ base' = [base EXCEPT ![i] = NoHash]
    BY <1>0, <1>8, ClaimedSlot
  <2>2. [address |-> r, type |-> TypeOf[r], hash |-> integrity_checks[i].hash] \in Entry
    BY <1>2, <2>1 DEF Entry
  <2>3. TableOK'
    BY <1>2, <2>1, <2>2
  <2>4. RegOK'
    BY <1>2, <1>8 DEF RegisterClaim
  <2>5. UNCHANGED <<locking, memory, pc, slot, seen, violations>>
    BY <1>8 DEF RegisterClaim, check
  <2>6. QED
    BY <1>4, <2>3, <2>4, <2>5
<1>9. ASSUME NEW t \in Registrars, RegisterHash(t)
      PROVE  LockingOK' /\ TableOK' /\ MemoryOK' /\ RegOK' /\ CheckOK'
  <2>1. PICK i \in Slot, content \in Contents :
          /\ integrity_checks' = [integrity_checks EXCEPT ![i] =
               [address |-> integrity_checks[i].address, type |-> integrity_checks[i].type,
                hash |-> Hash(content)]]
          /\ \E b \in {content, NoHash} : base' = [base EXCEPT ![i] = b]
    BY <1>0, <1>9, HashedSlot
  <2>2. [address |-> integrity_checks[i].address, type |-> integrity_checks[i].type,
         hash |-> Hash(content)] \in Entry
    BY <1>2, <2>1 DEF Entry, Hash
  <2>3. TableOK'
    BY <1>2, <2>1, <2>2
  <2>4. RegOK'
    BY <1>2, <1>9 DEF RegisterHash, Hashed
  <2>5. UNCHANGED <<locking, memory, pc, slot, seen, violations>>
    BY <1>9 DEF RegisterHash, check
  <2>6. QED
    BY <1>4, <2>3, <2>4, <2>5
<1>10. ASSUME NEW t \in Registrars, RegisterHashFails(t) \/ RegisterCount(t)
       PROVE  LockingOK' /\ TableOK' /\ MemoryOK' /\ RegOK' /\ CheckOK'
  <2>1. RegOK'
    BY <1>2, <1>10 DEF RegisterHashFails, RegisterCount, Hashed
  <2>2. UNCHANGED <<locking, memory, integrity_checks, base, pc, slot, seen, violations>>
    BY <1>10 DEF RegisterHashFails, RegisterCount, table, history, check
  <2>3. QED
    BY <1>4, <2>1, <2>2
<1>11. ASSUME NEW r \in Regions, Unregister(TypeOf[r])
       PROVE  LockingOK' /\ TableOK' /\ MemoryOK' /\ RegOK' /\ CheckOK'
  <2>1. PICK i \in Occupied : /\ integrity_checks' = [integrity_checks EXCEPT ![i] = Empty]
                              /\ base' = [base EXCEPT ![i] = NoHash]
    BY <1>11, UnregisteredSlot
  <2>2. Empty \in Entry
    BY DEF Empty, Entry
  <2>3. TableOK'
    BY <1>2, <2>1, <2>2
  <2>4. UNCHANGED <<locking, memory, reg_pc, pc, slot, seen, violations>>
    BY <1>11 DEF Unregister, reg, check
  <2>5. QED
    BY <1>4, <2>3, <2>4
<1>12. ASSUME NEW c \in Checkers, CheckStep(c)
       PROVE  LockingOK' /\ TableOK' /\ MemoryOK' /\ RegOK' /\ CheckOK'
  <2>1. CheckOnly
    BY <1>12 DEF CheckStep, CheckBegin, CheckEnd, CheckSkip, CheckLook, CheckRead, CheckReadFails,
                 CheckPass, CheckFail, Violation, Leave
  <2>2. /\ pc' \in [Checkers -> {"idle", "look", "read", "compare", "end"}]
        /\ seen' \in [Checkers -> Contents \cup {NoHash}]
    <3>1. CASE CheckRead(c)
      <4>1. data'[c] \in Regions
        BY <1>0, <1>2, <3>1 DEF CheckRead, Entry, LocalsOK
      <4>2. QED
        BY <1>2, <3>1, <4>1 DEF CheckRead
    <3>2. CASE ~CheckRead(c)
      BY <1>2, <1>12, <3>2 DEF CheckStep, CheckBegin, CheckEnd, CheckSkip, CheckLook, CheckReadFails,
                 CheckPass, CheckFail, Violation, Leave
    <3>3. QED
      BY <3>1, <3>2
  <2>3. slot' \in [Checkers -> Slot]
    <3>1. CASE UNCHANGED slot
      BY <1>2, <3>1
    <3>2. ASSUME NEW last \in BOOLEAN, Leave(c, last), slot[c] = MaxChecks - 1 => last
          PROVE  slot' \in [Checkers -> Slot]
      <4>1. slot[c] \in Slot /\ (slot[c] # MaxChecks - 1 => slot[c] + 1 \in Slot)
        BY <1>0, <1>2 DEF Slot
      <4>2. PICK n \in Slot : slot' = [slot EXCEPT ![c] = n]
        BY <1>0, <3>2, <4>1 DEF Leave
      <4>3. QED
        BY <1>2, <4>2
    <3>3. QED
      BY <1>12, <3>1, <3>2 DEF CheckStep, CheckBegin, CheckEnd, CheckSkip, CheckLook, CheckRead,
                 CheckReadFails, CheckPass, CheckFail, Violation
  <2>4. violations' \in [Checkers -> 0 .. MaxChecks]
    <3>1. CASE UNCHANGED violations
      BY <1>2, <3>1
    <3>2. CASE violations' = [violations EXCEPT ![c] = 0]
      BY <1>0, <1>2, <3>2
    <3>3. CASE Violation(c) /\ pc[c] \in {"read", "compare"}
      <4>1. violations[c] <= slot[c] /\ slot[c] \in 0 .. MaxChecks - 1 /\ violations[c] \in 0 .. MaxChecks
        BY <1>0, <1>2, <3>3 DEF ViolationsBySlot, Slot
      <4>2. violations[c] + 1 \in 0 .. MaxChecks
        BY <1>0, <4>1
      <4>3. QED
        BY <1>2, <3>3, <4>2 DEF Violation
    <3>4. QED
      BY <1>12, <3>1, <3>2, <3>3 DEF CheckStep, CheckBegin, CheckEnd, CheckSkip, CheckLook, CheckRead,
                 CheckReadFails, CheckPass, CheckFail
  <2>5. QED
    BY <1>4, <2>1, <2>2, <2>3, <2>4 DEF CheckOnly, table, reg
<1>13. CASE UNCHANGED vars
  BY <1>4, <1>13 DEF vars, table, history, reg, check
<1>14. QED
  BY <1>5, <1>6, <1>7, <1>8, <1>9, <1>10, <1>11, <1>12, <1>13, NextSplit DEF UnregisterStep
-----------------------------------------------------------------------------
(***************************************************************************)
(* The theorems.                                                            *)
(***************************************************************************)
\* The strengthening that carries them is an invariant of the module.
THEOREM Invariance == Spec => []IInv
<1>1. IInv /\ [Next]_vars => IInv'
  BY TypeOKStep, LocalsOKStep, RefsFollowLockStep, ViolationsBySlotStep, SlotsAccountedStep,
     BaseIsHashedStep, OwnRegionStep DEF IInv
<1>2. QED
  BY InitIInv, <1>1, PTL DEF Spec

\* Every variable keeps its type; the count of checks stays in the bounds that
\* the registrations in progress give it (self_protection.c:217-260).
THEOREM TypeCorrect == Spec => []TypeOK
<1>1. IInv => TypeOK
  BY DEF IInv
<1>2. QED
  BY Invariance, <1>1, PTL

\* The count is the slots in use less the registrations that have not counted
\* theirs, for every size of the table and every number of registrars
\* (self_protection.c:217-240, 253-260).
THEOREM CountAccounted == Spec => []SlotsAccounted
<1>1. IInv => SlotsAccounted
  BY DEF IInv
<1>2. QED
  BY Invariance, <1>1, PTL

\* Locking takes one reference on the module and gives it back once
\* (self_protection.c:60-62, 72-78, 117-144).
THEOREM LockIsOneReference == Spec => []RefsFollowLock
<1>1. IInv => RefsFollowLock
  BY DEF IInv
<1>2. QED
  BY Invariance, <1>1, PTL

\* A check of a slot that nobody touches meanwhile, and that has a hash of its
\* own, counts a violation only of that slot's region when its content differs
\* from what was hashed, or with SHA-256 for lack of memory; with SHA-256 it
\* counts every difference it has hashed (self_protection.c:176-203, 264-315).
THEOREM Verdict == Spec => VerdictIsRight
<1>1. ASSUME IInv, [Next]_vars, NEW c \in Checkers, ~disturbed[c], base[slot[c]] # NoHash
      PROVE  LET i == slot[c]
                 reported == violations'[c] > violations[c]
             IN /\ reported =>
                     \/ /\ pc[c] = "compare"
                        /\ data[c] = integrity_checks[i].address /\ seen[c] # base[i]
                     \/ pc[c] = "read" /\ crypto
                /\ pc[c] = "compare" /\ pc'[c] # "compare" /\ crypto /\ seen[c] # base[i]
                     => reported
  <2>0. /\ TypeOK /\ BaseIsHashed /\ UsersInside /\ RefsFollowLock /\ OwnRegion
        /\ slot[c] \in Slot /\ violations[c] \in Nat
    BY <1>1 DEF IInv, TypeOK
  <2>1. ASSUME CheckReadFails(c)
        PROVE  pc[c] = "read" /\ crypto
    BY <1>1, <2>0, <2>1 DEF CheckReadFails, OwnRegion
  <2>2. ASSUME pc[c] = "compare"
        PROVE  /\ data[c] = integrity_checks[slot[c]].address
               /\ integrity_checks[slot[c]].hash = Hash(base[slot[c]])
    BY <1>1, <2>0, <2>2 DEF OwnRegion, TypeOK, BaseIsHashed, UsersInside, RefsFollowLock
  <2>3. ASSUME CheckFail(c)
        PROVE  /\ pc[c] = "compare" /\ data[c] = integrity_checks[slot[c]].address
               /\ seen[c] # base[slot[c]] /\ violations'[c] > violations[c]
    BY <2>0, <2>2, <2>3 DEF CheckFail, Violation, Matches, Hash, TypeOK
  <2>4. ASSUME CheckPass(c)
        PROVE  /\ ~(violations'[c] > violations[c])
               /\ ~(crypto /\ seen[c] # base[slot[c]])
    BY <2>0, <2>2, <2>4 DEF CheckPass, Matches, Hash, TypeOK
  <2>5. ASSUME ~CheckReadFails(c), ~CheckPass(c), ~CheckFail(c)
        PROVE  /\ ~(violations'[c] > violations[c])
               /\ pc[c] = "compare" => pc'[c] = "compare"
    <3>1. CASE UNCHANGED <<pc, violations>>
      BY <2>0, <3>1
    <3>2. ASSUME NEW d \in Checkers, d # c, CheckStep(d)
          PROVE  UNCHANGED <<pc[c], violations[c]>>
      BY <2>0, <3>2 DEF TypeOK, CheckStep, CheckBegin, CheckEnd, CheckSkip, CheckLook, CheckRead,
                 CheckReadFails, CheckPass, CheckFail, Violation, Leave
    <3>3. CASE CheckStep(c)
      <4>1. CASE CheckEnd(c)
        BY <2>0, <4>1 DEF CheckEnd, TypeOK
      <4>2. CASE ~CheckEnd(c)
        BY <2>0, <2>5, <3>3, <4>2 DEF CheckStep, CheckBegin, CheckSkip, CheckLook, CheckRead
      <4>3. QED
        BY <4>1, <4>2
    <3>4. CASE ~\E d \in Checkers : CheckStep(d)
      <4>1. UNCHANGED check
        BY <1>1, <3>4, NextSplit DEF InitStep, LockingStep, UnregisterStep, InitSelfProtection,
                   EnableModuleLocking, DisableModuleLocking, UserComes, UserGoes, ExitSelfProtection,
                   LockingOnly, Write, Unregister, RegisterClaim, RegisterHash, RegisterHashFails,
                   RegisterCount, vars
      <4>2. QED
        BY <3>1, <4>1 DEF check
    <3>5. QED
      BY <2>0, <3>2, <3>3, <3>4
  <2>6. QED
    BY <2>1, <2>2, <2>3, <2>4, <2>5 DEF CheckReadFails
<1>2. IInv /\ [Next]_vars =>
        [\A c \in Checkers :
           LET i == slot[c]
               reported == violations'[c] > violations[c]
           IN  ~disturbed[c] /\ base[i] # NoHash =>
                 /\ reported =>
                      \/ /\ pc[c] = "compare"
                         /\ data[c] = integrity_checks[i].address /\ seen[c] # base[i]
                      \/ pc[c] = "read" /\ crypto
                 /\ pc[c] = "compare" /\ pc'[c] # "compare" /\ crypto /\ seen[c] # base[i]
                      => reported]_vars
  BY <1>1
<1>3. QED
  BY Invariance, <1>2, PTL DEF Spec, VerdictIsRight
=============================================================================
