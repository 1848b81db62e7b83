--------------------------- MODULE SelfProtection ---------------------------
(***************************************************************************)
(* src/src/core/self_protection.c: the integrity checks and the locking of  *)
(* the module.  register_integrity_check claims a slot under the lock but   *)
(* hashes outside it, and the checks read the slots without any lock.       *)
(* Everything but init and exit is called by other modules, which hold a    *)
(* reference to this one.                                                   *)
(*                                                                          *)
(* A region's content stands for its bytes; Sum is their sum, all that the  *)
(* fallback without SHA-256 looks at.                                       *)
(***************************************************************************)
EXTENDS Integers, FiniteSets

CONSTANTS
  MaxChecks,      \* MAX_INTEGRITY_CHECKS
  Regions,        \* the addresses that are checked
  TypeOf,         \* the integrity_check_type_t each is registered with
  Contents, Sum,  \* what a region may contain, and the sum of its bytes
  Registrars, Checkers

Slot == 0 .. MaxChecks - 1
NoHash == -1
NoRegion == "none"

ASSUME SelfProtectionAssumption ==
  /\ MaxChecks \in Nat \ {0}
  /\ Contents \subseteq Nat /\ Contents # {} /\ Sum \in [Contents -> Nat]
  /\ NoRegion \notin Regions
  /\ IsFiniteSet(Registrars)

VARIABLES
  module, module_locked, refs, users,
  crypto,       \* hash_tfm is there
  memory,       \* content of each region
  integrity_checks, integrity_check_count,
  reg_pc, reg_slot, reg_region,        \* register_integrity_check
  pc, slot, only, violations,          \* the checks
  data, seen,                          \* the region looked at, and its content
  base,         \* history: what a slot's region contained, if the hash is its own
  disturbed     \* history: the slot a checker is at changed meanwhile

locking == <<module, module_locked, refs, users, crypto>>
table   == <<integrity_checks, integrity_check_count>>
reg     == <<reg_pc, reg_slot, reg_region>>
check   == <<pc, slot, only, data, seen, violations>>
history == <<base, disturbed>>
vars == <<locking, memory, table, reg, check, history>>

Empty == [address |-> NoRegion, type |-> "0", hash |-> NoHash]
Content0 == CHOOSE c \in Contents : TRUE

Hash(c) == IF crypto THEN c ELSE Sum[c]

Init ==
  /\ module = "absent" /\ module_locked = FALSE
  /\ refs = 0 /\ users = 0 /\ crypto = FALSE
  /\ memory = [r \in Regions |-> Content0]
  /\ integrity_checks = [i \in Slot |-> Empty] /\ integrity_check_count = 0
  /\ reg_pc = [t \in Registrars |-> "idle"]
  /\ reg_slot = [t \in Registrars |-> 0]
  /\ reg_region = [t \in Registrars |-> NoRegion]
  /\ pc = [c \in Checkers |-> "idle"]
  /\ slot = [c \in Checkers |-> 0]
  /\ only = [c \in Checkers |-> "all"]
  /\ data = [c \in Checkers |-> NoRegion]
  /\ seen = [c \in Checkers |-> NoHash]
  /\ violations = [c \in Checkers |-> 0]
  /\ base = [i \in Slot |-> NoHash]
  /\ disturbed = [c \in Checkers |-> FALSE]

Occupied == {i \in Slot : integrity_checks[i].address # NoRegion}
AtSlot(i) == {c \in Checkers : pc[c] \in {"read", "compare"} /\ slot[c] = i}

-----------------------------------------------------------------------------
(***************************************************************************)
(* The module, its locking and its users.                                   *)
(***************************************************************************)
LockingOnly == UNCHANGED <<memory, table, reg, check, history>>

\* Mutant: the flag is not looked at.
EnableModuleLockingAgain ==
  /\ module = "live" /\ users > 0
  /\ refs' = refs + 1 /\ module_locked' = TRUE
  /\ UNCHANGED <<module, users, crypto>> /\ LockingOnly

EnableModuleLocking ==
  /\ module = "live" /\ users > 0 /\ ~module_locked
  /\ refs' = refs + 1 /\ module_locked' = TRUE
  /\ UNCHANGED <<module, users, crypto>> /\ LockingOnly

DisableModuleLocking ==
  /\ module = "live" /\ users > 0 /\ module_locked
  /\ refs' = refs - 1 /\ module_locked' = FALSE
  /\ UNCHANGED <<module, users, crypto>> /\ LockingOnly

\* root_shield_init asks for STANDARD; from HIGH on the module locks itself.
\* (The level is read again only by block_tampering_attempt, to kill or not.)
InitSelfProtection(l, sha256) ==
  /\ module = "absent"
  /\ module' = "live" /\ crypto' = sha256
  /\ module_locked' = (l \in {"HIGH", "MAXIMUM"})
  /\ refs' = IF module_locked' THEN 1 ELSE 0
  /\ users' = 0
  /\ integrity_checks' = [i \in Slot |-> Empty] /\ integrity_check_count' = 0
  /\ base' = [i \in Slot |-> NoHash]
  /\ UNCHANGED <<memory, reg, check, disturbed>>

UserComes ==
  /\ module = "live" /\ users = 0
  /\ users' = users + 1 /\ refs' = refs + 1
  /\ UNCHANGED <<module, module_locked, crypto>> /\ LockingOnly

UserGoes ==
  /\ users = 1
  /\ \A t \in Registrars : reg_pc[t] = "idle"
  /\ \A c \in Checkers : pc[c] = "idle"
  /\ users' = users - 1 /\ refs' = refs - 1
  /\ UNCHANGED <<module, module_locked, crypto>> /\ LockingOnly

\* rmmod is refused while there are references; exit_self_protection unlocks.
ExitSelfProtection ==
  /\ module = "live" /\ refs = 0
  /\ module' = "absent"
  /\ refs' = IF module_locked THEN refs - 1 ELSE refs
  /\ module_locked' = FALSE /\ crypto' = FALSE
  /\ UNCHANGED users /\ LockingOnly

\* A rootkit, or a legitimate writer, changes what is checked.
Write(r, c) ==
  /\ memory' = [memory EXCEPT ![r] = c]
  /\ UNCHANGED <<locking, table, reg, check, history>>

-----------------------------------------------------------------------------
(***************************************************************************)
(* register_integrity_check and unregister_integrity_check.                 *)
(***************************************************************************)
Disturb(i) == disturbed' = [c \in Checkers |-> disturbed[c] \/ c \in AtSlot(i)]

\* The slot is visible from here on; what it held before is left as hash.
RegisterClaim(t, r) ==
  /\ users > 0 /\ reg_pc[t] = "idle"
  /\ integrity_check_count < MaxChecks /\ Occupied # Slot
  /\ LET i == CHOOSE i \in Slot \ Occupied : \A j \in Slot \ Occupied : i <= j IN
       /\ integrity_checks' = [integrity_checks EXCEPT ![i] =
             [address |-> r, type |-> TypeOf[r], hash |-> @.hash]]
       /\ reg_slot' = [reg_slot EXCEPT ![t] = i]
       /\ base' = [base EXCEPT ![i] = NoHash]
       /\ Disturb(i)
  /\ reg_pc' = [reg_pc EXCEPT ![t] = "hash"]
  /\ reg_region' = [reg_region EXCEPT ![t] = r]
  /\ UNCHANGED <<locking, memory, integrity_check_count, check>>

\* Slot and region are not used again.
Hashed(t) ==
  /\ reg_pc' = [reg_pc EXCEPT ![t] = "count"]
  /\ reg_slot' = [reg_slot EXCEPT ![t] = 0]
  /\ reg_region' = [reg_region EXCEPT ![t] = NoRegion]

\* Mutant: the entry is looked for again, as the last one counted.
RegisterHashAtCount(t) ==
  /\ reg_pc[t] = "hash" /\ integrity_check_count \in Slot
  /\ LET content == memory[reg_region[t]] IN
       /\ integrity_checks' = [integrity_checks EXCEPT ![integrity_check_count].hash = Hash(content)]
       /\ base' = [base EXCEPT ![reg_slot[t]] = content]
       /\ Disturb(reg_slot[t])
  /\ Hashed(t)
  /\ UNCHANGED <<locking, memory, integrity_check_count, check>>

\* Outside the lock, into whatever the slot is by now.
RegisterHash(t) ==
  /\ reg_pc[t] = "hash"
  /\ LET i == reg_slot[t]  content == memory[reg_region[t]] IN
       /\ integrity_checks' = [integrity_checks EXCEPT ![i] =
             [address |-> @.address, type |-> @.type, hash |-> Hash(content)]]
       /\ base' = [base EXCEPT ![i] =
             IF integrity_checks[i].address = reg_region[t] THEN content ELSE NoHash]
       /\ Disturb(i)
  /\ Hashed(t)
  /\ UNCHANGED <<locking, memory, integrity_check_count, check>>

\* No memory for the digest: the result is ignored, the slot keeps its hash.
RegisterHashFails(t) ==
  /\ reg_pc[t] = "hash" /\ crypto
  /\ Hashed(t)
  /\ UNCHANGED <<locking, memory, table, check, history>>

RegisterCount(t) ==
  /\ reg_pc[t] = "count"
  /\ integrity_check_count' = integrity_check_count + 1
  /\ reg_pc' = [reg_pc EXCEPT ![t] = "idle"]
  /\ UNCHANGED <<locking, memory, integrity_checks, reg_slot, reg_region, check, history>>

\* Mutant: every slot of the type goes, but is counted once.
UnregisterAll(type) ==
  LET mine == {i \in Occupied : integrity_checks[i].type = type} IN
  /\ users > 0 /\ mine # {}
  /\ integrity_checks' = [i \in Slot |-> IF i \in mine THEN Empty ELSE integrity_checks[i]]
  /\ integrity_check_count' = integrity_check_count - 1
  /\ disturbed' = [c \in Checkers |-> disturbed[c] \/ \E i \in mine : c \in AtSlot(i)]
  /\ UNCHANGED <<locking, memory, reg, check, base>>

\* The first slot of the type, whoever registered it and however far it is.
Unregister(type) ==
  LET mine == {i \in Occupied : integrity_checks[i].type = type} IN
  /\ users > 0 /\ mine # {}
  /\ LET i == CHOOSE i \in mine : \A j \in mine : i <= j IN
       /\ integrity_checks' = [integrity_checks EXCEPT ![i] = Empty]
       /\ base' = [base EXCEPT ![i] = NoHash]
       /\ Disturb(i)
  /\ integrity_check_count' = integrity_check_count - 1
  /\ UNCHANGED <<locking, memory, reg, check>>

-----------------------------------------------------------------------------
(***************************************************************************)
(* perform_integrity_check (of one type, until the first violation) and     *)
(* perform_all_integrity_checks.  A violation ends in                       *)
(* detect_tampering_attempt, which publishes an event.                      *)
(***************************************************************************)
CheckOnly == UNCHANGED <<locking, memory, table, reg, base>>

CheckBegin(c, type) ==
  /\ users > 0 /\ pc[c] = "idle"
  /\ pc' = [pc EXCEPT ![c] = "look"]
  /\ only' = [only EXCEPT ![c] = type]
  /\ UNCHANGED <<slot, data, seen, violations, disturbed>> /\ CheckOnly

\* Mutant: the violations of one check are carried into the next.
CheckEndKeeps(c) ==
  /\ pc[c] = "end"
  /\ pc' = [pc EXCEPT ![c] = "idle"]
  /\ only' = [only EXCEPT ![c] = "all"]
  /\ UNCHANGED <<slot, data, seen, violations, disturbed>> /\ CheckOnly

\* The violations are returned, and published when there are any.
CheckEnd(c) ==
  /\ pc[c] = "end"
  /\ pc' = [pc EXCEPT ![c] = "idle"]
  /\ only' = [only EXCEPT ![c] = "all"]
  /\ violations' = [violations EXCEPT ![c] = 0]
  /\ UNCHANGED <<slot, data, seen, disturbed>> /\ CheckOnly

Leave(c, last) ==
  /\ pc' = [pc EXCEPT ![c] = IF last THEN "end" ELSE "look"]
  /\ slot' = [slot EXCEPT ![c] = IF last THEN 0 ELSE @ + 1]
  /\ data' = [data EXCEPT ![c] = NoRegion]
  /\ seen' = [seen EXCEPT ![c] = NoHash]
  /\ disturbed' = [disturbed EXCEPT ![c] = FALSE]
  /\ UNCHANGED only /\ CheckOnly

Wanted(c) == /\ integrity_checks[slot[c]].address # NoRegion
             /\ only[c] \in {"all", integrity_checks[slot[c]].type}

CheckSkip(c) ==
  /\ pc[c] = "look" /\ ~Wanted(c)
  /\ Leave(c, slot[c] = MaxChecks - 1) /\ UNCHANGED violations

CheckLook(c) ==
  /\ pc[c] = "look" /\ Wanted(c)
  /\ pc' = [pc EXCEPT ![c] = "read"]
  /\ UNCHANGED <<slot, only, data, seen, violations, disturbed>> /\ CheckOnly

\* A violation ends the check of one type; the check of all goes on.
Violation(c) ==
  /\ violations' = [violations EXCEPT ![c] = @ + 1]
  /\ Leave(c, only[c] # "all" \/ slot[c] = MaxChecks - 1)

\* The address is read once more, and its region hashed.
CheckRead(c) ==
  /\ pc[c] = "read" /\ integrity_checks[slot[c]].address # NoRegion
  /\ data' = [data EXCEPT ![c] = integrity_checks[slot[c]].address]
  /\ seen' = [seen EXCEPT ![c] = memory[data'[c]]]
  /\ pc' = [pc EXCEPT ![c] = "compare"]
  /\ UNCHANGED <<slot, only, violations, disturbed>> /\ CheckOnly

\* The slot was cleared meanwhile, or there is no memory for the digest: the
\* error is taken for a violation.
CheckReadFails(c) ==
  /\ pc[c] = "read" /\ (crypto \/ integrity_checks[slot[c]].address = NoRegion)
  /\ Violation(c)

Matches(c) == Hash(seen[c]) = integrity_checks[slot[c]].hash

CheckPass(c) ==
  /\ pc[c] = "compare" /\ Matches(c)
  /\ Leave(c, slot[c] = MaxChecks - 1) /\ UNCHANGED violations

CheckFail(c) == pc[c] = "compare" /\ ~Matches(c) /\ Violation(c)

Next ==
  \/ \E l \in {"STANDARD", "HIGH"}, sha256 \in BOOLEAN : InitSelfProtection(l, sha256)
  \/ EnableModuleLocking \/ DisableModuleLocking
  \/ UserComes \/ UserGoes \/ ExitSelfProtection
  \/ \E r \in Regions, c \in Contents : Write(r, c)
  \/ \E t \in Registrars, r \in Regions : RegisterClaim(t, r)
  \/ \E t \in Registrars : RegisterHash(t) \/ RegisterHashFails(t) \/ RegisterCount(t)
  \/ \E r \in Regions : Unregister(TypeOf[r])
  \/ \E c \in Checkers, r \in Regions : CheckBegin(c, TypeOf[r])
  \/ \E c \in Checkers : CheckBegin(c, "all")
  \/ \E c \in Checkers : CheckEnd(c) \/ CheckSkip(c) \/ CheckLook(c) \/ CheckRead(c) \/ CheckReadFails(c)
                         \/ CheckPass(c) \/ CheckFail(c)

Spec == Init /\ [][Next]_vars

-----------------------------------------------------------------------------
(***************************************************************************)
(* Correctness.                                                             *)
(***************************************************************************)
Entry == [address : Regions \cup {NoRegion},
          type : {TypeOf[r] : r \in Regions} \cup {"0"},
          hash : Contents \cup {Sum[c] : c \in Contents} \cup {NoHash}]

\* Every variable has its type; the count never leaves the table's size.
TypeOK ==
  /\ module \in {"absent", "live"}
  /\ module_locked \in BOOLEAN /\ crypto \in BOOLEAN
  /\ refs \in 0 .. 2 /\ users \in 0 .. 1
  /\ memory \in [Regions -> Contents]
  /\ integrity_checks \in [Slot -> Entry]
  /\ integrity_check_count \in -Cardinality(Registrars) .. MaxChecks
  /\ reg_pc \in [Registrars -> {"idle", "hash", "count"}]
  /\ reg_slot \in [Registrars -> Slot]
  /\ reg_region \in [Registrars -> Regions \cup {NoRegion}]
  /\ pc \in [Checkers -> {"idle", "look", "read", "compare", "end"}]
  /\ slot \in [Checkers -> Slot]
  /\ only \in [Checkers -> {TypeOf[r] : r \in Regions} \cup {"all"}]
  /\ data \in [Checkers -> Regions \cup {NoRegion}]
  /\ seen \in [Checkers -> Contents \cup {NoHash}]
  /\ violations \in [Checkers -> 0 .. MaxChecks]
  /\ base \in [Slot -> Contents \cup {NoHash}]
  /\ disturbed \in [Checkers -> BOOLEAN]

\* integrity_check_count is the number of slots in use less the registrations
\* that claimed a slot and have not counted it: unregistering a slot that is
\* not counted yet makes it negative, and more claims than the count shows are
\* turned away only because no slot is free (self_protection.c:217-240, 253-260).
SlotsAccounted ==
  integrity_check_count =
    Cardinality(Occupied) - Cardinality({t \in Registrars : reg_pc[t] # "idle"})

\* The module's references are its users' and at most one of its own, exactly
\* while it is locked: in whatever order users lock and unlock it, an unlocked
\* module can go with its last user, a locked one cannot, and no lock outlives
\* the module (self_protection.c:60-62, 72-78, 117-144).
RefsFollowLock ==
  /\ refs = users + (IF module_locked THEN 1 ELSE 0)
  /\ module = "absent" => refs = 0 /\ ~module_locked

\* A checker whose slot nobody claims, hashes or clears meanwhile, and whose
\* last hash is of its own region, counts a violation only when it has hashed
\* that very region and found it changed, or when with SHA-256 there was no
\* memory to hash it, which is counted like a change (self_protection.c:176-178,
\* 278, 302); and with SHA-256 it misses no change it has hashed, whatever
\* registrations did before (self_protection.c:188-203, 264-315).
VerdictIsRight ==
  [][\A c \in Checkers :
       LET i == slot[c]
           reported == violations'[c] > violations[c]
       IN  ~disturbed[c] /\ base[i] # NoHash =>
             /\ reported =>
                  \/ /\ pc[c] = "compare"
                     /\ data[c] = integrity_checks[i].address /\ seen[c] # base[i]
                  \/ pc[c] = "read" /\ crypto
             /\ pc[c] = "compare" /\ pc'[c] # "compare" /\ crypto /\ seen[c] # base[i]
                  => reported]_vars
=============================================================================
