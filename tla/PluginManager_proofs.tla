------------------------- MODULE PluginManager_proofs -------------------------
(***************************************************************************)
(* What holds of the plugin manager for every set of plugins, names,        *)
(* controllers and walkers and every limit.                                 *)
(***************************************************************************)
EXTENDS PluginManager, SequenceTheorems, FiniteSetTheorems, WellFoundedInduction, TLAPS

Steps == {"idle", "try", "disable", "init", "start", "stop", "exit", "set_initialized",
          "set_error", "set_active", "set_disabled", "set_loaded"}

\* The types of the variables TypeOK leaves out.
Shape ==
  /\ pc \in [Controllers -> Steps]
  /\ op \in [Controllers -> {"none", "load", "enable", "disable", "unload"}]
  /\ mode \in [Walkers -> {"none", "broadcast", "enumerate", "send"}]
  /\ target \in [Walkers -> SUBSET Driven]
  /\ overlapped \in [Plugins -> BOOLEAN]
  /\ straddled \in [Plugins -> BOOLEAN]
  /\ undermined \in [Walkers -> BOOLEAN]
  /\ bad \in [Plugins -> {"no", "leak", "null", "freed", "twice", "scan", "gone"}]
  /\ badState \in [Plugins -> States]

\* A walker stands at a plugin of the list until that is unlinked.
StandsInList == \A w \in Walkers : wpc[w] # "idle" /\ ~undermined[w] => at[w] \in Registered

\* A plugin whose module is not there or not registered yet is as its module
\* image has it, and nobody is in it when its module registers it.
OutsideIsFresh(p) ==
  /\ module[p] \in {"absent", "check"} => state[p] = "UNLOADED" /\ data[p] = "null"
  /\ module[p] \notin {"absent", "check"} => state[p] # "UNLOADED"
  /\ module[p] = "check" => ControlledBy(p) = {} /\ InHandler(p) = {} /\ work[p] = "idle"

\* No second control call is in a plugin on which no two overlapped.
OneActor(p) ==
  \A c \in ControlledBy(p) : module[p] = "present" /\ \A d \in ControlledBy(p) : d = c

\* Such a call finds the state it tested, until it sets it itself.
Fits(step, s) ==
  /\ step \in {"init", "set_initialized"} => s = "LOADED"
  /\ step \in {"start", "set_active"} => s = "INITIALIZED"
  /\ step = "set_error" => s \in {"LOADED", "INITIALIZED"}
  /\ step \in {"disable", "stop", "set_disabled"} => s = "ACTIVE"
  /\ step \in {"try", "exit", "set_loaded"} => s # "ACTIVE"

StateInCall(p) ==
  /\ \A c \in ControlledBy(p) : Fits(pc[c], state[p])
  /\ module[p] = "stop" => state[p] = "ACTIVE"
  /\ module[p] = "exit" => state[p] \in AtLeastInitialized

\* What StateTellsTheTruth says of a plugin in state s whose private_data
\* points to d and whose scan is wk.
Settled(s, d, wk) ==
  /\ wk # "idle" <=> s = "ACTIVE"
  /\ s \in {"INITIALIZED", "ACTIVE", "DISABLED"} => d = "live"
  /\ s \in {"UNLOADED", "LOADED"} => d # "live"

\* The same at each step of a control call and of a module exit, when they
\* and the handlers hs are not in each other's way.
InCall(step, s, d, wk, hs) ==
  /\ step \in {"try", "disable", "init", "start", "stop", "exit", "set_error"} => Settled(s, d, wk)
  /\ step = "set_initialized" => d = "live" /\ wk = "idle"
  /\ step = "set_active" => d = "live" /\ wk # "idle"
  /\ step = "set_disabled" => d = "live" /\ wk = "idle" /\ hs = {}
  /\ step = "set_loaded" => d # "live" /\ wk = "idle"

InModule(m, s, d, wk, hs) ==
  /\ m \in {"absent", "check", "present", "stop"} => Settled(s, d, wk)
  /\ m = "exit" =>
       wk = "idle" /\ hs = {} /\ (s \in {"INITIALIZED", "ACTIVE", "DISABLED"} => d = "live")
  /\ m = "unlink" => wk = "idle" /\ hs = {} /\ d # "live"

Truth(p) ==
  /\ \A c \in ControlledBy(p) : InCall(pc[c], state[p], data[p], work[p], InHandler(p))
  /\ ControlledBy(p) = {} => InModule(module[p], state[p], data[p], work[p], InHandler(p))
  /\ InHandler(p) # {} => state[p] = "ACTIVE" /\ Settled(state[p], data[p], work[p])

Well(p) ==
  /\ OutsideIsFresh(p)
  /\ ~overlapped[p] => OneActor(p) /\ StateInCall(p)
  /\ Sound /\ Serial(p) => Truth(p)

IInv ==
  /\ TypeOK
  /\ Shape
  /\ RegistryConsistent
  /\ StandsInList
  /\ \A p \in Plugins : Well(p)
  /\ SerialControlIsSafe
-----------------------------------------------------------------------------
(***************************************************************************)
(* Sets of positions and lists.                                             *)
(***************************************************************************)
\* A set of naturals that is not empty has a least element.
LEMMA LeastExists ==
  ASSUME NEW T \in SUBSET Nat, T # {}
  PROVE  Min(T) \in T /\ \A y \in T : Min(T) <= y
<1> DEFINE R == {ss \in Nat \X Nat : ss[1] < ss[2]}
<1>1. IsWellFoundedOn(R, Nat)
  BY NatLessThanWellFounded DEF OpToRel
<1>2. \A x, y \in T : y < x => <<y, x>> \in R
  OBVIOUS
<1> HIDE DEF R
<1>3. PICK x \in T : \A y \in T : ~(<<y, x>> \in R)
  BY <1>1, WFMin
<1>4. \A y \in T : ~(y < x)
  BY <1>2, <1>3, Zenon
<1>5. \A y \in T : x <= y
  BY <1>4
<1>6. QED
  BY <1>5 DEF Min

LEMMA RemoveAtFacts ==
  ASSUME NEW S, NEW s \in Seq(S), NEW k \in 1 .. Len(s)
  PROVE  /\ RemoveAt(s, k) \in Seq(S) /\ Len(RemoveAt(s, k)) = Len(s) - 1
         /\ \A i \in 1 .. Len(s) - 1 : RemoveAt(s, k)[i] = IF i < k THEN s[i] ELSE s[i + 1]
<1> DEFINE a == SubSeq(s, 1, k - 1)
           b == SubSeq(s, k + 1, Len(s))
<1>1. Len(s) \in Nat /\ k \in Nat /\ k >= 1 /\ k <= Len(s) /\ \A i \in 1 .. Len(s) : s[i] \in S
  OBVIOUS
<1>2. /\ a \in Seq(S) /\ Len(a) = k - 1
      /\ \A i \in 1 .. k - 1 : a[i] = s[i]
  <2>1. \A i \in 1 .. k - 1 : s[i] \in S
    BY <1>1
  <2>2. /\ a \in Seq(S) /\ Len(a) = (IF 1 <= k - 1 THEN (k - 1) - 1 + 1 ELSE 0)
        /\ \A i \in 1 .. (k - 1) - 1 + 1 : a[i] = s[1 + i - 1]
    BY <1>1, <2>1, SubSeqProperties
  <2>3. QED
    BY <1>1, <2>2
<1>3. /\ b \in Seq(S) /\ Len(b) = Len(s) - k
      /\ \A i \in 1 .. Len(s) - k : b[i] = s[k + i]
  <2>1. \A i \in k + 1 .. Len(s) : s[i] \in S
    BY <1>1
  <2>2. /\ b \in Seq(S) /\ Len(b) = (IF k + 1 <= Len(s) THEN Len(s) - (k + 1) + 1 ELSE 0)
        /\ \A i \in 1 .. Len(s) - (k + 1) + 1 : b[i] = s[(k + 1) + i - 1]
    BY <1>1, <2>1, SubSeqProperties
  <2>3. QED
    BY <1>1, <2>2
<1>4. RemoveAt(s, k) = a \o b
  BY DEF RemoveAt
<1> HIDE DEF a, b
<1>5. /\ a \o b \in Seq(S) /\ Len(a \o b) = Len(a) + Len(b)
      /\ \A i \in 1 .. Len(a) + Len(b) : (a \o b)[i] = IF i <= Len(a) THEN a[i] ELSE b[i - Len(a)]
  BY <1>2, <1>3, ConcatProperties
<1>6. Len(a) + Len(b) = Len(s) - 1
  BY <1>1, <1>2, <1>3
<1>7. ASSUME NEW i \in 1 .. Len(s) - 1
      PROVE  (a \o b)[i] = IF i < k THEN s[i] ELSE s[i + 1]
  <2>1. (a \o b)[i] = IF i <= Len(a) THEN a[i] ELSE b[i - Len(a)]
    BY <1>5, <1>6
  <2>2. CASE i < k
    BY <1>1, <1>2, <2>1, <2>2
  <2>3. CASE ~(i < k)
    <3>1. i - (k - 1) \in 1 .. Len(s) - k /\ k + (i - (k - 1)) = i + 1
      BY <1>1, <2>3
    <3>2. ~(i <= Len(a)) /\ Len(a) = k - 1
      BY <1>1, <1>2, <2>3
    <3>3. (a \o b)[i] = b[i - (k - 1)]
      BY <2>1, <3>2
    <3>4. QED
      BY <1>3, <2>3, <3>1, <3>3
  <2>4. QED
    BY <2>2, <2>3
<1>8. QED
  BY <1>4, <1>5, <1>6, <1>7

\* Removing a position of a list without repetition removes its element, and
\* the others keep their order.

\* Lists of plugins in which no two have the same name nm[p].
OneOfAName(s, nm) == \A i, j \in DOMAIN s : nm[s[i]] = nm[s[j]] => i = j

\* list_add_tail.
LEMMA ListAppend ==
  ASSUME NEW S, NEW s \in Seq(S), NEW e \in S, NEW nm, OneOfAName(s, nm),
         \A q \in ToSet(s) : nm[q] # nm[e]
  PROVE  /\ Append(s, e) \in Seq(S) /\ Len(Append(s, e)) = Len(s) + 1
         /\ ToSet(Append(s, e)) = ToSet(s) \cup {e}
         /\ OneOfAName(Append(s, e), nm)
<1> DEFINE a == Append(s, e)
<1>1. /\ a \in Seq(S) /\ Len(a) = Len(s) + 1 /\ Len(s) \in Nat
      /\ \A i \in 1 .. Len(s) : a[i] = s[i]
      /\ a[Len(s) + 1] = e
  OBVIOUS
<1> HIDE DEF a
<1>2. DOMAIN a = 1 .. Len(s) + 1 /\ DOMAIN s = 1 .. Len(s)
  BY <1>1
<1>3. \A i \in 1 .. Len(s) + 1 : i = Len(s) + 1 \/ i \in 1 .. Len(s)
  BY <1>1
<1>4. \A i \in 1 .. Len(s) : i \in DOMAIN s /\ i \in DOMAIN a
  BY <1>1, <1>2
<1>5. ToSet(a) = ToSet(s) \cup {e}
  BY <1>1, <1>2 DEF ToSet
<1>6. OneOfAName(a, nm)
  <2>1. \A i \in 1 .. Len(s) : nm[s[i]] # nm[e]
    BY <1>2 DEF ToSet
  <2>2. QED
    BY <1>1, <1>2, <1>3, <2>1 DEF OneOfAName
<1>7. QED
  BY <1>1, <1>5, <1>6 DEF a

\* list_del.
LEMMA ListRemove ==
  ASSUME NEW S, NEW s \in Seq(S), NEW nm, OneOfAName(s, nm), NEW k \in 1 .. Len(s)
  PROVE  /\ RemoveAt(s, k) \in Seq(S) /\ Len(RemoveAt(s, k)) = Len(s) - 1
         /\ ToSet(RemoveAt(s, k)) = ToSet(s) \ {s[k]}
         /\ OneOfAName(RemoveAt(s, k), nm)
<1> DEFINE t == RemoveAt(s, k)
           Old(i) == IF i < k THEN i ELSE i + 1
<1>1. /\ t \in Seq(S) /\ Len(t) = Len(s) - 1 /\ Len(s) \in Nat
      /\ \A i \in 1 .. Len(s) - 1 : t[i] = IF i < k THEN s[i] ELSE s[i + 1]
  <2>1. Len(s) \in Nat
    OBVIOUS
  <2>2. t \in Seq(S) /\ Len(t) = Len(s) - 1
    BY RemoveAtFacts
  <2>3. \A i \in 1 .. Len(s) - 1 : t[i] = IF i < k THEN s[i] ELSE s[i + 1]
    BY RemoveAtFacts, Zenon
  <2>4. QED
    BY <2>1, <2>2, <2>3
<1> HIDE DEF t
<1>2. \A i \in 1 .. Len(s) - 1 : t[i] = s[Old(i)] /\ Old(i) \in 1 .. Len(s) /\ Old(i) # k
  BY <1>1
<1>3. \A i, j \in 1 .. Len(s) - 1 : Old(i) = Old(j) => i = j
  BY <1>1
<1>4. \A p \in 1 .. Len(s) : p # k => \E i \in 1 .. Len(s) - 1 : p = Old(i)
  <2>1. SUFFICES ASSUME NEW p \in 1 .. Len(s), p # k
                 PROVE  \E i \in 1 .. Len(s) - 1 : p = Old(i)
    OBVIOUS
  <2>2. CASE p < k
    BY <1>1, <2>2
  <2>3. CASE p > k
    <3>1. p - 1 \in 1 .. Len(s) - 1 /\ p = Old(p - 1)
      BY <1>1, <2>3
    <3>2. QED
      BY <3>1
  <2>4. QED
    BY <2>1, <2>2, <2>3
<1>5. DOMAIN t = 1 .. Len(s) - 1 /\ DOMAIN s = 1 .. Len(s)
  BY <1>1
<1> HIDE DEF Old
<1>6. OneOfAName(t, nm)
  <2>1. SUFFICES ASSUME NEW i \in 1 .. Len(s) - 1, NEW j \in 1 .. Len(s) - 1, nm[t[i]] = nm[t[j]]
                 PROVE  i = j
    BY <1>5 DEF OneOfAName
  <2>2. Old(i) = Old(j)
    BY <1>2, <1>5, <2>1 DEF OneOfAName
  <2>3. QED
    BY <1>3, <2>2
<1>7. ToSet(t) = ToSet(s) \ {s[k]}
  <2>1. \A p \in 1 .. Len(s) : s[p] = s[k] => p = k
    BY <1>5 DEF OneOfAName
  <2>2. ToSet(t) \subseteq ToSet(s) \ {s[k]}
    BY <1>2, <1>5, <2>1 DEF ToSet
  <2>3. ToSet(s) \ {s[k]} \subseteq ToSet(t)
    <3>1. SUFFICES ASSUME NEW p \in 1 .. Len(s), p # k
                   PROVE  s[p] \in ToSet(t)
      BY <1>5 DEF ToSet
    <3>2. PICK i \in 1 .. Len(s) - 1 : p = Old(i)
      BY <1>4, <3>1
    <3>3. t[i] = s[p] /\ i \in DOMAIN t
      BY <1>2, <1>5, <3>2
    <3>4. QED
      BY <3>3 DEF ToSet
  <2>4. QED
    BY <2>2, <2>3
<1>8. QED
  BY <1>1, <1>6, <1>7 DEF t
-----------------------------------------------------------------------------
(***************************************************************************)
(* The actions by what they change.                                         *)
(***************************************************************************)
\* The types of what the plugin's own operations change.
ObjectsOK ==
  /\ data \in [Plugins -> {"null", "live", "freed"}]
  /\ work \in [Plugins -> {"idle", "armed", "running"}]
  /\ straddled \in [Plugins -> BOOLEAN]
  /\ bad \in [Plugins -> {"no", "leak", "null", "freed", "twice", "scan", "gone"}]
  /\ badState \in [Plugins -> States]

LEMMA HomeIsDriven == Home \in Driven /\ Home \in Plugins
BY PluginManagerAssumption DEF Home

\* An operation of the plugin, or the first bad access to it.
Operation(p) ==
  \/ OpInit(p) \/ OpStart(p) \/ OpStop(p) \/ OpExit(p) \/ OpQuery(p) \/ OpHealth(p) \/ Harmless
  \/ \E kind \in {"leak", "null", "freed", "twice", "scan", "gone"} : Hurt(p, kind)

LEMMA ObjectSteps ==
  ASSUME ObjectsOK, state \in [Plugins -> States], NEW p \in Plugins, Operation(p)
  PROVE  ObjectsOK'
<1> USE DEF ObjectsOK, Hurt, Harmless
<1>1. ASSUME NEW kind \in {"leak", "null", "freed", "twice", "scan", "gone"}, Hurt(p, kind)
      PROVE  ObjectsOK'
  BY <1>1
<1>2. data[p] # "live" => data[p] \in {"null", "freed"}
  OBVIOUS
<1>3. ASSUME Straddle(p)
      PROVE  straddled' \in [Plugins -> BOOLEAN]
  BY <1>3 DEF Straddle
<1>4. CASE OpInit(p)
  BY <1>1, <1>4 DEF OpInit
<1>5. CASE OpStart(p)
  BY <1>1, <1>2, <1>5 DEF OpStart
<1>6. CASE OpStop(p)
  BY <1>1, <1>2, <1>3, <1>6 DEF OpStop
<1>7. CASE OpExit(p)
  BY <1>1, <1>3, <1>7 DEF OpExit
<1>8. CASE OpQuery(p) \/ OpHealth(p) \/ Harmless
  BY <1>1, <1>2, <1>8 DEF OpQuery, OpHealth
<1>9. QED
  BY <1>1, <1>4, <1>5, <1>6, <1>7, <1>8 DEF Operation

\* A control call begins at the step that fits the state it has tested.
LEMMA CallsBegin ==
  ASSUME NEW c \in Controllers, NEW p \in Driven, ControlCall(c, p)
  PROVE  \E call \in {"load", "enable", "disable", "unload"},
            next \in {"init", "start", "try", "stop", "disable", "exit"} :
           Begin(c, call, p, next) /\ Fits(next, state[p])
BY DEF ControlCall, Load, Enable, Disable, Unload, Fits

\* A walk that goes on comes to a plugin of the list it is for, or ends.
LEMMA AdvanceMoves ==
  ASSUME NEW w, NEW m, NEW ps, NEW rest \in Seq(Plugins), Advance(w, m, ps, rest)
  PROVE  \/ WalkerDone(w)
         \/ \E k \in 1 .. Len(rest) :
              /\ Visits(m, ps, rest[k]) /\ rest[k] \in Plugins
              /\ WalkerAt(w, IF m = "enumerate" THEN "return" ELSE "call", m, rest[k], ps)
<1> DEFINE hits == {i \in DOMAIN rest : Visits(m, ps, rest[i])}
           k == Min(hits)
<1>1. CASE hits = {}
  BY <1>1 DEF Advance
<1>2. CASE hits # {}
  <2>1. hits \in SUBSET Nat /\ DOMAIN rest = 1 .. Len(rest)
    OBVIOUS
  <2>2. k \in hits
    <3> HIDE DEF hits
    <3>1. QED
      BY <1>2, <2>1, LeastExists
  <2>3. WalkerAt(w, IF m = "enumerate" THEN "return" ELSE "call", m, rest[k], ps)
    BY <1>2 DEF Advance
  <2> HIDE DEF k
  <2>4. k \in 1 .. Len(rest) /\ Visits(m, ps, rest[k]) /\ rest[k] \in Plugins
    BY <2>1, <2>2
  <2>5. QED
    BY <2>3, <2>4
<1>3. QED
  BY <1>1, <1>2

WalkerTypes ==
  /\ at \in [Walkers -> Plugins]
  /\ wpc \in [Walkers -> {"idle", "call", "scan", "return", "stuck"}]
  /\ mode \in [Walkers -> {"none", "broadcast", "enumerate", "send"}]
  /\ target \in [Walkers -> SUBSET Driven]

\* Where a walker may go next.
MayStandAt(w, step, p) ==
  /\ step \in {"idle", "call", "return", "stuck"} /\ p \in Plugins
  /\ step \in {"call", "return"} => p \in Registered
  /\ step = "call" => state[p] = "ACTIVE"
  /\ step = "stuck" => undermined[w]

WalkAction(w) ==
  \/ \E ps \in SUBSET Driven : Broadcast(w, "broadcast", ps)
  \/ Broadcast(w, "enumerate", {})
  \/ \E p \in Driven : SendEvent(w, p)
  \/ Resume(w)
  \/ ResumePoisoned(w)

LEMMA WalkMoves ==
  ASSUME TypeOK, Shape, RegistryConsistent, StandsInList, \A p \in Plugins : OutsideIsFresh(p),
         NEW w \in Walkers, WalkAction(w)
  PROVE  /\ Sound /\ Walks(w) /\ UNCHANGED undermined /\ wpc[w] \in {"idle", "return"}
         /\ WalkerTypes'
         /\ \E step, p : /\ MayStandAt(w, step, p)
                         /\ wpc' = [wpc EXCEPT ![w] = step] /\ at' = [at EXCEPT ![w] = p]
<1>0. /\ WalkerTypes /\ plugin_list \in Seq(Plugins)
      /\ \A k \in 1 .. Len(plugin_list) : plugin_list[k] \in Registered
  BY DEF WalkerTypes, TypeOK, Shape, Registered, ToSet
<1>1. /\ Sound /\ Walks(w) /\ UNCHANGED undermined /\ wpc[w] \in {"idle", "return"}
  BY DEF WalkAction, Broadcast, SendEvent, Resume, ResumePoisoned
<1>2. ASSUME NEW step \in {"idle", "call", "return"}, NEW m \in {"none", "broadcast", "enumerate", "send"},
             NEW p \in Plugins, NEW ps \in SUBSET Driven, WalkerAt(w, step, m, p, ps),
             step \in {"call", "return"} => p \in Registered,
             step = "call" => state[p] = "ACTIVE"
      PROVE  /\ WalkerTypes'
             /\ MayStandAt(w, step, p)
             /\ wpc' = [wpc EXCEPT ![w] = step] /\ at' = [at EXCEPT ![w] = p]
  BY <1>0, <1>2 DEF WalkerAt, WalkerTypes, MayStandAt
<1> DEFINE Moved == /\ WalkerTypes'
                    /\ \E step, p : /\ MayStandAt(w, step, p)
                                    /\ wpc' = [wpc EXCEPT ![w] = step] /\ at' = [at EXCEPT ![w] = p]
<1>3. ASSUME NEW m \in {"none", "broadcast", "enumerate", "send"}, NEW ps \in SUBSET Driven,
             NEW rest \in Seq(Plugins), Advance(w, m, ps, rest),
             \A k \in 1 .. Len(rest) : rest[k] \in Registered
      PROVE  Moved
  <2>1. CASE WalkerDone(w)
    BY <1>2, <2>1, HomeIsDriven DEF WalkerDone
  <2>2. ASSUME NEW k \in 1 .. Len(rest), Visits(m, ps, rest[k]), rest[k] \in Plugins,
               WalkerAt(w, IF m = "enumerate" THEN "return" ELSE "call", m, rest[k], ps)
        PROVE  Moved
    <3>1. CASE m = "enumerate"
      BY <1>2, <1>3, <2>2, <3>1
    <3>2. CASE m # "enumerate"
      BY <1>2, <1>3, <2>2, <3>2 DEF Visits
    <3>3. QED
      BY <3>1, <3>2
  <2>3. QED
    BY <1>3, <2>1, <2>2, AdvanceMoves
<1>4. ASSUME NEW m \in {"broadcast", "enumerate"}, NEW ps \in SUBSET Driven, Broadcast(w, m, ps)
      PROVE  Moved
  BY <1>0, <1>3, <1>4 DEF Broadcast
<1>5. ASSUME NEW p \in Driven, SendEvent(w, p)
      PROVE  Moved
  <2>1. p \in Plugins /\ state[p] = "ACTIVE" /\ WalkerAt(w, "call", "send", p, {p})
    BY <1>5, PluginManagerAssumption DEF SendEvent
  <2>2. p \in Registered
    BY <2>1 DEF OutsideIsFresh, RegistryConsistent, TypeOK
  <2>3. QED
    BY <1>2, <1>5, <2>1, <2>2
<1>6. CASE Resume(w)
  <2> DEFINE i == CHOOSE i \in DOMAIN plugin_list : plugin_list[i] = at[w]
             rest == SubSeq(plugin_list, i + 1, Len(plugin_list))
  <2>1. at[w] \in Registered /\ mode[w] \in {"none", "broadcast", "enumerate", "send"}
    BY <1>0, <1>6 DEF Resume, StandsInList, WalkerTypes
  <2>2. i \in 1 .. Len(plugin_list)
    <3>1. \E j \in DOMAIN plugin_list : plugin_list[j] = at[w]
      BY <2>1 DEF Registered, ToSet
    <3>2. QED
      BY <1>0, <3>1
  <2>3. Advance(w, mode[w], target[w], rest)
    BY <1>6 DEF Resume
  <2> HIDE DEF i
  <2>4. rest \in Seq(Plugins) /\ \A k \in 1 .. Len(rest) : rest[k] \in Registered
    <3>1. Len(plugin_list) \in Nat /\ i \in Nat /\ i >= 1 /\ i <= Len(plugin_list)
      BY <1>0, <2>2
    <3>2. \A k \in i + 1 .. Len(plugin_list) : plugin_list[k] \in Plugins
      BY <1>0, <3>1
    <3>3. /\ rest \in Seq(Plugins)
          /\ Len(rest) = IF i + 1 <= Len(plugin_list) THEN Len(plugin_list) - (i + 1) + 1 ELSE 0
          /\ \A k \in 1 .. Len(plugin_list) - (i + 1) + 1 : rest[k] = plugin_list[(i + 1) + k - 1]
      BY <3>1, <3>2, SubSeqProperties
    <3>4. Len(rest) = Len(plugin_list) - i
      BY <3>1, <3>3
    <3> HIDE DEF rest
    <3>5. \A k \in 1 .. Len(rest) : rest[k] = plugin_list[i + k] /\ i + k \in 1 .. Len(plugin_list)
      BY <3>1, <3>3, <3>4
    <3>6. QED
      BY <1>0, <3>3, <3>5
  <2> HIDE DEF rest
  <2>5. target[w] \in SUBSET Driven
    BY <1>0 DEF WalkerTypes
  <2>6. QED
    BY <1>1, <1>3, <2>1, <2>3, <2>4, <2>5
<1>7. CASE ResumePoisoned(w)
  <2>1. /\ wpc' = [wpc EXCEPT ![w] = "stuck"] /\ UNCHANGED <<mode, at, target>> /\ undermined[w]
    BY <1>7 DEF ResumePoisoned
  <2>2. at' = [at EXCEPT ![w] = at[w]] /\ at[w] \in Plugins
    BY <1>0, <2>1 DEF WalkerTypes
  <2>3. WalkerTypes'
    BY <1>0, <2>1 DEF WalkerTypes
  <2>4. MayStandAt(w, "stuck", at[w])
    BY <2>1, <2>2 DEF MayStandAt
  <2>5. QED
    BY <1>1, <2>1, <2>2, <2>3, <2>4
<1>8. QED
  BY <1>1, <1>4, <1>5, <1>6, <1>7 DEF WalkAction

\* A handler returns, goes on to its scan, or ends the run.
LEMMA HandlerMoves ==
  ASSUME TypeOK, Shape, NEW w \in Walkers, NEW p \in Plugins, p = at[w],
         CallHandler(w) \/ HandlerRequeues(w)
  PROVE  /\ Sound /\ UNCHANGED <<registry, state, module, control, overlapped>>
         /\ wpc[w] \in {"call", "scan"}
         /\ WalkerTypes' /\ undermined' \in [Walkers -> BOOLEAN]
         /\ \A v \in Walkers : wpc'[v] # "idle" =>
              /\ wpc[v] # "idle" /\ at'[v] = at[v] /\ undermined'[v] = undermined[v]
              /\ wpc'[v] \in {"call", "scan"} => wpc[v] \in {"call", "scan"}
         /\ \/ Harmless
            \/ OpStart(p) /\ module[p] # "absent"
            \/ Hurt(p, "gone") /\ module[p] = "absent"
            \/ data[p] # "live" /\ \E kind \in {"null", "freed"} : Hurt(p, kind)
<1>0. WalkerTypes /\ undermined \in [Walkers -> BOOLEAN] /\ data[p] \in {"null", "live", "freed"}
  BY DEF TypeOK, Shape, WalkerTypes
<1> DEFINE Moved == /\ WalkerTypes' /\ undermined' \in [Walkers -> BOOLEAN]
                    /\ \A v \in Walkers : wpc'[v] # "idle" =>
                         /\ wpc[v] # "idle" /\ at'[v] = at[v] /\ undermined'[v] = undermined[v]
                         /\ wpc'[v] \in {"call", "scan"} => wpc[v] \in {"call", "scan"}
           Does == \/ Harmless
                   \/ OpStart(p) /\ module[p] # "absent"
                   \/ Hurt(p, "gone") /\ module[p] = "absent"
                   \/ data[p] # "live" /\ \E kind \in {"null", "freed"} : Hurt(p, kind)
<1>1. Sound /\ UNCHANGED <<registry, state, module, control, overlapped>> /\ wpc[w] \in {"call", "scan"}
  BY DEF CallHandler, HandlerRequeues, Handles
<1>2. ASSUME Return(w)
      PROVE  Moved
  <2>1. CASE WalkerDone(w) /\ undermined' = [undermined EXCEPT ![w] = FALSE]
    BY <1>0, <2>1, HomeIsDriven DEF WalkerDone, WalkerAt, WalkerTypes
  <2>2. CASE wpc' = [wpc EXCEPT ![w] = "return"] /\ UNCHANGED <<mode, at, target, undermined>>
    BY <1>0, <1>1, <2>2 DEF WalkerTypes
  <2>3. QED
    BY <1>2, <2>1, <2>2 DEF Return
<1>3. ASSUME UNCHANGED <<walk, undermined>>
      PROVE  Moved
  BY <1>0, <1>3 DEF walk, WalkerTypes
<1>4. ASSUME wpc[w] = "call", wpc' = [wpc EXCEPT ![w] = "scan"], StaysAt(w)
      PROVE  Moved
  BY <1>0, <1>4 DEF StaysAt, WalkerTypes
<1>5. ASSUME data[p] # "live", Hurt(at[w], data[at[w]])
      PROVE  Does
  <2>1. CASE data[p] = "null"
    BY <1>5, <2>1 DEF Hurt
  <2>2. CASE data[p] = "freed"
    BY <1>5, <2>2 DEF Hurt
  <2>3. QED
    BY <1>0, <1>5, <2>1, <2>2
<1>6. ASSUME module[p] = "absent", Hurt(at[w], "gone")
      PROVE  Does
  BY <1>6 DEF Hurt
<1>7. CASE CallHandler(w)
  <2>1. \/ Return(w) /\ Harmless
        \/ wpc[w] = "call" /\ wpc' = [wpc EXCEPT ![w] = "scan"] /\ StaysAt(w) /\ Harmless
        \/ data[p] # "live" /\ Hurt(at[w], data[at[w]]) /\ UNCHANGED <<walk, undermined>>
        \/ module[p] = "absent" /\ Hurt(at[w], "gone") /\ UNCHANGED <<walk, undermined>>
    BY <1>7 DEF CallHandler, Handles
  <2>2. Does
    <3>1. Harmless => Does
      OBVIOUS
    <3> HIDE DEF Does
    <3>2. QED
      BY <1>5, <1>6, <2>1, <3>1
  <2> HIDE DEF Moved, Does
  <2>3. Moved
    BY <1>2, <1>3, <1>4, <2>1
  <2>4. QED
    BY <1>1, <2>2, <2>3 DEF Moved, Does
<1>8. CASE HandlerRequeues(w)
  <2>1. \/ module[p] # "absent" /\ OpStart(at[w]) /\ Return(w)
        \/ module[p] = "absent" /\ Hurt(at[w], "gone") /\ UNCHANGED <<walk, undermined>>
    BY <1>8 DEF HandlerRequeues
  <2>2. ASSUME OpStart(at[w]), module[p] # "absent"
        PROVE  Does
    BY <2>2 DEF OpStart, Hurt
  <2> HIDE DEF Moved, Does
  <2>3. Does
    BY <1>6, <2>1, <2>2
  <2>4. Moved
    BY <1>2, <1>3, <2>1
  <2>5. QED
    BY <1>1, <2>3, <2>4 DEF Moved, Does
<1>9. QED
  BY <1>7, <1>8

\* What a step of a control call in p does, and where it goes next.
CallMoves(c, p, next) ==
  \/ /\ pc[c] = "try" /\ UNCHANGED state /\ Harmless
     /\ next \in {"init", "idle"} /\ (next = "init" => state[p] = "LOADED")
  \/ /\ pc[c] = "disable" /\ UNCHANGED state /\ Harmless /\ next \in {"stop", "exit"}
     /\ next = "stop" <=> p \in Registered /\ state[p] = "ACTIVE"
  \/ /\ pc[c] = "init" /\ UNCHANGED state
     /\ \/ OpInit(p) /\ next = "set_initialized"
        \/ Harmless /\ next = "set_error"
  \/ /\ pc[c] = "start" /\ UNCHANGED state
     /\ \/ OpStart(p) /\ next = "set_active"
        \/ Harmless /\ next = "set_error"
  \/ pc[c] = "stop" /\ UNCHANGED state /\ OpStop(p) /\ next = "set_disabled"
  \/ pc[c] = "exit" /\ UNCHANGED state /\ OpExit(p) /\ next = "set_loaded"
  \/ /\ pc[c] = "set_initialized" /\ state' = [state EXCEPT ![p] = "INITIALIZED"]
     /\ Harmless /\ next \in {"start", "idle"}
  \/ /\ pc[c] = "set_error" /\ state' = [state EXCEPT ![p] = "ERROR"]
     /\ Harmless /\ next = "idle"
  \/ /\ pc[c] = "set_active" /\ state' = [state EXCEPT ![p] = "ACTIVE"]
     /\ Harmless /\ next = "idle"
  \/ /\ pc[c] = "set_disabled" /\ state' = [state EXCEPT ![p] = "DISABLED"]
     /\ Harmless /\ next \in {"exit", "idle"}
  \/ /\ pc[c] = "set_loaded" /\ state' = [state EXCEPT ![p] = "LOADED"]
     /\ Harmless /\ next = "idle"

LEMMA ControlMoves ==
  ASSUME NEW c \in Controllers, NEW p \in Plugins, p = on[c], ControlStep(c)
  PROVE  /\ pc[c] # "idle" /\ Sound /\ UNCHANGED <<registry, module, walk, overlapped, undermined>>
         /\ \/ module[p] = "absent" /\ Hurt(p, "gone") /\ UNCHANGED <<state, control>>
            \/ module[p] # "absent" /\ \E next \in Steps : Go(c, next) /\ CallMoves(c, p, next)
<1> DEFINE Moved == /\ pc[c] # "idle" /\ Sound /\ module[p] # "absent"
                    /\ UNCHANGED <<registry, module, walk, overlapped, undermined>>
                    /\ \E next \in Steps : Go(c, next) /\ CallMoves(c, p, next)
<1>1. ASSUME EnableTries(c)
      PROVE  Moved
  <2>1. PICK next \in {"init", "idle"} : Go(c, next) /\ (next = "init" => state[p] = "LOADED")
    BY <1>1 DEF EnableTries
  <2>2. next \in Steps /\ CallMoves(c, p, next)
    BY <1>1, <2>1 DEF EnableTries, Here, CallMoves, Harmless, history, Steps
  <2>3. QED
    BY <1>1, <2>1, <2>2 DEF EnableTries, Here, history
<1>2. ASSUME UnloadDisables(c)
      PROVE  Moved
  <2>1. PICK next \in {"stop", "exit"} :
          Go(c, next) /\ (next = "stop" <=> p \in Registered /\ state[p] = "ACTIVE")
    BY <1>2 DEF UnloadDisables
  <2>2. next \in Steps /\ CallMoves(c, p, next)
    BY <1>2, <2>1 DEF UnloadDisables, Here, CallMoves, Harmless, history, Steps
  <2>3. QED
    BY <1>2, <2>1, <2>2 DEF UnloadDisables, Here, history
<1>3. ASSUME CallInit(c)
      PROVE  Moved
  <2>1. OpInit(on[c]) => OpInit(p)
    BY DEF OpInit, Hurt
  <2>2. \/ OpInit(p) /\ Go(c, "set_initialized")
        \/ Harmless /\ Go(c, "set_error")
    BY <1>3, <2>1 DEF CallInit
  <2>3. Here(c, "init") /\ Calls(c)
    BY <1>3 DEF CallInit
  <2>4. CASE OpInit(p) /\ Go(c, "set_initialized")
    <3>1. CallMoves(c, p, "set_initialized") /\ "set_initialized" \in Steps
      BY <2>3, <2>4 DEF Here, Calls, CallMoves, Steps
    <3>2. QED
      BY <2>3, <2>4, <3>1 DEF Here, Calls
  <2>5. CASE Harmless /\ Go(c, "set_error")
    <3>1. CallMoves(c, p, "set_error") /\ "set_error" \in Steps
      BY <2>3, <2>5 DEF Here, Calls, CallMoves, Steps
    <3>2. QED
      BY <2>3, <2>5, <3>1 DEF Here, Calls
  <2>6. QED
    BY <2>2, <2>4, <2>5
<1>4. ASSUME CallStart(c)
      PROVE  Moved
  <2>1. OpStart(on[c]) => OpStart(p)
    BY DEF OpStart, Hurt
  <2>2. \/ OpStart(p) /\ Go(c, "set_active")
        \/ Harmless /\ Go(c, "set_error")
    BY <1>4, <2>1 DEF CallStart
  <2>3. Here(c, "start") /\ Calls(c)
    BY <1>4 DEF CallStart
  <2>4. CASE OpStart(p) /\ Go(c, "set_active")
    <3>1. CallMoves(c, p, "set_active") /\ "set_active" \in Steps
      BY <2>3, <2>4 DEF Here, Calls, CallMoves, Steps
    <3>2. QED
      BY <2>3, <2>4, <3>1 DEF Here, Calls
  <2>5. CASE Harmless /\ Go(c, "set_error")
    <3>1. CallMoves(c, p, "set_error") /\ "set_error" \in Steps
      BY <2>3, <2>5 DEF Here, Calls, CallMoves, Steps
    <3>2. QED
      BY <2>3, <2>5, <3>1 DEF Here, Calls
  <2>6. QED
    BY <2>2, <2>4, <2>5
<1>5. ASSUME CallStop(c)
      PROVE  Moved
  <2>1. OpStop(on[c]) => OpStop(p)
    BY DEF OpStop, Straddle, InHandler, Hurt
  <2>2. CallMoves(c, p, "set_disabled") /\ "set_disabled" \in Steps
    BY <1>5, <2>1 DEF CallStop, Here, Calls, CallMoves, Steps
  <2>3. QED
    BY <1>5, <2>2 DEF CallStop, Here, Calls
<1>6. ASSUME CallExit(c)
      PROVE  Moved
  <2>1. OpExit(on[c]) => OpExit(p)
    BY DEF OpExit, Straddle, InHandler, Hurt
  <2>2. CallMoves(c, p, "set_loaded") /\ "set_loaded" \in Steps
    BY <1>6, <2>1 DEF CallExit, Here, Calls, CallMoves, Steps
  <2>3. QED
    BY <1>6, <2>2 DEF CallExit, Here, Calls
<1>7. ASSUME Sets(c)
      PROVE  Moved
  <2>1. PICK step, s : SetState(c, step, s) /\ <<step, s>> \in
          {<<"set_initialized", "INITIALIZED">>, <<"set_error", "ERROR">>, <<"set_active", "ACTIVE">>,
           <<"set_disabled", "DISABLED">>, <<"set_loaded", "LOADED">>}
    BY <1>7 DEF Sets
  <2>2. PICK next \in {"start", "exit", "idle"} : next = AfterSet(c)
    BY DEF AfterSet
  <2>3. /\ pc[c] = step /\ state' = [state EXCEPT ![p] = s] /\ Go(c, next) /\ Harmless
        /\ Sound /\ module[p] # "absent" /\ UNCHANGED <<registry, module, walk, overlapped, undermined>>
    BY <2>1, <2>2 DEF SetState, Here, Harmless, history, Go
  <2>4. next \in Steps
    BY DEF Steps
  <2>5. /\ next = "start" => step = "set_initialized"
        /\ next = "exit" => step = "set_disabled"
    BY <2>2, <2>3 DEF AfterSet
  <2>6. CallMoves(c, p, next)
    BY <2>1, <2>3, <2>5 DEF CallMoves
  <2>7. pc[c] # "idle"
    BY <2>1, <2>3
  <2>8. QED
    BY <2>3, <2>4, <2>6, <2>7
<1>8. ASSUME UsesGonePlugin(c)
      PROVE  /\ pc[c] # "idle" /\ Sound /\ UNCHANGED <<registry, module, walk, overlapped, undermined>>
             /\ module[p] = "absent" /\ Hurt(p, "gone") /\ UNCHANGED <<state, control>>
  BY <1>8 DEF UsesGonePlugin, Hurt
<1>9. QED
  <2>1. Moved \/ UsesGonePlugin(c)
    <3> HIDE DEF Moved
    <3>1. QED
      BY <1>1, <1>2, <1>3, <1>4, <1>5, <1>6, <1>7 DEF ControlStep
  <2>2. QED
    BY <1>8, <2>1

RegistryTypes ==
  /\ plugin_list \in Seq(Plugins) /\ plugin_count \in Nat
  /\ state \in [Plugins -> States]
  /\ module \in [Plugins -> {"absent", "check", "present", "stop", "exit", "unlink"}]

ControlTypes ==
  /\ on \in [Controllers -> Plugins]
  /\ pc \in [Controllers -> Steps]
  /\ op \in [Controllers -> {"none", "load", "enable", "disable", "unload"}]

LEMMA Types ==
  TypeOK /\ Shape <=>
    /\ RegistryTypes /\ ControlTypes /\ WalkerTypes /\ ObjectsOK
    /\ overlapped \in [Plugins -> BOOLEAN] /\ undermined \in [Walkers -> BOOLEAN]
BY DEF TypeOK, Shape, RegistryTypes, ControlTypes, WalkerTypes, ObjectsOK

LEMMA TypesNext ==
  TypeOK' /\ Shape' <=>
    /\ RegistryTypes' /\ ControlTypes' /\ WalkerTypes' /\ ObjectsOK'
    /\ overlapped' \in [Plugins -> BOOLEAN] /\ undermined' \in [Walkers -> BOOLEAN]
BY DEF TypeOK, Shape, RegistryTypes, ControlTypes, WalkerTypes, ObjectsOK

LEMMA GoTypes ==
  ASSUME ControlTypes, NEW c \in Controllers, NEW next \in Steps, Go(c, next)
  PROVE  ControlTypes'
BY HomeIsDriven DEF ControlTypes, Go
-----------------------------------------------------------------------------
(***************************************************************************)
(* The initial states.                                                      *)
(***************************************************************************)
LEMMA InitIInv == Init => IInv
<1> SUFFICES ASSUME Init
             PROVE  IInv
  OBVIOUS
<1>1. TypeOK
  BY HomeIsDriven DEF Init, TypeOK, States
<1>2. Shape
  BY DEF Init, Shape, States, Steps
<1>3. Registered = {} /\ Len(plugin_list) = 0 /\ DOMAIN plugin_list = {}
  BY DEF Init, Registered, ToSet
<1>4. RegistryConsistent
  BY <1>3 DEF Init, RegistryConsistent
<1>5. \A p \in Plugins : ControlledBy(p) = {} /\ InHandler(p) = {}
  BY DEF Init, ControlledBy, InHandler
<1>6. StandsInList
  BY DEF Init, StandsInList
<1>7. \A p \in Plugins : OutsideIsFresh(p) /\ OneActor(p) /\ StateInCall(p)
  BY <1>5 DEF Init, OutsideIsFresh, OneActor, StateInCall
<1>8. \A p \in Plugins : Truth(p)
  BY <1>5 DEF Init, Truth, InModule, Settled
<1>9. SerialControlIsSafe
  BY DEF Init, SerialControlIsSafe
<1>10. QED
  BY <1>1, <1>2, <1>4, <1>6, <1>7, <1>8, <1>9 DEF IInv, Well
-----------------------------------------------------------------------------
(***************************************************************************)
(* Each action keeps the types and the registry.                            *)
(***************************************************************************)
\* After the first bad access nothing more happens.
LEMMA OnlyWhileSound == Next => Sound
<1>1. \A p \in Plugins : ModuleStep(p) => Sound
  BY DEF ModuleStep, RegisterCheck, Registers, RegisterDuplicate, RegisterInsert, UnregisterBegin, UnregisterStop,
         UnregisterExit, UnregisterUnlink, ScanFires, ScanEnds
<1>2. \A c \in Controllers, p \in Driven : ControlCall(c, p) => Sound
  BY DEF ControlCall, Load, Enable, Disable, Unload, Begin
<1>3. \A p \in Driven : Query(p) \/ Health(p) => Sound
  BY DEF Query, Health
<1>4. \A c \in Controllers : ControlStep(c) => Sound
  BY DEF ControlStep, EnableTries, UnloadDisables, CallInit, CallStart, CallStop, CallExit, Sets,
         SetState, Here, UsesGonePlugin
<1>5. \A w \in Walkers, p \in Driven : SendEvent(w, p) => Sound
  BY DEF SendEvent
<1>6. \A w \in Walkers : WalkStep(w) => Sound
  BY DEF WalkStep, CallHandler, HandlerRequeues, Handles, Resume, ResumePoisoned
<1>7. \A w \in Walkers, step \in {"broadcast", "enumerate"}, ps \in SUBSET Driven : Broadcast(w, step, ps) => Sound
  BY DEF Broadcast
<1>8. QED
  BY <1>1, <1>2, <1>3, <1>4, <1>5, <1>6, <1>7 DEF Next

LEMMA ObjectsStep == IInv /\ [Next]_vars => ObjectsOK'
<1> SUFFICES ASSUME IInv, [Next]_vars
             PROVE  ObjectsOK'
  OBVIOUS
<1>0. /\ ObjectsOK /\ state \in [Plugins -> States] /\ TypeOK /\ Shape
      /\ (\A c \in Controllers : on[c] \in Plugins) /\ (\A w \in Walkers : at[w] \in Plugins)
      /\ Driven \subseteq Plugins
  BY Types, PluginManagerAssumption DEF IInv, TypeOK
<1>1. ASSUME UNCHANGED <<data, work, bad, badState>>, straddled' \in [Plugins -> BOOLEAN]
      PROVE  ObjectsOK'
  BY <1>0, <1>1 DEF ObjectsOK
<1>2. ASSUME Harmless
      PROVE  ObjectsOK'
  BY <1>0, <1>1, <1>2 DEF ObjectsOK, Harmless
<1>3. ASSUME NEW p \in Plugins, Operation(p)
      PROVE  ObjectsOK'
  BY <1>0, <1>3, ObjectSteps
<1>4. ASSUME NEW p \in Plugins, ModuleStep(p)
      PROVE  ObjectsOK'
  <2>1. CASE RegisterCheck(p) \/ RegisterDuplicate(p) \/ UnregisterBegin(p)
    BY <1>2, <2>1 DEF RegisterCheck, Registers, RegisterDuplicate, UnregisterBegin, Harmless, history
  <2>2. CASE RegisterInsert(p)
    <3>1. straddled' \in [Plugins -> BOOLEAN]
      BY <1>0, <2>2 DEF RegisterInsert, NewLife, ObjectsOK
    <3>2. QED
      BY <1>1, <2>2, <3>1 DEF RegisterInsert
  <2>3. CASE UnregisterStop(p) \/ UnregisterExit(p)
    BY <1>3, <2>3 DEF UnregisterStop, UnregisterExit, Operation
  <2>4. CASE UnregisterUnlink(p)
    BY <1>0, <2>4 DEF UnregisterUnlink, ObjectsOK
  <2>5. CASE ScanEnds(p)
    BY <1>0, <2>5 DEF ScanEnds, ObjectsOK, history
  <2>6. CASE ScanFires(p)
    <3>1. CASE data[p] = "live" /\ work' = [work EXCEPT ![p] = "running"]
               /\ UNCHANGED <<data, bad, badState, straddled>>
      BY <1>0, <3>1 DEF ObjectsOK
    <3>2. CASE Hurt(p, "scan")
      BY <1>3, <3>2 DEF Operation
    <3>3. QED
      BY <2>6, <3>1, <3>2 DEF ScanFires
  <2>7. QED
    BY <1>4, <2>1, <2>2, <2>3, <2>4, <2>5, <2>6 DEF ModuleStep
<1>5. ASSUME NEW c \in Controllers, NEW p \in Driven, ControlCall(c, p)
      PROVE  ObjectsOK'
  BY <1>2, <1>5, CallsBegin DEF Begin, Harmless
<1>6. ASSUME NEW p \in Driven, Query(p) \/ Health(p)
      PROVE  ObjectsOK'
  BY <1>0, <1>3, <1>6 DEF Query, Health, Operation
<1>7. ASSUME NEW c \in Controllers, ControlStep(c)
      PROVE  ObjectsOK'
  <2>1. PICK p \in Plugins : p = on[c]
    BY <1>0
  <2>2. \/ Hurt(p, "gone")
        \/ \E next \in Steps : CallMoves(c, p, next)
    BY <1>7, <2>1, ControlMoves
  <2>3. Hurt(p, "gone") => Operation(p)
    BY DEF Operation
  <2>4. (\E next \in Steps : CallMoves(c, p, next)) => Operation(p)
    BY DEF CallMoves, Operation
  <2>5. QED
    BY <1>3, <2>2, <2>3, <2>4
<1>8. ASSUME NEW w \in Walkers, WalkAction(w)
      PROVE  ObjectsOK'
  <2>1. Walks(w)
    <3>1. \A p \in Plugins : OutsideIsFresh(p)
      BY DEF IInv, Well
    <3>2. QED
      BY <1>8, <3>1, WalkMoves DEF IInv
  <2>2. straddled' \in [Plugins -> BOOLEAN]
    BY <1>0, <2>1 DEF Walks, ObjectsOK
  <2>3. QED
    BY <1>1, <2>1, <2>2 DEF Walks
<1>9. ASSUME NEW w \in Walkers, CallHandler(w) \/ HandlerRequeues(w)
      PROVE  ObjectsOK'
  <2>1. PICK p \in Plugins : p = at[w]
    BY <1>0
  <2>2. \/ Harmless \/ OpStart(p) \/ Hurt(p, "gone") \/ \E kind \in {"null", "freed"} : Hurt(p, kind)
    BY <1>0, <1>9, <2>1, HandlerMoves
  <2>3. Operation(p)
    BY <2>2 DEF Operation
  <2>4. QED
    BY <1>3, <2>3
<1>10. CASE UNCHANGED vars
  BY <1>2, <1>10 DEF vars, history, Harmless
<1>11. QED
  BY <1>4, <1>5, <1>6, <1>7, <1>8, <1>9, <1>10 DEF Next, WalkStep, WalkAction

\* The kinds of steps, by what they change of the calls.
LEMMA ControlTypesStep == IInv /\ [Next]_vars => ControlTypes' /\ overlapped' \in [Plugins -> BOOLEAN]
<1> SUFFICES ASSUME IInv, [Next]_vars
             PROVE  ControlTypes' /\ overlapped' \in [Plugins -> BOOLEAN]
  OBVIOUS
<1>0. /\ ControlTypes /\ overlapped \in [Plugins -> BOOLEAN] /\ Driven \subseteq Plugins
      /\ TypeOK /\ Shape /\ \A c \in Controllers : on[c] \in Plugins
  BY Types, PluginManagerAssumption DEF IInv, TypeOK
<1>1. ASSUME UNCHANGED control
      PROVE  ControlTypes'
  BY <1>0, <1>1 DEF control, ControlTypes
<1>2. ASSUME NEW p \in Plugins, ModuleStep(p)
      PROVE  UNCHANGED control /\ overlapped' \in [Plugins -> BOOLEAN]
  BY <1>0, <1>2 DEF ModuleStep, RegisterCheck, Registers, RegisterDuplicate, RegisterInsert, NewLife, UnregisterBegin,
     UnregisterStop, UnregisterExit, UnregisterUnlink, ScanFires, ScanEnds, history
<1>3. ASSUME NEW c \in Controllers, NEW p \in Driven, ControlCall(c, p)
      PROVE  ControlTypes' /\ overlapped' \in [Plugins -> BOOLEAN]
  <2>1. PICK call \in {"load", "enable", "disable", "unload"},
             next \in {"init", "start", "try", "stop", "disable", "exit"} : Begin(c, call, p, next)
    BY <1>3, CallsBegin
  <2>2. next \in Steps /\ p \in Plugins
    BY <1>0 DEF Steps
  <2>3. QED
    BY <1>0, <2>1, <2>2 DEF Begin, ControlTypes
<1>4. ASSUME NEW p \in Driven, Query(p) \/ Health(p)
      PROVE  UNCHANGED control /\ overlapped' \in [Plugins -> BOOLEAN]
  BY <1>0, <1>4 DEF Query, Health
<1>5. ASSUME NEW c \in Controllers, ControlStep(c)
      PROVE  ControlTypes' /\ UNCHANGED overlapped
  <2>1. PICK p \in Plugins : p = on[c]
    BY <1>0
  <2>2. UNCHANGED overlapped /\ (UNCHANGED control \/ \E next \in Steps : Go(c, next))
    BY <1>5, <2>1, ControlMoves
  <2>3. QED
    BY <1>0, <1>1, <2>2, GoTypes
<1>6. ASSUME NEW w \in Walkers, WalkAction(w)
      PROVE  UNCHANGED control /\ UNCHANGED overlapped
  <2>1. Walks(w)
    BY <1>6 DEF WalkAction, Broadcast, SendEvent, Resume, ResumePoisoned
  <2>2. QED
    BY <2>1 DEF Walks
<1>7. ASSUME NEW w \in Walkers, CallHandler(w) \/ HandlerRequeues(w)
      PROVE  UNCHANGED control /\ UNCHANGED overlapped
  BY <1>7 DEF CallHandler, HandlerRequeues, Handles
<1>8. CASE UNCHANGED vars
  BY <1>0, <1>1, <1>8 DEF vars, history
<1>9. QED
  BY <1>0, <1>1, <1>2, <1>3, <1>4, <1>5, <1>6, <1>7, <1>8 DEF Next, WalkStep, WalkAction

LEMMA WalkerTypesStep == IInv /\ [Next]_vars => WalkerTypes' /\ undermined' \in [Walkers -> BOOLEAN]
<1> SUFFICES ASSUME IInv, [Next]_vars
             PROVE  WalkerTypes' /\ undermined' \in [Walkers -> BOOLEAN]
  OBVIOUS
<1>0. /\ WalkerTypes /\ undermined \in [Walkers -> BOOLEAN] /\ TypeOK /\ Shape
      /\ \A w \in Walkers : at[w] \in Plugins
  BY Types DEF IInv, TypeOK
<1>1. ASSUME UNCHANGED walk, undermined' \in [Walkers -> BOOLEAN]
      PROVE  WalkerTypes' /\ undermined' \in [Walkers -> BOOLEAN]
  BY <1>0, <1>1 DEF walk, WalkerTypes
<1>2. ASSUME NEW p \in Plugins, ModuleStep(p)
      PROVE  UNCHANGED walk /\ undermined' \in [Walkers -> BOOLEAN]
  BY <1>0, <1>2 DEF ModuleStep, RegisterCheck, Registers, RegisterDuplicate, RegisterInsert, UnregisterBegin,
     UnregisterStop, UnregisterExit, UnregisterUnlink, ScanFires, ScanEnds, history
<1>3. ASSUME NEW c \in Controllers, NEW p \in Driven, ControlCall(c, p)
      PROVE  UNCHANGED walk /\ UNCHANGED undermined
  BY <1>3, CallsBegin DEF Begin
<1>4. ASSUME NEW p \in Driven, Query(p) \/ Health(p)
      PROVE  UNCHANGED walk /\ UNCHANGED undermined
  BY <1>4 DEF Query, Health
<1>5. ASSUME NEW c \in Controllers, ControlStep(c)
      PROVE  UNCHANGED walk /\ UNCHANGED undermined
  <2>1. PICK p \in Plugins : p = on[c]
    BY DEF IInv, TypeOK
  <2>2. QED
    BY <1>5, <2>1, ControlMoves
<1>6. ASSUME NEW w \in Walkers, WalkAction(w)
      PROVE  WalkerTypes' /\ UNCHANGED undermined
  <2>1. \A p \in Plugins : OutsideIsFresh(p)
    BY DEF IInv, Well
  <2>2. QED
    BY <1>6, <2>1, WalkMoves DEF IInv
<1>7. ASSUME NEW w \in Walkers, CallHandler(w) \/ HandlerRequeues(w)
      PROVE  WalkerTypes' /\ undermined' \in [Walkers -> BOOLEAN]
  <2>1. PICK p \in Plugins : p = at[w]
    BY <1>0
  <2>2. QED
    BY <1>0, <1>7, <2>1, HandlerMoves
<1>8. CASE UNCHANGED vars
  BY <1>0, <1>1, <1>8 DEF vars, history
<1>9. QED
  BY <1>0, <1>1, <1>2, <1>3, <1>4, <1>5, <1>6, <1>7, <1>8 DEF Next, WalkStep, WalkAction

InList == {"present", "stop", "exit", "unlink"}

\* The list and its count stay as they are, and the modules that are in it.
listed == <<plugin_list, plugin_count, name>>

LEMMA ListKept ==
  ASSUME RegistryTypes, RegistryConsistent, UNCHANGED listed, RegistryTypes',
         \A q \in Plugins : module'[q] \in InList <=> module[q] \in InList
  PROVE  RegistryConsistent'
BY DEF RegistryConsistent, Registered, listed, InList

\* A step of the module p alone.
LEMMA ModuleMoves ==
  ASSUME RegistryTypes, NEW p \in Plugins,
         NEW m \in {"absent", "check", "present", "stop", "exit", "unlink"},
         module' = [module EXCEPT ![p] = m], UNCHANGED <<listed, state>>,
         m \in InList <=> module[p] \in InList
  PROVE  /\ RegistryTypes'
         /\ \A q \in Plugins : module'[q] \in InList <=> module[q] \in InList
BY DEF RegistryTypes, listed

LEMMA InsertKeepsList ==
  ASSUME RegistryTypes, RegistryConsistent, NEW p \in Plugins, RegisterInsert(p)
  PROVE  /\ RegistryTypes' /\ RegistryConsistent'
         /\ Registered' = Registered \cup {p}
<1>0. /\ plugin_list \in Seq(Plugins) /\ plugin_count = Len(plugin_list) /\ plugin_count \in Nat
      /\ Registered = {q \in Plugins : module[q] \in InList}
      /\ OneOfAName(plugin_list, name)
  BY DEF RegistryTypes, RegistryConsistent, InList, OneOfAName
<1>1. /\ plugin_list' = Append(plugin_list, p) /\ plugin_count' = plugin_count + 1 /\ name' = name
      /\ state' = [state EXCEPT ![p] = "LOADED"] /\ module' = [module EXCEPT ![p] = "present"]
      /\ \A q \in ToSet(plugin_list) : name[q] # name[p]
  BY DEF RegisterInsert, Registered
<1>2. /\ plugin_list' \in Seq(Plugins) /\ Len(plugin_list') = Len(plugin_list) + 1
      /\ ToSet(plugin_list') = ToSet(plugin_list) \cup {p}
      /\ OneOfAName(plugin_list', name)
  BY <1>0, <1>1, ListAppend
<1>3. RegistryTypes'
  BY <1>0, <1>1, <1>2 DEF RegistryTypes, States
<1>4. Registered' = Registered \cup {p}
  BY <1>2 DEF Registered
<1>5. Registered' = {q \in Plugins : module'[q] \in InList}
  BY <1>0, <1>1, <1>4 DEF RegistryTypes, InList
<1>6. QED
  BY <1>0, <1>1, <1>2, <1>3, <1>4, <1>5 DEF RegistryConsistent, InList, OneOfAName

LEMMA UnlinkKeepsList ==
  ASSUME RegistryTypes, RegistryConsistent, NEW p \in Plugins, UnregisterUnlink(p)
  PROVE  /\ RegistryTypes' /\ RegistryConsistent'
         /\ Registered' = Registered \ {p}
<1>0. /\ plugin_list \in Seq(Plugins) /\ plugin_count = Len(plugin_list)
      /\ Registered = {q \in Plugins : module[q] \in InList}
      /\ OneOfAName(plugin_list, name)
  BY DEF RegistryTypes, RegistryConsistent, InList, OneOfAName
<1>1. /\ plugin_count' = plugin_count - 1 /\ name' = name
      /\ state' = [state EXCEPT ![p] = "UNLOADED"] /\ module' = [module EXCEPT ![p] = "absent"]
  BY DEF UnregisterUnlink
<1>2. PICK k \in 1 .. Len(plugin_list) : plugin_list[k] = p /\ plugin_list' = RemoveAt(plugin_list, k)
  <2>1. DOMAIN plugin_list = 1 .. Len(plugin_list)
    BY <1>0
  <2>2. QED
    BY <2>1 DEF UnregisterUnlink
<1>3. /\ plugin_list' \in Seq(Plugins) /\ Len(plugin_list') = Len(plugin_list) - 1
      /\ ToSet(plugin_list') = ToSet(plugin_list) \ {p}
      /\ OneOfAName(plugin_list', name)
  BY <1>0, <1>2, ListRemove
<1>4. plugin_count' = Len(plugin_list') /\ plugin_count' \in Nat
  <2>1. Len(plugin_list) \in Nat /\ k \in Nat /\ k >= 1 /\ k <= Len(plugin_list)
    BY <1>0
  <2>2. QED
    BY <1>0, <1>1, <1>3, <2>1
<1>5. RegistryTypes'
  BY <1>1, <1>3, <1>4 DEF RegistryTypes, States
<1>6. Registered' = Registered \ {p}
  BY <1>3 DEF Registered
<1>7. Registered' = {q \in Plugins : module'[q] \in InList}
  BY <1>0, <1>1, <1>6 DEF RegistryTypes, InList
<1>8. QED
  BY <1>1, <1>3, <1>4, <1>5, <1>6, <1>7 DEF RegistryConsistent, InList, OneOfAName

\* Every other step leaves the list alone.
LEMMA ListSteps ==
  ASSUME IInv, [Next]_vars
  PROVE  \/ \E p \in Plugins : RegisterInsert(p) \/ UnregisterUnlink(p)
         \/ /\ UNCHANGED listed /\ RegistryTypes'
            /\ \A q \in Plugins : module'[q] \in InList <=> module[q] \in InList
<1> DEFINE Kept == /\ UNCHANGED listed /\ RegistryTypes'
                   /\ \A q \in Plugins : module'[q] \in InList <=> module[q] \in InList
<1>0. RegistryTypes /\ TypeOK /\ Shape
  BY Types DEF IInv
<1>1. ASSUME UNCHANGED <<listed, state, module>>
      PROVE  Kept
  BY <1>0, <1>1 DEF listed, RegistryTypes
<1>2. ASSUME NEW p \in Plugins, ModuleStep(p)
      PROVE  RegisterInsert(p) \/ UnregisterUnlink(p) \/ Kept
  <2>1. CASE RegisterCheck(p)
    BY <1>0, <2>1, ModuleMoves DEF RegisterCheck, Registers, listed, InList
  <2>2. CASE RegisterDuplicate(p)
    BY <1>0, <2>2, ModuleMoves DEF RegisterDuplicate, listed, registry, InList
  <2>3. CASE UnregisterBegin(p)
    <3>1. PICK m \in {"stop", "exit", "unlink"} : module' = [module EXCEPT ![p] = m]
      BY <2>3 DEF UnregisterBegin
    <3>2. QED
      BY <1>0, <2>3, <3>1, ModuleMoves DEF UnregisterBegin, listed, registry, InList
  <2>4. CASE UnregisterStop(p)
    <3>1. PICK m \in {"exit", "unlink"} : module' = [module EXCEPT ![p] = m]
      BY <2>4 DEF UnregisterStop
    <3>2. QED
      BY <1>0, <2>4, <3>1, ModuleMoves DEF UnregisterStop, listed, registry, InList
  <2>5. CASE UnregisterExit(p)
    BY <1>0, <2>5, ModuleMoves DEF UnregisterExit, listed, registry, InList
  <2>6. CASE ScanFires(p) \/ ScanEnds(p)
    <3>1. UNCHANGED <<listed, state, module>>
      BY <2>6 DEF ScanFires, ScanEnds, listed, registry
    <3>2. QED
      BY <1>1, <3>1
  <2>7. QED
    BY <1>2, <2>1, <2>2, <2>3, <2>4, <2>5, <2>6 DEF ModuleStep
<1>3. ASSUME NEW c \in Controllers, NEW p \in Driven, ControlCall(c, p)
      PROVE  Kept
  <2>1. UNCHANGED <<listed, state, module>>
    BY <1>3, CallsBegin DEF Begin, listed, registry
  <2>2. QED
    BY <1>1, <2>1
<1>4. ASSUME NEW p \in Driven, Query(p) \/ Health(p)
      PROVE  Kept
  <2>1. UNCHANGED <<listed, state, module>>
    BY <1>4 DEF Query, Health, listed, registry
  <2>2. QED
    BY <1>1, <2>1
<1>5. ASSUME NEW c \in Controllers, ControlStep(c)
      PROVE  Kept
  <2>1. PICK p \in Plugins : p = on[c]
    BY <1>0 DEF TypeOK
  <2>2. /\ UNCHANGED <<listed, module>>
        /\ \/ UNCHANGED state
           \/ \E next \in Steps : CallMoves(c, p, next)
    BY <1>5, <2>1, ControlMoves DEF listed, registry
  <2>3. UNCHANGED state \/ \E s \in States : state' = [state EXCEPT ![p] = s]
    <3>1. ASSUME NEW next \in Steps, CallMoves(c, p, next)
          PROVE  UNCHANGED state \/ \E s \in States : state' = [state EXCEPT ![p] = s]
      BY <3>1 DEF CallMoves, States
    <3>2. QED
      BY <2>2, <3>1
  <2>4. state' \in [Plugins -> States]
    BY <1>0, <2>3 DEF RegistryTypes
  <2>5. QED
    BY <1>0, <2>2, <2>4 DEF RegistryTypes, listed
<1>6. ASSUME NEW w \in Walkers, WalkAction(w) \/ CallHandler(w) \/ HandlerRequeues(w)
      PROVE  Kept
  <2>1. Walks(w) \/ CallHandler(w) \/ HandlerRequeues(w)
    BY <1>6 DEF WalkAction, Broadcast, SendEvent, Resume, ResumePoisoned
  <2>2. UNCHANGED <<listed, state, module>>
    BY <2>1 DEF Walks, CallHandler, HandlerRequeues, Handles, listed, registry
  <2>3. QED
    BY <1>1, <2>2
<1>7. ASSUME UNCHANGED vars
      PROVE  Kept
  <2>1. UNCHANGED <<listed, state, module>>
    BY <1>7 DEF vars, listed, registry
  <2>2. QED
    BY <1>1, <2>1
<1> DEFINE Listed == (\E p \in Plugins : RegisterInsert(p) \/ UnregisterUnlink(p)) \/ Kept
<1> HIDE DEF Kept
<1>8. ASSUME NEW p \in Plugins, ModuleStep(p)
      PROVE  Listed
  BY <1>2, <1>8
<1>9. Kept => Listed
  OBVIOUS
<1> HIDE DEF Listed
<1>10. ASSUME NEW w \in Walkers, WalkAction(w)
       PROVE  Listed
  BY <1>6, <1>9, <1>10
<1>11. ASSUME NEW w \in Walkers, CallHandler(w) \/ HandlerRequeues(w)
       PROVE  Listed
  BY <1>6, <1>9, <1>11
<1>12. Listed
  BY <1>3, <1>4, <1>5, <1>7, <1>8, <1>9, <1>10, <1>11 DEF Next, WalkStep, WalkAction
<1>13. QED
  BY <1>12 DEF Listed, Kept

LEMMA RegistryStep == IInv /\ [Next]_vars => RegistryTypes' /\ RegistryConsistent'
<1> SUFFICES ASSUME IInv, [Next]_vars
             PROVE  RegistryTypes' /\ RegistryConsistent'
  OBVIOUS
<1>0. RegistryTypes /\ RegistryConsistent
  BY Types DEF IInv
<1>1. QED
  BY <1>0, ListSteps, ListKept, InsertKeepsList, UnlinkKeepsList

LEMMA StandsInListStep == IInv /\ [Next]_vars => StandsInList'
<1> SUFFICES ASSUME IInv, [Next]_vars
             PROVE  StandsInList'
  OBVIOUS
<1>0. /\ WalkerTypes /\ RegistryTypes /\ RegistryConsistent /\ StandsInList /\ TypeOK /\ Shape
      /\ undermined \in [Walkers -> BOOLEAN]
      /\ \A p \in Plugins : OutsideIsFresh(p)
  BY Types DEF IInv, Well
<1>1. ASSUME Registered \subseteq Registered', UNCHANGED <<walk, undermined>>
      PROVE  StandsInList'
  BY <1>0, <1>1 DEF StandsInList, walk
<1>2. UNCHANGED registry => Registered' = Registered
  BY DEF registry, Registered
<1>3. ASSUME NEW p \in Plugins, ModuleStep(p)
      PROVE  StandsInList'
  <2>1. CASE RegisterInsert(p)
    BY <1>0, <1>1, <2>1, InsertKeepsList DEF RegisterInsert
  <2>2. CASE UnregisterUnlink(p)
    <3>1. Registered' = Registered \ {p}
      BY <1>0, <2>2, UnlinkKeepsList
    <3>2. UNCHANGED walk /\ \A w \in Walkers : undermined'[w] <=> undermined[w] \/ (wpc[w] # "idle" /\ at[w] = p)
      BY <2>2 DEF UnregisterUnlink
    <3>3. QED
      BY <1>0, <3>1, <3>2 DEF StandsInList, walk
  <2>3. CASE ~RegisterInsert(p) /\ ~UnregisterUnlink(p)
    <3>1. UNCHANGED <<listed, walk, undermined>>
      BY <1>3, <2>3 DEF ModuleStep, RegisterCheck, Registers, RegisterDuplicate, UnregisterBegin, UnregisterStop,
         UnregisterExit, ScanFires, ScanEnds, history, listed, registry
    <3>2. Registered' = Registered
      BY <3>1 DEF listed, Registered
    <3>3. QED
      BY <1>1, <3>1, <3>2
  <2>4. QED
    BY <2>1, <2>2, <2>3
<1>4. ASSUME NEW c \in Controllers, NEW p \in Driven, ControlCall(c, p)
      PROVE  StandsInList'
  BY <1>1, <1>2, <1>4, CallsBegin DEF Begin
<1>5. ASSUME NEW p \in Driven, Query(p) \/ Health(p)
      PROVE  StandsInList'
  BY <1>1, <1>2, <1>5 DEF Query, Health
<1>6. ASSUME NEW c \in Controllers, ControlStep(c)
      PROVE  StandsInList'
  <2>1. PICK p \in Plugins : p = on[c]
    BY <1>0 DEF TypeOK
  <2>2. QED
    BY <1>1, <1>2, <1>6, <2>1, ControlMoves
<1>7. ASSUME NEW w \in Walkers, WalkAction(w)
      PROVE  StandsInList'
  <2>1. /\ Walks(w) /\ UNCHANGED undermined
        /\ \E step, p : /\ MayStandAt(w, step, p)
                        /\ wpc' = [wpc EXCEPT ![w] = step] /\ at' = [at EXCEPT ![w] = p]
    BY <1>0, <1>7, WalkMoves
  <2>2. PICK step, p : /\ MayStandAt(w, step, p)
                       /\ wpc' = [wpc EXCEPT ![w] = step] /\ at' = [at EXCEPT ![w] = p]
    BY <2>1
  <2>3. Registered' = Registered
    BY <1>2, <2>1 DEF Walks
  <2>4. wpc'[w] = step /\ at'[w] = p /\ \A v \in Walkers : v # w => wpc'[v] = wpc[v] /\ at'[v] = at[v]
    BY <1>0, <2>2 DEF WalkerTypes
  <2>5. step # "idle" /\ ~undermined[w] => p \in Registered
    BY <2>2 DEF MayStandAt
  <2>6. QED
    BY <1>0, <2>1, <2>3, <2>4, <2>5 DEF StandsInList
<1>8. ASSUME NEW w \in Walkers, CallHandler(w) \/ HandlerRequeues(w)
      PROVE  StandsInList'
  <2>1. PICK p \in Plugins : p = at[w]
    BY <1>0 DEF TypeOK
  <2>2. UNCHANGED registry /\ \A v \in Walkers : wpc'[v] # "idle" =>
           wpc[v] # "idle" /\ at'[v] = at[v] /\ undermined'[v] = undermined[v]
    BY <1>0, <1>8, <2>1, HandlerMoves
  <2>3. QED
    BY <1>0, <1>2, <2>2 DEF StandsInList
<1>9. CASE UNCHANGED vars
  <2>1. UNCHANGED <<registry, walk, undermined>>
    BY <1>9 DEF vars, history
  <2>2. QED
    BY <1>1, <1>2, <2>1
<1>10. QED
  BY <1>3, <1>4, <1>5, <1>6, <1>7, <1>8, <1>9 DEF Next, WalkStep, WalkAction
-----------------------------------------------------------------------------
(***************************************************************************)
(* Each action keeps Well: what it leaves alone, then the plugin it is in.  *)
(***************************************************************************)
LEMMA ControlKept ==
  ASSUME NEW p, UNCHANGED control
  PROVE  ControlledBy(p)' = ControlledBy(p) /\ \A c \in ControlledBy(p) : pc'[c] = pc[c]
BY DEF control, ControlledBy

LEMMA HandlersKept ==
  ASSUME NEW p, UNCHANGED walk
  PROVE  InHandler(p)' = InHandler(p)
BY DEF walk, InHandler

\* A plugin nothing happens to; only whether its work is idle matters.
LEMMA UnmovedIsWell ==
  ASSUME NEW q \in Plugins, Well(q), Sound,
         state'[q] = state[q], module'[q] = module[q], data'[q] = data[q],
         overlapped[q] => overlapped'[q], straddled[q] => straddled'[q],
         module[q] = "check" \/ (Sound' /\ Serial(q)') => (work'[q] = "idle" <=> work[q] = "idle"),
         ControlledBy(q)' = ControlledBy(q), \A c \in ControlledBy(q) : pc'[c] = pc[c],
         InHandler(q)' \subseteq InHandler(q)
  PROVE  Well(q)'
<1>1. OutsideIsFresh(q)'
  BY DEF Well, OutsideIsFresh
<1>2. ~overlapped'[q] => OneActor(q)' /\ StateInCall(q)'
  <2>1. SUFFICES ASSUME ~overlapped'[q]
                 PROVE  OneActor(q)' /\ StateInCall(q)'
    OBVIOUS
  <2>2. OneActor(q) /\ StateInCall(q)
    BY <2>1 DEF Well
  <2>3. OneActor(q)'
    BY <2>2 DEF OneActor
  <2>4. StateInCall(q)'
    BY <2>2 DEF StateInCall
  <2>5. QED
    BY <2>3, <2>4
<1>3. Sound' /\ Serial(q)' => Truth(q)'
  <2>1. SUFFICES ASSUME Sound', Serial(q)'
                 PROVE  Truth(q)'
    OBVIOUS
  <2>2. Truth(q)
    BY <2>1 DEF Well, Serial
  <2>3. work'[q] = "idle" <=> work[q] = "idle"
    BY <2>1
  <2>4. Settled(state[q], data[q], work[q]) => Settled(state[q], data[q], work'[q])
    BY <2>3 DEF Settled
  <2>5. \A c \in ControlledBy(q) : InCall(pc'[c], state[q], data[q], work'[q], InHandler(q)')
    BY <2>2, <2>3, <2>4 DEF Truth, InCall
  <2>6. ControlledBy(q) = {} => InModule(module[q], state[q], data[q], work'[q], InHandler(q)')
    BY <2>2, <2>3, <2>4 DEF Truth, InModule
  <2>7. InHandler(q)' # {} => state[q] = "ACTIVE" /\ Settled(state[q], data[q], work'[q])
    BY <2>2, <2>4 DEF Truth
  <2>8. QED
    BY <2>5, <2>6, <2>7 DEF Truth
<1>4. QED
  BY <1>1, <1>2, <1>3 DEF Well

LEMMA OperationElsewhere ==
  ASSUME ObjectsOK, NEW p \in Plugins, Operation(p)
  PROVE  /\ \A q \in Plugins : q # p =>
              data'[q] = data[q] /\ work'[q] = work[q] /\ straddled'[q] = straddled[q]
         /\ \A q \in Plugins : straddled[q] => straddled'[q]
<1>1. ASSUME Straddle(p)
      PROVE  \A q \in Plugins : (q # p => straddled'[q] = straddled[q]) /\ (straddled[q] => straddled'[q])
  BY <1>1 DEF Straddle, ObjectsOK
<1>2. QED
  BY <1>1 DEF Operation, OpInit, OpStart, OpStop, OpExit, OpQuery, OpHealth, Harmless, Hurt, ObjectsOK

LEMMA HurtEndsTheRun ==
  ASSUME ObjectsOK, NEW p \in Plugins, NEW kind, kind # "no", Hurt(p, kind)
  PROVE  ~Sound'
BY DEF ObjectsOK, Hurt, Sound

\* Registration.
LEMMA RegisterIsWell ==
  ASSUME IInv, NEW p \in Plugins, RegisterCheck(p) \/ RegisterDuplicate(p) \/ RegisterInsert(p)
  PROVE  \A q \in Plugins : Well(q)'
<1>0. /\ RegistryTypes /\ ObjectsOK /\ overlapped \in [Plugins -> BOOLEAN] /\ Sound
      /\ \A q \in Plugins : Well(q)
  BY Types DEF IInv, RegisterCheck, Registers, RegisterDuplicate, RegisterInsert
<1>1. UNCHANGED <<data, work, control, walk, bad>>
  BY DEF RegisterCheck, Registers, RegisterDuplicate, RegisterInsert, history
<1>2. ASSUME NEW q \in Plugins, q # p
      PROVE  Well(q)'
  <2>1. /\ state'[q] = state[q] /\ module'[q] = module[q]
        /\ overlapped'[q] = overlapped[q] /\ straddled'[q] = straddled[q]
    BY <1>0, <1>2 DEF RegisterCheck, Registers, RegisterDuplicate, RegisterInsert, NewLife, history, RegistryTypes, ObjectsOK
  <2>2. QED
    BY <1>0, <1>1, <2>1, UnmovedIsWell, ControlKept, HandlersKept
<1>3. ControlledBy(p)' = ControlledBy(p) /\ InHandler(p)' = InHandler(p)
  BY <1>1, ControlKept, HandlersKept
<1>4. ASSUME RegisterCheck(p) \/ RegisterDuplicate(p)
      PROVE  Well(p)'
  <2>1. ControlledBy(p) = {} /\ InHandler(p) = {} /\ work[p] = "idle"
    BY <1>0, <1>4 DEF RegisterCheck, Registers, RegisterDuplicate, Well, OutsideIsFresh
  <2>2. /\ module[p] \in {"absent", "check"} /\ module'[p] \in {"absent", "check"}
        /\ UNCHANGED <<state, overlapped, straddled>>
    BY <1>0, <1>4 DEF RegisterCheck, Registers, RegisterDuplicate, RegistryTypes, history
  <2>3. state[p] = "UNLOADED" /\ data[p] = "null"
    BY <1>0, <2>2 DEF Well, OutsideIsFresh
  <2>4. OutsideIsFresh(p)'
    BY <1>1, <1>3, <2>1, <2>2, <2>3 DEF OutsideIsFresh
  <2>5. OneActor(p)' /\ StateInCall(p)'
    BY <1>3, <2>1, <2>2 DEF OneActor, StateInCall
  <2>6. Truth(p)'
    BY <1>1, <1>3, <2>1, <2>2, <2>3 DEF Truth, InModule, Settled
  <2>7. QED
    BY <2>4, <2>5, <2>6 DEF Well
<1>5. ASSUME RegisterInsert(p)
      PROVE  Well(p)'
  <2>1. module[p] = "check" /\ module'[p] = "present" /\ state'[p] = "LOADED"
    BY <1>0, <1>5 DEF RegisterInsert, RegistryTypes
  <2>2. /\ ControlledBy(p) = {} /\ InHandler(p) = {} /\ work[p] = "idle"
        /\ data[p] = "null"
    BY <1>0, <2>1 DEF Well, OutsideIsFresh
  <2>3. OutsideIsFresh(p)'
    BY <2>1 DEF OutsideIsFresh
  <2>4. OneActor(p)' /\ StateInCall(p)'
    BY <1>3, <2>1, <2>2 DEF OneActor, StateInCall
  <2>5. Truth(p)'
    BY <1>1, <1>3, <2>1, <2>2 DEF Truth, InModule, Settled
  <2>6. QED
    BY <2>3, <2>4, <2>5 DEF Well
<1>6. QED
  BY <1>2, <1>4, <1>5

\* Removal.
LEMMA UnregisterIsWell ==
  ASSUME IInv, NEW p \in Plugins,
         UnregisterBegin(p) \/ UnregisterStop(p) \/ UnregisterExit(p) \/ UnregisterUnlink(p)
  PROVE  \A q \in Plugins : Well(q)'
<1>0. /\ RegistryTypes /\ ObjectsOK /\ overlapped \in [Plugins -> BOOLEAN] /\ Sound
      /\ \A q \in Plugins : Well(q)
  BY Types DEF IInv, UnregisterBegin, UnregisterStop, UnregisterExit, UnregisterUnlink
<1>1. UNCHANGED <<control, walk>>
  BY DEF UnregisterBegin, UnregisterStop, UnregisterExit, UnregisterUnlink
<1>2. ASSUME NEW q \in Plugins, q # p
      PROVE  Well(q)'
  <2>1. /\ state'[q] = state[q] /\ module'[q] = module[q] /\ overlapped'[q] = overlapped[q]
    BY <1>0, <1>2 DEF UnregisterBegin, UnregisterStop, UnregisterExit, UnregisterUnlink, RegistryTypes
  <2>2. data'[q] = data[q] /\ work'[q] = work[q] /\ straddled'[q] = straddled[q]
    <3>1. CASE UnregisterStop(p) \/ UnregisterExit(p)
      <4>1. Operation(p)
        BY <3>1 DEF UnregisterStop, UnregisterExit, Operation
      <4>2. QED
        BY <1>0, <1>2, <4>1, OperationElsewhere
    <3>2. CASE UnregisterBegin(p) \/ UnregisterUnlink(p)
      BY <1>0, <1>2, <3>2 DEF UnregisterBegin, UnregisterUnlink, ObjectsOK
    <3>3. QED
      BY <3>1, <3>2
  <2>3. QED
    BY <1>0, <1>1, <2>1, <2>2, UnmovedIsWell, ControlKept, HandlersKept
<1>3. ControlledBy(p)' = ControlledBy(p) /\ InHandler(p)' = InHandler(p)
  BY <1>1, ControlKept, HandlersKept
<1>4. ASSUME ~overlapped[p], module[p] # "present"
      PROVE  ControlledBy(p) = {} /\ StateInCall(p)
  BY <1>0, <1>4 DEF Well, OneActor
<1>5. ASSUME UnregisterBegin(p)
      PROVE  Well(p)'
  <2>0. UNCHANGED <<state, data, work, straddled>> /\ module[p] = "present"
    BY <1>5 DEF UnregisterBegin
  <2>1. module'[p] = IF state[p] = "ACTIVE" THEN "stop"
                     ELSE IF state[p] \in AtLeastInitialized THEN "exit" ELSE "unlink"
    BY <1>0, <1>5 DEF UnregisterBegin, RegistryTypes
  <2>2. ~overlapped'[p] => ~overlapped[p] /\ ControlledBy(p) = {}
    BY <1>0, <1>5 DEF UnregisterBegin
  <2>3. state[p] # "UNLOADED"
    BY <1>0, <2>0 DEF Well, OutsideIsFresh
  <2>4. OutsideIsFresh(p)'
    BY <2>0, <2>1, <2>3 DEF OutsideIsFresh
  <2>5. ~overlapped'[p] => OneActor(p)' /\ StateInCall(p)'
    BY <1>3, <2>0, <2>1, <2>2 DEF OneActor, StateInCall
  <2>6. Serial(p)' => Truth(p)'
    <3>1. SUFFICES ASSUME Serial(p)'
                   PROVE  Truth(p)'
      OBVIOUS
    <3>2. ControlledBy(p) = {} /\ Truth(p)
      BY <1>0, <2>0, <2>2, <3>1 DEF Well, Serial
    <3>3. /\ Settled(state[p], data[p], work[p])
          /\ InHandler(p) # {} => state[p] = "ACTIVE"
      BY <2>0, <3>2 DEF Truth, InModule
    <3>4. state[p] \in States
      BY <1>0 DEF RegistryTypes
    <3>5. InModule(module'[p], state[p], data[p], work[p], InHandler(p))
      BY <2>1, <2>3, <3>3, <3>4 DEF InModule, Settled, States, AtLeastInitialized
    <3>6. QED
      BY <1>3, <2>0, <3>2, <3>3, <3>5 DEF Truth
  <2>7. QED
    BY <2>4, <2>5, <2>6 DEF Well
<1>6. ASSUME UnregisterStop(p)
      PROVE  Well(p)'
  <2>0. UNCHANGED <<state, overlapped>> /\ module[p] = "stop" /\ OpStop(p)
    BY <1>6 DEF UnregisterStop
  <2>1. module'[p] = IF state[p] \in AtLeastInitialized THEN "exit" ELSE "unlink"
    BY <1>0, <1>6 DEF UnregisterStop, RegistryTypes
  <2>2. state[p] # "UNLOADED"
    BY <1>0, <2>0 DEF Well, OutsideIsFresh
  <2>3. OutsideIsFresh(p)'
    BY <2>0, <2>1, <2>2 DEF OutsideIsFresh
  <2>4. ~overlapped[p] => state[p] = "ACTIVE" /\ ControlledBy(p) = {} /\ module'[p] = "exit"
    BY <1>4, <2>0, <2>1 DEF StateInCall, AtLeastInitialized
  <2>5. ~overlapped'[p] => OneActor(p)' /\ StateInCall(p)'
    BY <1>3, <2>0, <2>4 DEF OneActor, StateInCall, AtLeastInitialized
  <2>6. Sound' /\ Serial(p)' => Truth(p)'
    <3>1. SUFFICES ASSUME Sound', Serial(p)'
                   PROVE  Truth(p)'
      OBVIOUS
    <3>2. ~(data[p] # "live" /\ Hurt(p, data[p]))
      BY <1>0, <3>1 DEF Hurt, Sound, ObjectsOK
    <3>3. data[p] = "live" /\ work' = [work EXCEPT ![p] = "idle"] /\ Straddle(p) /\ UNCHANGED data
      BY <2>0, <3>2 DEF OpStop
    <3>4. InHandler(p) = {} /\ work'[p] = "idle" /\ data'[p] = "live"
      BY <1>0, <3>1, <3>3 DEF Straddle, ObjectsOK, Serial
    <3>5. ControlledBy(p) = {} /\ module'[p] = "exit"
      BY <2>0, <2>4, <3>1 DEF Serial
    <3>6. QED
      BY <1>3, <3>4, <3>5 DEF Truth, InModule
  <2>7. QED
    BY <2>3, <2>5, <2>6 DEF Well
<1>7. ASSUME UnregisterExit(p)
      PROVE  Well(p)'
  <2>0. UNCHANGED <<state, overlapped>> /\ module[p] = "exit" /\ OpExit(p)
    BY <1>7 DEF UnregisterExit
  <2>1. module'[p] = "unlink"
    BY <1>0, <1>7 DEF UnregisterExit, RegistryTypes
  <2>2. OutsideIsFresh(p)'
    BY <1>0, <2>0, <2>1 DEF Well, OutsideIsFresh
  <2>3. ~overlapped[p] => ControlledBy(p) = {}
    BY <1>4, <2>0
  <2>4. ~overlapped'[p] => OneActor(p)' /\ StateInCall(p)'
    BY <1>3, <2>0, <2>1, <2>3 DEF OneActor, StateInCall
  <2>5. Sound' /\ Serial(p)' => Truth(p)'
    <3>1. SUFFICES ASSUME Sound', Serial(p)'
                   PROVE  Truth(p)'
      OBVIOUS
    <3>2. ~Hurt(p, "twice")
      BY <1>0, <3>1, HurtEndsTheRun
    <3>3. Serial(p) /\ ControlledBy(p) = {}
      <4>1. straddled[p] => straddled'[p]
        <5>1. Operation(p)
          BY <2>0 DEF Operation
        <5>2. QED
          BY <1>0, <5>1, OperationElsewhere
      <4>2. QED
        BY <2>0, <2>3, <3>1, <4>1 DEF Serial
    <3>4. work[p] = "idle" /\ InHandler(p) = {}
      BY <1>0, <2>0, <3>3 DEF Well, Truth, InModule
    <3>5. data'[p] # "live" /\ work'[p] = work[p]
      BY <1>0, <2>0, <3>2 DEF OpExit, Harmless, ObjectsOK
    <3>6. QED
      BY <1>3, <2>1, <3>3, <3>4, <3>5 DEF Truth, InModule
  <2>6. QED
    BY <2>2, <2>4, <2>5 DEF Well
<1>8. ASSUME UnregisterUnlink(p)
      PROVE  Well(p)'
  <2>0. UNCHANGED <<overlapped, work>> /\ module[p] = "unlink"
    BY <1>8 DEF UnregisterUnlink
  <2>1. module'[p] = "absent" /\ state'[p] = "UNLOADED" /\ data'[p] = "null"
    BY <1>0, <1>8 DEF UnregisterUnlink, RegistryTypes, ObjectsOK
  <2>2. OutsideIsFresh(p)'
    BY <2>1 DEF OutsideIsFresh
  <2>3. ~overlapped[p] => ControlledBy(p) = {}
    BY <1>4, <2>0
  <2>4. ~overlapped'[p] => OneActor(p)' /\ StateInCall(p)'
    BY <1>3, <2>0, <2>1, <2>3 DEF OneActor, StateInCall
  <2>5. Serial(p)' => Truth(p)'
    <3>1. SUFFICES ASSUME Serial(p)'
                   PROVE  Truth(p)'
      OBVIOUS
    <3>2. Serial(p) /\ InHandler(p) = {} /\ ControlledBy(p) = {}
      BY <1>0, <1>8, <2>0, <2>3, <3>1 DEF UnregisterUnlink, Serial, ObjectsOK
    <3>3. work[p] = "idle"
      BY <1>0, <2>0, <3>2 DEF Well, Truth, InModule
    <3>4. QED
      BY <1>3, <2>0, <2>1, <3>2, <3>3 DEF Truth, InModule, Settled
  <2>6. QED
    BY <2>2, <2>4, <2>5 DEF Well
<1>9. QED
  BY <1>2, <1>5, <1>6, <1>7, <1>8

\* The periodic scan.
LEMMA ScanIsWell ==
  ASSUME IInv, NEW p \in Plugins, ScanFires(p) \/ ScanEnds(p)
  PROVE  \A q \in Plugins : Well(q)'
<1>0. ObjectsOK /\ Sound /\ \A q \in Plugins : Well(q)
  BY Types DEF IInv, ScanFires, ScanEnds
<1>1. /\ UNCHANGED <<state, module, control, walk, overlapped>>
      /\ work[p] \in {"armed", "running"}
  BY DEF ScanFires, ScanEnds, history
<1>2. UNCHANGED <<data, straddled>>
  BY DEF ScanFires, ScanEnds, history, Hurt
<1>3. \A q \in Plugins : work'[q] = "idle" <=> work[q] = "idle"
  BY <1>0, <1>1 DEF ScanFires, ScanEnds, Hurt, ObjectsOK
<1>4. QED
  BY <1>0, <1>1, <1>2, <1>3, UnmovedIsWell, ControlKept, HandlersKept

\* configure_plugin and the like.
LEMMA QueryIsWell ==
  ASSUME IInv, NEW p \in Driven, Query(p) \/ Health(p)
  PROVE  \A q \in Plugins : Well(q)'
<1>0. ObjectsOK /\ Sound /\ (\A q \in Plugins : Well(q)) /\ overlapped \in [Plugins -> BOOLEAN]
  BY Types DEF IInv, Query, Health
<1>1. UNCHANGED <<state, module, control, walk>>
  BY DEF Query, Health
<1>2. UNCHANGED <<data, work, straddled>>
  BY DEF Query, Health, OpQuery, OpHealth, Harmless, Hurt
<1>3. \A q \in Plugins : overlapped[q] => overlapped'[q]
  BY <1>0 DEF Query, Health
<1>4. QED
  BY <1>0, <1>1, <1>2, <1>3, UnmovedIsWell, ControlKept, HandlersKept

\* A control call begins.
LEMMA BeginIsWell ==
  ASSUME IInv, NEW c \in Controllers, NEW p \in Driven, NEW call,
         NEW next \in {"init", "start", "try", "stop", "disable", "exit"},
         Begin(c, call, p, next), Fits(next, state[p])
  PROVE  \A q \in Plugins : Well(q)'
<1>0. /\ RegistryTypes /\ ControlTypes /\ ObjectsOK /\ overlapped \in [Plugins -> BOOLEAN] /\ Sound
      /\ (\A q \in Plugins : Well(q)) /\ p \in Plugins
  BY Types, PluginManagerAssumption DEF IInv, Begin
<1>1. UNCHANGED <<state, module, data, work, walk, straddled>> /\ pc[c] = "idle"
  BY DEF Begin
<1>2. /\ pc'[c] = next /\ on'[c] = p
      /\ \A d \in Controllers : d # c => pc'[d] = pc[d] /\ on'[d] = on[d]
  BY <1>0 DEF Begin, ControlTypes
<1>3. overlapped' = [overlapped EXCEPT ![p] = @ \/ ControlledBy(p) # {} \/ Leaving(p)]
  BY DEF Begin
<1>4. ASSUME NEW q \in Plugins, q # p
      PROVE  Well(q)'
  <2>1. ControlledBy(q)' = ControlledBy(q) /\ \A d \in ControlledBy(q) : pc'[d] = pc[d]
    BY <1>1, <1>2, <1>4 DEF ControlledBy
  <2>2. overlapped'[q] = overlapped[q]
    BY <1>0, <1>3, <1>4
  <2>3. QED
    BY <1>0, <1>1, <2>1, <2>2, UnmovedIsWell, HandlersKept
<1>5. Well(p)'
  <2>1. ControlledBy(p)' = ControlledBy(p) \cup {c}
    BY <1>1, <1>2 DEF ControlledBy
  <2>2. module[p] \in {"present", "stop", "exit", "unlink"}
    BY <1>0 DEF Begin, IInv, RegistryConsistent
  <2>3. ASSUME ~overlapped'[p]
        PROVE  ~overlapped[p] /\ ControlledBy(p) = {} /\ module[p] = "present"
    BY <1>0, <1>3, <2>2, <2>3 DEF Leaving
  <2>4. OutsideIsFresh(p)'
    BY <1>0, <1>1, <2>2 DEF Well, OutsideIsFresh
  <2>5. ~overlapped'[p] => OneActor(p)' /\ StateInCall(p)'
    BY <1>1, <1>2, <2>1, <2>3 DEF OneActor, StateInCall
  <2>6. Serial(p)' => Truth(p)'
    <3>1. SUFFICES ASSUME Serial(p)'
                   PROVE  Truth(p)'
      OBVIOUS
    <3>2. ControlledBy(p) = {} /\ module[p] = "present" /\ Truth(p)
      BY <1>0, <1>1, <2>3, <3>1 DEF Well, Serial
    <3>3. Settled(state[p], data[p], work[p])
      BY <3>2 DEF Truth, InModule
    <3>4. InHandler(p)' = InHandler(p)
      BY <1>1, HandlersKept
    <3>5. InCall(next, state[p], data[p], work[p], InHandler(p))
      BY <3>3 DEF InCall
    <3>6. ControlledBy(p)' = {c}
      BY <2>1, <3>2
    <3>7. QED
      BY <1>1, <1>2, <3>2, <3>4, <3>5, <3>6 DEF Truth
  <2>7. QED
    BY <2>4, <2>5, <2>6 DEF Well
<1>6. QED
  BY <1>4, <1>5

\* Where a control call goes.
LEMMA GoMoves ==
  ASSUME ControlTypes, NEW c \in Controllers, NEW p \in Plugins, p = on[c], pc[c] # "idle",
         NEW next \in Steps, Go(c, next)
  PROVE  /\ \A q \in Plugins : q # p =>
              ControlledBy(q)' = ControlledBy(q) /\ \A d \in ControlledBy(q) : pc'[d] = pc[d]
         /\ ControlledBy(p)' = IF next = "idle" THEN ControlledBy(p) \ {c} ELSE ControlledBy(p)
         /\ c \in ControlledBy(p) /\ pc'[c] = next
<1>1. /\ pc'[c] = next /\ (next # "idle" => on'[c] = p)
      /\ \A d \in Controllers : d # c => pc'[d] = pc[d] /\ on'[d] = on[d]
  BY DEF Go, ControlTypes
<1>2. QED
  BY <1>1 DEF ControlledBy

\* The steps of a control call on which no other one overlaps, by what they
\* find and leave behind.
LEMMA CallKeepsTruth ==
  ASSUME ObjectsOK, NEW c \in Controllers, NEW p \in Plugins, NEW next \in Steps, CallMoves(c, p, next),
         state \in [Plugins -> States], state[p] # "UNLOADED",
         Fits(pc[c], state[p]), Serial(p), Serial(p)', UNCHANGED walk, Sound',
         InCall(pc[c], state[p], data[p], work[p], InHandler(p)),
         InHandler(p) # {} => state[p] = "ACTIVE" /\ Settled(state[p], data[p], work[p])
  PROVE  /\ next # "idle" => InCall(next, state'[p], data'[p], work'[p], InHandler(p))
         /\ next = "idle" => Settled(state'[p], data'[p], work'[p])
         /\ InHandler(p) # {} => state'[p] = "ACTIVE" /\ Settled(state'[p], data'[p], work'[p])
<1>0. /\ \A kind \in {"leak", "null", "freed", "twice", "scan", "gone"} : ~Hurt(p, kind)
      /\ ~(data[p] # "live" /\ Hurt(p, data[p]))
      /\ Straddle(p) => InHandler(p) = {}
  BY DEF Hurt, Sound, ObjectsOK, Straddle, Serial
<1>1. Harmless => UNCHANGED <<data, work>>
  BY DEF Harmless
<1>2. CASE pc[c] = "try"
  BY <1>1, <1>2 DEF CallMoves, InCall
<1>3. CASE pc[c] = "disable"
  BY <1>1, <1>3 DEF CallMoves, InCall
<1>4. CASE pc[c] = "init"
  <2>1. InHandler(p) = {} /\ Settled(state[p], data[p], work[p])
    BY <1>4 DEF InCall, Fits
  <2>2. CASE OpInit(p) /\ next = "set_initialized"
    BY <1>0, <2>1, <2>2 DEF OpInit, InCall, ObjectsOK
  <2>3. CASE Harmless /\ next = "set_error"
    BY <1>1, <1>4, <2>1, <2>3 DEF CallMoves, InCall
  <2>4. QED
    BY <1>4, <2>2, <2>3 DEF CallMoves
<1>5. CASE pc[c] = "start"
  <2>1. InHandler(p) = {} /\ Settled(state[p], data[p], work[p])
    BY <1>5 DEF InCall, Fits
  <2>2. CASE OpStart(p) /\ next = "set_active"
    BY <1>0, <2>1, <2>2 DEF OpStart, InCall, ObjectsOK
  <2>3. CASE Harmless /\ next = "set_error"
    BY <1>1, <1>5, <2>1, <2>3 DEF CallMoves, InCall
  <2>4. QED
    BY <1>5, <2>2, <2>3 DEF CallMoves
<1>6. CASE pc[c] = "stop"
  BY <1>0, <1>6 DEF CallMoves, OpStop, InCall, ObjectsOK
<1>7. CASE pc[c] = "exit"
  <2>1. InHandler(p) = {} /\ work[p] = "idle"
    BY <1>7 DEF InCall, Fits, Settled
  <2>2. next = "set_loaded" /\ OpExit(p)
    BY <1>7 DEF CallMoves
  <2>3. data'[p] # "live" /\ work'[p] = "idle"
    BY <1>0, <2>1, <2>2 DEF OpExit, Harmless, ObjectsOK
  <2>4. QED
    BY <2>1, <2>2, <2>3 DEF InCall
<1>8. CASE pc[c] = "set_initialized"
  <2>1. InHandler(p) = {} /\ data[p] = "live" /\ work[p] = "idle"
    BY <1>8 DEF InCall, Fits
  <2>2. state'[p] = "INITIALIZED" /\ Harmless /\ next \in {"start", "idle"}
    BY <1>8 DEF CallMoves
  <2>3. QED
    BY <1>1, <2>1, <2>2 DEF InCall, Settled
<1>9. CASE pc[c] = "set_error"
  <2>1. InHandler(p) = {} /\ work[p] = "idle"
    BY <1>9 DEF InCall, Fits, Settled
  <2>2. state'[p] = "ERROR" /\ Harmless /\ next = "idle"
    BY <1>9 DEF CallMoves
  <2>3. QED
    BY <1>1, <2>1, <2>2 DEF Settled
<1>10. CASE pc[c] = "set_active"
  <2>1. InHandler(p) = {} /\ work[p] # "idle" /\ data[p] = "live"
    BY <1>10 DEF InCall, Fits
  <2>2. state'[p] = "ACTIVE" /\ Harmless /\ next = "idle"
    BY <1>10 DEF CallMoves
  <2>3. QED
    BY <1>1, <2>1, <2>2 DEF Settled
<1>11. CASE pc[c] = "set_disabled"
  <2>1. InHandler(p) = {} /\ work[p] = "idle" /\ data[p] = "live"
    BY <1>11 DEF InCall
  <2>2. state'[p] = "DISABLED" /\ Harmless /\ next \in {"exit", "idle"}
    BY <1>11 DEF CallMoves
  <2>3. QED
    BY <1>1, <2>1, <2>2 DEF InCall, Settled
<1>12. CASE pc[c] = "set_loaded"
  <2>1. InHandler(p) = {} /\ work[p] = "idle" /\ data[p] # "live"
    BY <1>12 DEF InCall, Fits
  <2>2. state'[p] = "LOADED" /\ Harmless /\ next = "idle"
    BY <1>12 DEF CallMoves
  <2>3. QED
    BY <1>1, <2>1, <2>2 DEF Settled
<1>13. QED
  BY <1>2, <1>3, <1>4, <1>5, <1>6, <1>7, <1>8, <1>9, <1>10, <1>11, <1>12 DEF CallMoves

LEMMA CallKeepsState ==
  ASSUME NEW c \in Controllers, NEW p \in Plugins, NEW next \in Steps, CallMoves(c, p, next),
         state \in [Plugins -> States], state[p] # "UNLOADED", Fits(pc[c], state[p]),
         p \in Registered
  PROVE  /\ next # "idle" => Fits(next, state'[p])
         /\ state'[p] # "UNLOADED"
BY DEF CallMoves, Fits, States

\* A control call goes on.
LEMMA ControlIsWell ==
  ASSUME IInv, NEW c \in Controllers, ControlStep(c)
  PROVE  \A q \in Plugins : Well(q)'
<1>0. /\ RegistryTypes /\ ControlTypes /\ ObjectsOK /\ overlapped \in [Plugins -> BOOLEAN]
      /\ \A q \in Plugins : Well(q)
  BY Types DEF IInv
<1>1. PICK p \in Plugins : p = on[c]
  BY <1>0 DEF ControlTypes
<1>2. /\ pc[c] # "idle" /\ Sound /\ UNCHANGED <<registry, module, walk, overlapped, undermined>>
      /\ \/ module[p] = "absent" /\ Hurt(p, "gone") /\ UNCHANGED <<state, control>>
         \/ module[p] # "absent" /\ \E next \in Steps : Go(c, next) /\ CallMoves(c, p, next)
  BY <1>1, ControlMoves
<1>3. CASE Hurt(p, "gone") /\ UNCHANGED <<state, control>>
  <2>1. UNCHANGED <<data, work, straddled>>
    BY <1>3 DEF Hurt
  <2>2. QED
    BY <1>0, <1>2, <1>3, <2>1, UnmovedIsWell, ControlKept, HandlersKept
<1>4. ASSUME module[p] # "absent", NEW next \in Steps, Go(c, next), CallMoves(c, p, next)
      PROVE  \A q \in Plugins : Well(q)'
  <2>1. /\ \A q \in Plugins : q # p =>
             ControlledBy(q)' = ControlledBy(q) /\ \A d \in ControlledBy(q) : pc'[d] = pc[d]
        /\ ControlledBy(p)' = IF next = "idle" THEN ControlledBy(p) \ {c} ELSE ControlledBy(p)
        /\ c \in ControlledBy(p) /\ pc'[c] = next
    BY <1>0, <1>1, <1>2, <1>4, GoMoves
  <2>2. /\ \A q \in Plugins : q # p =>
             data'[q] = data[q] /\ work'[q] = work[q] /\ straddled'[q] = straddled[q]
        /\ straddled[p] => straddled'[p]
    <3>1. Operation(p)
      BY <1>4 DEF CallMoves, Operation
    <3>2. QED
      BY <1>0, <3>1, OperationElsewhere
  <2>3. \A q \in Plugins : q # p => state'[q] = state[q]
    BY <1>0, <1>4 DEF CallMoves, RegistryTypes
  <2>4. ASSUME NEW q \in Plugins, q # p
        PROVE  Well(q)'
    BY <1>0, <1>2, <2>1, <2>2, <2>3, <2>4, UnmovedIsWell, HandlersKept
  <2>5. Well(p)'
    <3>1. module[p] \in {"present", "stop", "exit", "unlink"}
      BY <1>0, <1>4, <2>1 DEF Well, OutsideIsFresh, RegistryTypes
    <3>2. state[p] # "UNLOADED" /\ p \in Registered
      BY <1>0, <3>1 DEF Well, OutsideIsFresh, IInv, RegistryConsistent
    <3>3. state \in [Plugins -> States]
      BY <1>0 DEF RegistryTypes
    <3>4. state'[p] # "UNLOADED"
      BY <1>4, <3>2, <3>3 DEF CallMoves, States
    <3>5. OutsideIsFresh(p)'
      BY <1>2, <3>1, <3>4 DEF OutsideIsFresh
    <3>6. ASSUME ~overlapped[p]
          PROVE  ControlledBy(p) = {c} /\ module[p] = "present" /\ Fits(pc[c], state[p])
      BY <1>0, <2>1, <3>6 DEF Well, OneActor, StateInCall
    <3>7. ~overlapped'[p] => OneActor(p)' /\ StateInCall(p)'
      <4>1. SUFFICES ASSUME ~overlapped[p]
                     PROVE  OneActor(p)' /\ StateInCall(p)'
        BY <1>2
      <4>2. next # "idle" => Fits(next, state'[p])
        BY <1>4, <3>2, <3>3, <3>6, <4>1, CallKeepsState
      <4>3. ControlledBy(p)' \subseteq {c} /\ (next = "idle" => ControlledBy(p)' = {}) /\ module'[p] = "present"
        BY <1>2, <2>1, <3>6, <4>1
      <4>4. QED
        BY <2>1, <4>2, <4>3 DEF OneActor, StateInCall
    <3>8. Sound' /\ Serial(p)' => Truth(p)'
      <4>1. SUFFICES ASSUME Sound', Serial(p)'
                     PROVE  Truth(p)'
        OBVIOUS
      <4>2. Serial(p) /\ Truth(p) /\ ControlledBy(p) = {c} /\ module[p] = "present" /\ Fits(pc[c], state[p])
        BY <1>0, <1>2, <2>2, <3>6, <4>1 DEF Well, Serial
      <4>3. /\ InCall(pc[c], state[p], data[p], work[p], InHandler(p))
            /\ InHandler(p) # {} => state[p] = "ACTIVE" /\ Settled(state[p], data[p], work[p])
        BY <4>2 DEF Truth
      <4>4. /\ next # "idle" => InCall(next, state'[p], data'[p], work'[p], InHandler(p))
            /\ next = "idle" => Settled(state'[p], data'[p], work'[p])
            /\ InHandler(p) # {} => state'[p] = "ACTIVE" /\ Settled(state'[p], data'[p], work'[p])
        BY <1>0, <1>2, <1>4, <3>2, <3>3, <4>1, <4>2, <4>3, CallKeepsTruth
      <4>5. InHandler(p)' = InHandler(p) /\ module'[p] = "present"
        BY <1>2, <4>2, HandlersKept
      <4>6. CASE next = "idle"
        <5>1. ControlledBy(p)' = {}
          BY <2>1, <4>2, <4>6
        <5>2. InModule("present", state'[p], data'[p], work'[p], InHandler(p))
          BY <4>4, <4>6 DEF InModule
        <5>3. QED
          BY <4>4, <4>5, <5>1, <5>2 DEF Truth
      <4>7. CASE next # "idle"
        <5>1. ControlledBy(p)' = {c} /\ pc'[c] = next
          BY <2>1, <4>2, <4>7
        <5>2. QED
          BY <4>4, <4>5, <4>7, <5>1 DEF Truth
      <4>8. QED
        BY <4>6, <4>7
    <3>9. QED
      BY <3>5, <3>7, <3>8 DEF Well
  <2>6. QED
    BY <2>4, <2>5
<1>5. QED
  BY <1>2, <1>3, <1>4

\* A walker comes to a plugin: in a stop or an exit it is recorded.
LEMMA WalkIsWell ==
  ASSUME IInv, NEW w \in Walkers, WalkAction(w)
  PROVE  \A q \in Plugins : Well(q)'
<1>0. /\ RegistryTypes /\ WalkerTypes /\ ObjectsOK /\ TypeOK /\ Shape /\ RegistryConsistent /\ StandsInList
      /\ (\A q \in Plugins : Well(q)) /\ \A q \in Plugins : OutsideIsFresh(q)
  BY Types DEF IInv, Well
<1>1. /\ Sound /\ Walks(w) /\ wpc[w] \in {"idle", "return"}
      /\ \E step, p : /\ MayStandAt(w, step, p)
                      /\ wpc' = [wpc EXCEPT ![w] = step] /\ at' = [at EXCEPT ![w] = p]
  BY <1>0, WalkMoves
<1>2. PICK step, p : /\ MayStandAt(w, step, p)
                     /\ wpc' = [wpc EXCEPT ![w] = step] /\ at' = [at EXCEPT ![w] = p]
  BY <1>1
<1>3. /\ wpc'[w] = step /\ at'[w] = p
      /\ \A v \in Walkers : v # w => wpc'[v] = wpc[v] /\ at'[v] = at[v]
  BY <1>0, <1>2 DEF WalkerTypes
<1>4. UNCHANGED <<state, module, data, work, control, overlapped, bad>>
  BY <1>1 DEF Walks
<1>5. \A q \in Plugins : straddled[q] => straddled'[q]
  BY <1>0, <1>1 DEF Walks, ObjectsOK
<1>6. ASSUME NEW q \in Plugins, ~(step = "call" /\ q = p)
      PROVE  Well(q)'
  <2>1. InHandler(q)' \subseteq InHandler(q)
    BY <1>2, <1>3, <1>6 DEF InHandler, MayStandAt
  <2>2. QED
    BY <1>0, <1>1, <1>4, <1>5, <2>1, UnmovedIsWell, ControlKept
<1>7. ASSUME step = "call", p \in Plugins
      PROVE  Well(p)'
  <2>1. p \in Registered /\ state[p] = "ACTIVE"
    BY <1>2, <1>7 DEF MayStandAt
  <2>2. module[p] \in {"present", "stop", "exit", "unlink"}
    BY <1>0, <2>1 DEF RegistryConsistent
  <2>3. ControlledBy(p)' = ControlledBy(p) /\ \A c \in ControlledBy(p) : pc'[c] = pc[c]
    BY <1>4, ControlKept
  <2>4. OutsideIsFresh(p)'
    BY <1>0, <1>4, <1>7, <2>2 DEF OutsideIsFresh
  <2>5. ~overlapped'[p] => OneActor(p)' /\ StateInCall(p)'
    <3>1. SUFFICES ASSUME ~overlapped[p]
                   PROVE  OneActor(p)' /\ StateInCall(p)'
      BY <1>4
    <3>2. OneActor(p) /\ StateInCall(p)
      BY <1>0, <1>7, <3>1 DEF Well
    <3>3. OneActor(p)'
      BY <1>4, <2>3, <3>2 DEF OneActor
    <3>4. StateInCall(p)'
      BY <1>4, <2>3, <3>2 DEF StateInCall
    <3>5. QED
      BY <3>3, <3>4
  <2>6. Serial(p)' => Truth(p)'
    <3>1. SUFFICES ASSUME Serial(p)'
                   PROVE  Truth(p)'
      OBVIOUS
    <3>2. Serial(p) /\ Truth(p) /\ OneActor(p) /\ StateInCall(p)
      BY <1>0, <1>1, <1>4, <1>5, <1>7, <3>1 DEF Well, Serial
    <3>3. ~InTeardown(p)
      BY <1>0, <1>1, <1>3, <1>7, <3>1 DEF Walks, Serial, ObjectsOK
    <3>4. module[p] = "present"
      BY <2>2, <3>3 DEF InTeardown, Leaving
    <3>5. \A c \in ControlledBy(p) : pc[c] = "disable"
      <4>1. \A c \in ControlledBy(p) : pc[c] \in Steps \ {"idle", "stop", "set_disabled", "exit", "set_loaded"}
        BY <1>0, <3>3 DEF InTeardown, ControlledBy, Shape
      <4>2. QED
        BY <2>1, <3>2, <4>1 DEF StateInCall, Fits, Steps
    <3>6. Settled(state[p], data[p], work[p])
      BY <3>2, <3>4, <3>5 DEF Truth, InCall, InModule
    <3>7. \A c \in ControlledBy(p) : InCall(pc[c], state[p], data[p], work[p], InHandler(p)')
      BY <3>5, <3>6 DEF InCall
    <3>8. InModule(module[p], state[p], data[p], work[p], InHandler(p)')
      BY <3>4, <3>6 DEF InModule
    <3>9. QED
      BY <1>4, <2>1, <2>3, <3>6, <3>7, <3>8 DEF Truth
  <2>7. QED
    BY <2>4, <2>5, <2>6 DEF Well
<1>8. QED
  BY <1>2, <1>6, <1>7 DEF MayStandAt

\* A handler queues the work only on a plugin whose work is queued.
LEMMA HandlerIsWell ==
  ASSUME IInv, NEW w \in Walkers, CallHandler(w) \/ HandlerRequeues(w)
  PROVE  \A q \in Plugins : Well(q)'
<1>0. /\ WalkerTypes /\ ObjectsOK /\ TypeOK /\ Shape /\ \A q \in Plugins : Well(q)
  BY Types DEF IInv
<1>1. PICK p \in Plugins : p = at[w]
  BY <1>0 DEF TypeOK
<1>2. /\ Sound /\ UNCHANGED <<registry, state, module, control, overlapped>>
      /\ wpc[w] \in {"call", "scan"}
      /\ \A v \in Walkers : wpc'[v] # "idle" =>
           at'[v] = at[v] /\ (wpc'[v] \in {"call", "scan"} => wpc[v] \in {"call", "scan"})
      /\ \/ Harmless
         \/ OpStart(p) /\ module[p] # "absent"
         \/ Hurt(p, "gone") /\ module[p] = "absent"
         \/ data[p] # "live" /\ \E kind \in {"null", "freed"} : Hurt(p, kind)
  BY <1>0, <1>1, HandlerMoves
<1>3. ASSUME NEW q \in Plugins
      PROVE  InHandler(q)' \subseteq InHandler(q)
  BY <1>2 DEF InHandler
<1>4. w \in InHandler(p)
  BY <1>1, <1>2 DEF InHandler
<1>5. UNCHANGED <<data, straddled>>
  BY <1>2 DEF Harmless, OpStart, Hurt
<1>6. ASSUME NEW q \in Plugins, module[q] = "check" \/ Serial(q)'
      PROVE  work'[q] = "idle" <=> work[q] = "idle"
  <2>1. UNCHANGED work \/ work' = [work EXCEPT ![p] = IF @ = "idle" THEN "armed" ELSE @]
    BY <1>2 DEF Harmless, OpStart, Hurt
  <2>2. CASE q # p
    BY <1>0, <2>1, <2>2 DEF ObjectsOK
  <2>3. CASE q = p
    <3>1. module[p] # "check"
      BY <1>0, <1>4 DEF Well, OutsideIsFresh
    <3>2. Serial(p)
      BY <1>2, <1>5, <1>6, <2>3, <3>1 DEF Serial
    <3>3. work[p] # "idle"
      BY <1>0, <1>2, <1>4, <3>2 DEF Well, Truth, Settled
    <3>4. QED
      BY <1>0, <2>1, <2>3, <3>3 DEF ObjectsOK
  <2>4. QED
    BY <2>2, <2>3
<1>7. QED
  BY <1>0, <1>2, <1>3, <1>5, <1>6, UnmovedIsWell, ControlKept

LEMMA WellStep == IInv /\ [Next]_vars => \A q \in Plugins : Well(q)'
<1> SUFFICES ASSUME IInv, [Next]_vars
             PROVE  \A q \in Plugins : Well(q)'
  OBVIOUS
<1>1. ASSUME NEW p \in Plugins, ModuleStep(p)
      PROVE  \A q \in Plugins : Well(q)'
  BY <1>1, RegisterIsWell, UnregisterIsWell, ScanIsWell DEF ModuleStep
<1>2. ASSUME NEW c \in Controllers, NEW p \in Driven, ControlCall(c, p)
      PROVE  \A q \in Plugins : Well(q)'
  BY <1>2, CallsBegin, BeginIsWell
<1>3. ASSUME NEW p \in Driven, Query(p) \/ Health(p)
      PROVE  \A q \in Plugins : Well(q)'
  BY <1>3, QueryIsWell
<1>4. ASSUME NEW c \in Controllers, ControlStep(c)
      PROVE  \A q \in Plugins : Well(q)'
  BY <1>4, ControlIsWell
<1>5. ASSUME NEW w \in Walkers, WalkAction(w)
      PROVE  \A q \in Plugins : Well(q)'
  BY <1>5, WalkIsWell
<1>6. ASSUME NEW w \in Walkers, CallHandler(w) \/ HandlerRequeues(w)
      PROVE  \A q \in Plugins : Well(q)'
  BY <1>6, HandlerIsWell
<1>7. CASE UNCHANGED vars
  <2>1. \A q \in Plugins : Well(q)
    BY DEF IInv
  <2>2. UNCHANGED <<state, module, data, work, control, walk, overlapped, straddled, bad>>
    BY <1>7 DEF vars, history
  <2>3. Sound' <=> Sound
    BY <2>2 DEF Sound
  <2>4. ASSUME NEW q \in Plugins
        PROVE  ControlledBy(q)' = ControlledBy(q) /\ InHandler(q)' = InHandler(q)
    BY <2>2, ControlKept, HandlersKept
  <2>5. pc' = pc
    BY <2>2 DEF control
  <2>6. \A q \in Plugins : OutsideIsFresh(q)' <=> OutsideIsFresh(q)
    BY <2>2, <2>4 DEF OutsideIsFresh
  <2>7. \A q \in Plugins : (OneActor(q)' <=> OneActor(q)) /\ (StateInCall(q)' <=> StateInCall(q))
    BY <2>2, <2>4, <2>5 DEF OneActor, StateInCall
  <2>8. \A q \in Plugins : (Serial(q)' <=> Serial(q)) /\ (Truth(q)' <=> Truth(q))
    BY <2>2, <2>4, <2>5 DEF Serial, Truth
  <2>9. QED
    BY <2>1, <2>2, <2>3, <2>6, <2>7, <2>8 DEF Well
<1>8. QED
  BY <1>1, <1>2, <1>3, <1>4, <1>5, <1>6, <1>7 DEF Next, WalkStep, WalkAction
-----------------------------------------------------------------------------
(***************************************************************************)
(* Each action keeps SerialControlIsSafe.                                   *)
(***************************************************************************)
LEMMA NoHarmIsSafe ==
  ASSUME Sound, UNCHANGED bad
  PROVE  SerialControlIsSafe'
BY DEF Sound, SerialControlIsSafe

\* The first bad access is one the property allows.
LEMMA HurtIsSafe ==
  ASSUME Sound, ObjectsOK, NEW p \in Plugins, NEW kind, Hurt(p, kind),
         Serial(p)' => state[p] \in {"LOADED", "ERROR"} /\ kind \in {"null", "freed", "twice"}
  PROVE  SerialControlIsSafe'
<1>1. /\ bad' = [bad EXCEPT ![p] = kind] /\ badState' = [badState EXCEPT ![p] = state[p]]
  BY DEF Hurt
<1>2. ASSUME NEW q \in Plugins, Serial(q)', bad'[q] # "no"
      PROVE  badState'[q] \in {"LOADED", "ERROR"} /\ bad'[q] \in {"null", "freed", "twice"}
  <2>1. q = p
    BY <1>1, <1>2 DEF Sound, ObjectsOK
  <2>2. bad'[p] = kind /\ badState'[p] = state[p]
    BY <1>1 DEF ObjectsOK
  <2>3. QED
    BY <1>2, <2>1, <2>2
<1>3. QED
  BY <1>2 DEF SerialControlIsSafe

LEMMA ModuleIsSafe ==
  ASSUME IInv, NEW p \in Plugins, ModuleStep(p)
  PROVE  SerialControlIsSafe'
<1>0. /\ RegistryTypes /\ ObjectsOK /\ Sound /\ Well(p)
      /\ data[p] \in {"null", "live", "freed"} /\ state[p] \in States
  BY Types DEF IInv, ModuleStep, RegisterCheck, Registers, RegisterDuplicate, RegisterInsert, UnregisterBegin,
     UnregisterStop, UnregisterExit, UnregisterUnlink, ScanFires, ScanEnds, ObjectsOK, RegistryTypes
<1>1. CASE UNCHANGED bad
  BY <1>0, <1>1, NoHarmIsSafe
<1>2. CASE UnregisterStop(p)
  <2>1. CASE data[p] # "live" /\ Hurt(p, data[p])
    <3>1. ASSUME Serial(p)'
          PROVE  FALSE
      <4>1. Serial(p) /\ module[p] = "stop"
        BY <1>2, <2>1, <3>1 DEF UnregisterStop, Hurt, Serial
      <4>2. ControlledBy(p) = {} /\ state[p] = "ACTIVE" /\ Truth(p)
        BY <1>0, <4>1 DEF Well, Serial, OneActor, StateInCall
      <4>3. QED
        BY <2>1, <4>1, <4>2 DEF Truth, InModule, Settled
    <3>2. PICK kind \in {"null", "freed"} : kind = data[p]
      BY <1>0, <2>1
    <3>3. Hurt(p, kind)
      BY <2>1, <3>2 DEF Hurt
    <3>4. QED
      BY <1>0, <3>1, <3>3, HurtIsSafe
  <2>2. QED
    BY <1>1, <1>2, <2>1 DEF UnregisterStop, OpStop
<1>3. CASE UnregisterExit(p)
  <2>1. CASE data[p] = "freed" /\ Hurt(p, "twice")
    <3>1. ASSUME Serial(p)'
          PROVE  state[p] = "ERROR"
      <4>1. Serial(p) /\ module[p] = "exit"
        BY <1>3, <2>1, <3>1 DEF UnregisterExit, Hurt, Serial
      <4>2. ControlledBy(p) = {} /\ state[p] \in AtLeastInitialized /\ Truth(p)
        BY <1>0, <4>1 DEF Well, Serial, OneActor, StateInCall
      <4>3. QED
        BY <2>1, <4>1, <4>2 DEF Truth, InModule, AtLeastInitialized
    <3>2. QED
      BY <1>0, <2>1, <3>1, HurtIsSafe
  <2>2. QED
    BY <1>1, <1>3, <2>1 DEF UnregisterExit, OpExit, Harmless
<1>4. CASE ScanFires(p)
  <2>1. CASE data[p] # "live" /\ Hurt(p, "scan")
    <3>1. ASSUME Serial(p)'
          PROVE  FALSE
      <4>1. Serial(p) /\ work[p] = "armed" /\ data[p] # "live"
        BY <1>4, <2>1, <3>1 DEF ScanFires, Hurt, Serial
      <4>2. Truth(p)
        BY <1>0, <4>1 DEF Well
      <4>3. ~Settled(state[p], data[p], work[p])
        BY <4>1 DEF Settled
      <4>4. CASE ControlledBy(p) = {}
        <5>1. module[p] \in {"absent", "check", "present", "stop", "exit", "unlink"}
          BY <1>0 DEF RegistryTypes
        <5>2. QED
          BY <4>1, <4>2, <4>3, <4>4, <5>1 DEF Truth, InModule
      <4>5. ASSUME NEW c \in ControlledBy(p)
            PROVE  FALSE
        <5>1. pc[c] \in Steps /\ pc[c] # "idle"
          BY <4>5 DEF ControlledBy, IInv, Shape
        <5>2. InCall(pc[c], state[p], data[p], work[p], InHandler(p))
          BY <4>2, <4>5 DEF Truth
        <5>3. QED
          BY <4>1, <4>3, <5>1, <5>2 DEF InCall, Steps
      <4>6. QED
        BY <4>4, <4>5
    <3>2. QED
      BY <1>0, <2>1, <3>1, HurtIsSafe
  <2>2. QED
    BY <1>1, <1>4, <2>1 DEF ScanFires
<1>5. QED
  BY <1>1, <1>2, <1>3, <1>4 DEF ModuleStep, RegisterCheck, Registers, RegisterDuplicate, RegisterInsert, UnregisterBegin,
     UnregisterUnlink, ScanEnds, history

\* configure_plugin before load_plugin, and after a failed start.
LEMMA QueryIsSafe ==
  ASSUME IInv, NEW p \in Driven, Query(p) \/ Health(p)
  PROVE  SerialControlIsSafe'
<1>0. /\ RegistryTypes /\ ObjectsOK /\ Sound /\ p \in Plugins /\ Well(p)
      /\ overlapped \in [Plugins -> BOOLEAN]
      /\ data[p] \in {"null", "live", "freed"} /\ state[p] \in States
  BY Types, PluginManagerAssumption DEF IInv, Query, Health, ObjectsOK, RegistryTypes
<1>1. CASE UNCHANGED bad
  BY <1>0, <1>1, NoHarmIsSafe
<1>2. ASSUME NEW kind \in {"null", "freed"}, kind = data[p], Hurt(p, kind)
      PROVE  SerialControlIsSafe'
  <2>1. ASSUME Serial(p)'
        PROVE  state[p] \in {"LOADED", "ERROR"}
    <3>1. overlapped' = [overlapped EXCEPT ![p] = @ \/ ControlledBy(p) # {} \/ Leaving(p)]
      BY DEF Query, Health
    <3>2. Serial(p) /\ ControlledBy(p) = {} /\ ~Leaving(p)
      BY <1>0, <1>2, <2>1, <3>1 DEF Serial, Hurt
    <3>3. module[p] = "present"
      BY <3>2 DEF Query, Health, Leaving, IInv, RegistryConsistent
    <3>4. state[p] # "UNLOADED" /\ Truth(p)
      BY <1>0, <3>2, <3>3 DEF Well, OutsideIsFresh
    <3>5. Settled(state[p], data[p], work[p])
      BY <3>2, <3>3, <3>4 DEF Truth, InModule
    <3>6. QED
      BY <1>0, <1>2, <3>4, <3>5 DEF Settled, States
  <2>2. QED
    BY <1>0, <1>2, <2>1, HurtIsSafe
<1>3. \/ UNCHANGED bad
      \/ data[p] # "live" /\ Hurt(p, data[p])
      \/ data[p] = "freed" /\ Hurt(p, "freed")
  BY DEF Query, Health, OpQuery, OpHealth, Harmless
<1>4. CASE data[p] # "live" /\ Hurt(p, data[p])
  <2>1. PICK kind \in {"null", "freed"} : kind = data[p]
    BY <1>0, <1>4
  <2>2. Hurt(p, kind)
    BY <1>4, <2>1 DEF Hurt
  <2>3. QED
    BY <1>2, <2>1, <2>2
<1>5. QED
  BY <1>1, <1>2, <1>3, <1>4

\* exit a second time; nothing else in a control call alone in the plugin.
LEMMA ControlIsSafe ==
  ASSUME IInv, NEW c \in Controllers, ControlStep(c)
  PROVE  SerialControlIsSafe'
<1>0. /\ RegistryTypes /\ ControlTypes /\ ObjectsOK
      /\ \A q \in Plugins : Well(q) /\ data[q] \in {"null", "live", "freed"} /\ state[q] \in States
  BY Types DEF IInv, ObjectsOK, RegistryTypes
<1>1. PICK p \in Plugins : p = on[c]
  BY <1>0 DEF ControlTypes
<1>2. /\ pc[c] # "idle" /\ Sound /\ UNCHANGED <<registry, module, walk, overlapped, undermined>>
      /\ \/ module[p] = "absent" /\ Hurt(p, "gone")
         \/ module[p] # "absent" /\ \E next \in Steps : CallMoves(c, p, next)
  BY <1>1, ControlMoves
<1>3. c \in ControlledBy(p)
  BY <1>1, <1>2 DEF ControlledBy
<1>4. CASE UNCHANGED bad
  BY <1>2, <1>4, NoHarmIsSafe
<1>5. ASSUME NEW kind, Hurt(p, kind), Serial(p)'
      PROVE  /\ Serial(p) /\ Fits(pc[c], state[p]) /\ module[p] = "present" /\ state[p] # "UNLOADED"
             /\ InCall(pc[c], state[p], data[p], work[p], InHandler(p))
  <2>1. Serial(p)
    BY <1>2, <1>5 DEF Serial, Hurt
  <2>2. QED
    BY <1>0, <1>2, <1>3, <2>1 DEF Well, Serial, OneActor, StateInCall, OutsideIsFresh, Truth
<1>6. CASE module[p] = "absent" /\ Hurt(p, "gone")
  BY <1>0, <1>2, <1>5, <1>6, HurtIsSafe
<1>7. ASSUME NEW next \in Steps, CallMoves(c, p, next)
      PROVE  SerialControlIsSafe'
  <2>1. CASE pc[c] = "init" /\ data[p] = "live" /\ Hurt(p, "leak")
    <3>1. ~Serial(p)'
      BY <1>5, <2>1 DEF Fits, InCall, Settled
    <3>2. QED
      BY <1>0, <1>2, <2>1, <3>1, HurtIsSafe
  <2>2. CASE pc[c] \in {"start", "stop"} /\ data[p] # "live" /\ Hurt(p, data[p])
    <3>1. PICK kind \in {"null", "freed"} : kind = data[p]
      BY <1>0, <2>2
    <3>2. Hurt(p, kind)
      BY <2>2, <3>1 DEF Hurt
    <3>3. ~Serial(p)'
      BY <1>5, <2>2, <3>2 DEF Fits, InCall, Settled
    <3>4. QED
      BY <1>0, <1>2, <3>2, <3>3, HurtIsSafe
  <2>3. CASE pc[c] = "exit" /\ data[p] = "freed" /\ Hurt(p, "twice")
    <3>1. Serial(p)' => state[p] \in {"LOADED", "ERROR"}
      BY <1>0, <1>5, <2>3 DEF Fits, InCall, Settled, States
    <3>2. QED
      BY <1>0, <1>2, <2>3, <3>1, HurtIsSafe
  <2>4. \/ UNCHANGED bad
        \/ pc[c] = "init" /\ data[p] = "live" /\ Hurt(p, "leak")
        \/ pc[c] \in {"start", "stop"} /\ data[p] # "live" /\ Hurt(p, data[p])
        \/ pc[c] = "exit" /\ data[p] = "freed" /\ Hurt(p, "twice")
    BY <1>7 DEF CallMoves, OpInit, OpStart, OpStop, OpExit, Harmless
  <2>5. QED
    BY <1>4, <2>1, <2>2, <2>3, <2>4
<1>8. QED
  BY <1>2, <1>6, <1>7

\* A handler in a plugin that is not being stopped finds it live.
LEMMA HandlerIsSafe ==
  ASSUME IInv, NEW w \in Walkers, CallHandler(w) \/ HandlerRequeues(w)
  PROVE  SerialControlIsSafe'
<1>0. /\ WalkerTypes /\ ObjectsOK /\ TypeOK /\ Shape
      /\ \A q \in Plugins : Well(q) /\ data[q] \in {"null", "live", "freed"}
  BY Types DEF IInv, ObjectsOK
<1>1. PICK p \in Plugins : p = at[w]
  BY <1>0 DEF TypeOK
<1>2. /\ Sound /\ UNCHANGED overlapped /\ wpc[w] \in {"call", "scan"}
      /\ \/ Harmless
         \/ OpStart(p) /\ module[p] # "absent"
         \/ Hurt(p, "gone") /\ module[p] = "absent"
         \/ data[p] # "live" /\ \E kind \in {"null", "freed"} : Hurt(p, kind)
  BY <1>0, <1>1, HandlerMoves
<1>3. CASE UNCHANGED bad
  BY <1>2, <1>3, NoHarmIsSafe
<1>4. ASSUME NEW kind, Hurt(p, kind), module[p] = "absent" \/ data[p] # "live"
      PROVE  SerialControlIsSafe'
  <2>1. ASSUME Serial(p)'
        PROVE  FALSE
    <3>1. Serial(p) /\ InHandler(p) # {}
      BY <1>1, <1>2, <1>4, <2>1 DEF Serial, Hurt, InHandler
    <3>2. state[p] = "ACTIVE" /\ Settled(state[p], data[p], work[p])
      BY <1>0, <1>2, <3>1 DEF Well, Truth
    <3>3. module[p] # "absent"
      BY <1>0, <3>2 DEF Well, OutsideIsFresh
    <3>4. QED
      BY <1>4, <3>2, <3>3 DEF Settled
  <2>2. QED
    BY <1>0, <1>2, <1>4, <2>1, HurtIsSafe
<1>5. CASE OpStart(p)
  <2>1. CASE data[p] # "live" /\ Hurt(p, data[p])
    <3>1. PICK kind \in {"null", "freed"} : kind = data[p]
      BY <1>0, <2>1
    <3>2. Hurt(p, kind)
      BY <2>1, <3>1 DEF Hurt
    <3>3. QED
      BY <1>4, <2>1, <3>2
  <2>2. QED
    BY <1>3, <1>5, <2>1 DEF OpStart
<1>6. Harmless => UNCHANGED bad
  BY DEF Harmless
<1>7. QED
  BY <1>2, <1>3, <1>4, <1>5, <1>6

LEMMA SafeStep == IInv /\ [Next]_vars => SerialControlIsSafe'
<1> SUFFICES ASSUME IInv, [Next]_vars
             PROVE  SerialControlIsSafe'
  OBVIOUS
<1>1. ASSUME NEW p \in Plugins, ModuleStep(p)
      PROVE  SerialControlIsSafe'
  BY <1>1, ModuleIsSafe
<1>2. ASSUME NEW c \in Controllers, NEW p \in Driven, ControlCall(c, p)
      PROVE  SerialControlIsSafe'
  BY <1>2, CallsBegin, NoHarmIsSafe DEF Begin
<1>3. ASSUME NEW p \in Driven, Query(p) \/ Health(p)
      PROVE  SerialControlIsSafe'
  BY <1>3, QueryIsSafe
<1>4. ASSUME NEW c \in Controllers, ControlStep(c)
      PROVE  SerialControlIsSafe'
  BY <1>4, ControlIsSafe
<1>5. ASSUME NEW w \in Walkers, WalkAction(w)
      PROVE  SerialControlIsSafe'
  <2>1. Sound /\ Walks(w)
    BY <1>5 DEF WalkAction, Broadcast, SendEvent, Resume, ResumePoisoned
  <2>2. QED
    BY <2>1, NoHarmIsSafe DEF Walks
<1>6. ASSUME NEW w \in Walkers, CallHandler(w) \/ HandlerRequeues(w)
      PROVE  SerialControlIsSafe'
  BY <1>6, HandlerIsSafe
<1>7. CASE UNCHANGED vars
  <2>1. UNCHANGED <<overlapped, straddled, bad, badState>>
    BY <1>7 DEF vars, history
  <2>2. QED
    BY <2>1 DEF IInv, SerialControlIsSafe, Serial
<1>8. QED
  BY <1>1, <1>2, <1>3, <1>4, <1>5, <1>6, <1>7 DEF Next, WalkStep, WalkAction
-----------------------------------------------------------------------------
(***************************************************************************)
(* The theorems.                                                            *)
(***************************************************************************)
LEMMA IInvStep == IInv /\ [Next]_vars => IInv'
<1> SUFFICES ASSUME IInv, [Next]_vars
             PROVE  IInv'
  OBVIOUS
<1>1. TypeOK' /\ Shape'
  BY TypesNext, RegistryStep, ControlTypesStep, WalkerTypesStep, ObjectsStep
<1>2. RegistryConsistent' /\ StandsInList' /\ SerialControlIsSafe'
  BY RegistryStep, StandsInListStep, SafeStep
<1>3. \A p \in Plugins : Well(p)'
  BY WellStep
<1>4. QED
  BY <1>1, <1>2, <1>3 DEF IInv

\* The inductive invariant holds in every reachable state.
THEOREM Invariance == Spec => []IInv
BY InitIInv, IInvStep, PTL DEF Spec

\* Every variable keeps its type, and the count never falls below zero.
THEOREM TypeCorrect == Spec => []TypeOK
<1>1. IInv => TypeOK
  BY DEF IInv
<1>2. QED
  BY <1>1, Invariance, PTL

\* However the modules come and go, with however many calls of
\* register_plugin and unregister_plugin at once, the list, its count and the
\* modules that are registered agree, and no name is registered twice.
THEOREM RegistryAgrees == Spec => []RegistryConsistent
<1>1. IInv => RegistryConsistent
  BY DEF IInv
<1>2. QED
  BY <1>1, Invariance, PTL

\* On a plugin whose control calls come one after the other and whose stops
\* and exits catch no handler, the first bad access, if there is one, is a
\* call in LOADED or ERROR, whatever is done to the other plugins.
THEOREM SerialSafe == Spec => []SerialControlIsSafe
<1>1. IInv => SerialControlIsSafe
  BY DEF IInv
<1>2. QED
  BY <1>1, Invariance, PTL

\* Between the calls on such a plugin its state tells whether its scan is
\* armed and whether its private data exist.
THEOREM StateTrue == Spec => []StateTellsTheTruth
<1>1. IInv => StateTellsTheTruth
  <2>1. SUFFICES ASSUME IInv, NEW p \in Plugins, Serial(p), Sound, ControlledBy(p) = {}, ~Leaving(p)
                 PROVE  Settled(state[p], data[p], work[p])
    BY DEF StateTellsTheTruth, Settled
  <2>2. Truth(p) /\ module[p] \in {"absent", "check", "present"}
    BY <2>1 DEF IInv, Well, TypeOK, Leaving
  <2>3. QED
    BY <2>1, <2>2 DEF Truth, InModule
<1>2. QED
  BY <1>1, Invariance, PTL

\* The limit, and the least that the greatest number of registrations in
\* progress can be.
LimitInv == peak \in Nat /\ LimitOvershoot

\* Who registers, and what the registration then does.
LEMMA LimitMoves ==
  ASSUME IInv, [Next]_vars
  PROVE  \/ \E p \in Plugins : RegisterCheck(p) \/ RegisterDuplicate(p) \/ RegisterInsert(p)
         \/ /\ peak' = peak /\ Registering' = Registering
            /\ plugin_count' \in Nat /\ plugin_count' <= plugin_count
<1> DEFINE Kept == /\ peak' = peak /\ Registering' = Registering
                   /\ plugin_count' \in Nat /\ plugin_count' <= plugin_count
<1>0. RegistryTypes /\ RegistryTypes' /\ TypeOK
  BY Types, RegistryStep DEF IInv
<1>1. plugin_count \in Nat /\ plugin_count' \in Nat
  BY <1>0 DEF RegistryTypes
<1>2. ASSUME UNCHANGED <<plugin_count, peak, module>>
      PROVE  Kept
  BY <1>1, <1>2 DEF Registering
<1>3. ASSUME NEW p \in Plugins, NEW m \in {"absent", "stop", "exit", "unlink"},
             module[p] # "check", module' = [module EXCEPT ![p] = m]
      PROVE  Registering' = Registering
  BY <1>0, <1>3 DEF RegistryTypes, Registering
<1>4. ASSUME NEW p \in Plugins, UnregisterBegin(p) \/ UnregisterStop(p) \/ UnregisterExit(p)
      PROVE  Kept
  <2>1. PICK m \in {"absent", "stop", "exit", "unlink"} :
          module[p] # "check" /\ module' = [module EXCEPT ![p] = m]
    BY <1>4 DEF UnregisterBegin, UnregisterStop, UnregisterExit
  <2>2. UNCHANGED <<plugin_count, peak>>
    BY <1>4 DEF UnregisterBegin, UnregisterStop, UnregisterExit, registry
  <2>3. Registering' = Registering
    BY <1>3, <2>1
  <2>4. QED
    BY <1>1, <2>2, <2>3
<1>5. ASSUME NEW p \in Plugins, UnregisterUnlink(p)
      PROVE  Kept
  <2>1. /\ module[p] # "check" /\ module' = [module EXCEPT ![p] = "absent"]
        /\ plugin_count' = plugin_count - 1 /\ peak' = peak
    BY <1>5 DEF UnregisterUnlink
  <2>2. Registering' = Registering
    BY <1>3, <2>1
  <2>3. QED
    BY <1>1, <2>1, <2>2
<1>6. ASSUME NEW p \in Plugins, ScanFires(p) \/ ScanEnds(p)
      PROVE  UNCHANGED <<plugin_count, peak, module>>
  BY <1>6 DEF ScanFires, ScanEnds, registry
<1>7. ASSUME \/ \E c \in Controllers, p \in Driven : ControlCall(c, p)
             \/ \E p \in Driven : Query(p) \/ Health(p)
      PROVE  UNCHANGED <<plugin_count, peak, module>>
  BY <1>7, CallsBegin DEF Begin, Query, Health, registry
<1>8. ASSUME NEW c \in Controllers, ControlStep(c)
      PROVE  UNCHANGED <<plugin_count, peak, module>>
  <2>1. PICK p \in Plugins : p = on[c]
    BY <1>0 DEF TypeOK
  <2>2. QED
    BY <1>8, <2>1, ControlMoves DEF registry
<1>9. ASSUME NEW w \in Walkers, WalkAction(w) \/ CallHandler(w) \/ HandlerRequeues(w)
      PROVE  UNCHANGED <<plugin_count, peak, module>>
  <2>1. Walks(w) \/ CallHandler(w) \/ HandlerRequeues(w)
    BY <1>9 DEF WalkAction, Broadcast, SendEvent, Resume, ResumePoisoned
  <2>2. QED
    BY <2>1 DEF Walks, CallHandler, HandlerRequeues, Handles, registry
<1>10. UNCHANGED vars => UNCHANGED <<plugin_count, peak, module>>
  BY DEF vars, registry
<1> DEFINE Moved == (\E p \in Plugins : RegisterCheck(p) \/ RegisterDuplicate(p) \/ RegisterInsert(p))
                      \/ Kept
<1>11. ASSUME NEW p \in Plugins, ModuleStep(p)
       PROVE  Moved
  <2> HIDE DEF Kept
  <2>1. QED
    BY <1>2, <1>4, <1>5, <1>6, <1>11 DEF ModuleStep
<1> HIDE DEF Kept
<1>12. UNCHANGED <<plugin_count, peak, module>> => Moved
  BY <1>2
<1> HIDE DEF Moved
<1>13. ASSUME \/ \E c \in Controllers : ControlStep(c)
              \/ \E w \in Walkers : WalkAction(w) \/ CallHandler(w) \/ HandlerRequeues(w)
       PROVE  Moved
  BY <1>8, <1>9, <1>12, <1>13
<1>14. Moved
  BY <1>7, <1>10, <1>11, <1>12, <1>13 DEF Next, WalkStep, WalkAction
<1>15. QED
  BY <1>14 DEF Moved, Kept

LEMMA SmallerSum ==
  ASSUME NEW a \in Int, NEW b \in Int, NEW c \in Int, NEW d \in Int, a <= b, b + c < d
  PROVE  a + c < d
OBVIOUS

LEMMA LimitStep ==
  ASSUME IInv, LimitInv, [Next]_vars
  PROVE  LimitInv'
<1>0. PICK n, m : n = Cardinality(Registering) /\ m = Cardinality(Registering')
  OBVIOUS
<1>9. ASSUME peak' \in Nat, plugin_count' + m < MaxPlugins + peak'
      PROVE  LimitInv'
  BY <1>0, <1>9 DEF LimitInv, LimitOvershoot
<1>1. /\ plugin_count \in Nat /\ peak \in Nat /\ MaxPlugins \in Nat
      /\ plugin_count + n < MaxPlugins + peak
  BY <1>0, PluginManagerAssumption DEF IInv, TypeOK, LimitInv, LimitOvershoot
<1>8. module \in [Plugins -> {"absent", "check", "present", "stop", "exit", "unlink"}]
  BY DEF IInv, TypeOK
<1>2. IsFiniteSet(Registering)
  BY PluginManagerAssumption, FS_Subset DEF Registering
<1>3. n \in Nat
  BY <1>0, <1>2, FS_CardinalityType
<1>4. ASSUME NEW p \in Plugins, RegisterCheck(p)
      PROVE  LimitInv'
  <2>1. /\ plugin_count < MaxPlugins /\ plugin_count' = plugin_count
        /\ peak' = IF n + 1 > peak THEN n + 1 ELSE peak
        /\ module[p] = "absent" /\ module' = [module EXCEPT ![p] = "check"]
    BY <1>0, <1>4 DEF RegisterCheck, Registers
  <2>2. p \notin Registering /\ Registering' = Registering \cup {p}
    BY <1>8, <2>1 DEF Registering
  <2>3. m = n + 1
    BY <1>0, <1>2, <2>2, FS_AddElement
  <2>4. peak' \in Nat /\ plugin_count' + m < MaxPlugins + peak'
    BY <1>1, <1>3, <2>1, <2>3
  <2>5. QED
    BY <1>9, <2>4
<1>5. ASSUME NEW p \in Plugins, RegisterDuplicate(p) \/ RegisterInsert(p)
      PROVE  LimitInv'
  <2>1. /\ plugin_count' \in {plugin_count, plugin_count + 1} /\ peak' = peak
        /\ module[p] = "check"
        /\ \E s \in {"absent", "present"} : module' = [module EXCEPT ![p] = s]
    BY <1>5 DEF RegisterDuplicate, RegisterInsert, registry
  <2>2. p \in Registering /\ Registering' = Registering \ {p}
    BY <1>8, <2>1 DEF Registering
  <2>3. m = n - 1
    BY <1>0, <1>2, <2>2, FS_RemoveElement
  <2>4. peak' \in Nat /\ plugin_count' \in Nat /\ plugin_count' <= plugin_count + 1
    BY <1>1, <2>1
  <2>5. /\ plugin_count' \in Int /\ plugin_count + 1 \in Int /\ m \in Int /\ MaxPlugins + peak \in Int
        /\ (plugin_count + 1) + m < MaxPlugins + peak
    BY <1>1, <1>3, <2>3, <2>4
  <2>6. plugin_count' + m < MaxPlugins + peak
    BY <2>4, <2>5, SmallerSum
  <2>7. QED
    BY <1>9, <2>1, <2>4, <2>6
<1>6. ASSUME peak' = peak, Registering' = Registering,
             plugin_count' \in Nat, plugin_count' <= plugin_count
      PROVE  LimitInv'
  <2>1. m = n
    BY <1>0, <1>6
  <2>2. peak' \in Nat
    BY <1>1, <1>6
  <2>3. plugin_count' + n < MaxPlugins + peak
    <3>1. plugin_count' \in Int /\ plugin_count \in Int /\ n \in Int /\ MaxPlugins + peak \in Int
      BY <1>1, <1>3, <1>6
    <3>2. QED
      BY <1>1, <1>6, <3>1, SmallerSum
  <2>4. plugin_count' + m < MaxPlugins + peak'
    BY <1>6, <2>1, <2>3
  <2>5. QED
    BY <1>9, <2>2, <2>4
<1>7. QED
  BY <1>4, <1>5, <1>6, LimitMoves

\* The limit tested before the lock is overrun by fewer plugins than there
\* were registrations in progress at once, and not at all without a race.
THEOREM LimitBounded == Spec => []LimitOvershoot
<1>1. Init => LimitInv
  <2>1. ASSUME Init
        PROVE  LimitInv
    <3>1. Registering = {} /\ plugin_count = 0 /\ peak = 0
      BY <2>1 DEF Init, Registering
    <3>2. Cardinality(Registering) = 0
      BY <3>1, FS_EmptySet
    <3>3. QED
      BY <3>1, <3>2, PluginManagerAssumption DEF LimitInv, LimitOvershoot
  <2>2. QED
    BY <2>1
<1>2. IInv /\ LimitInv /\ [Next]_vars => LimitInv'
  BY LimitStep
<1>3. LimitInv => LimitOvershoot
  BY DEF LimitInv
<1>4. QED
  BY <1>1, <1>2, <1>3, Invariance, PTL DEF Spec
=============================================================================
