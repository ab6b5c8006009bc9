---------------------- MODULE WorkerCredentialsProofs ----------------------
(***************************************************************************)
(* WorkerCredentials for any number of processes, servers and tokens, with *)
(* or without crashes and lost answers.                                    *)
(***************************************************************************)
EXTENDS WorkerCredentials, TLAPS

(***************************************************************************)
(* Types.                                                                  *)
(***************************************************************************)
(* A bootstrap that waits has something in memory to go on with, and a        *)
(* refresh that is being saved has the token it saves.                        *)
GoesOn(p) ==
  /\ bootstrap[p].pc = "wait" => memory[p] # 0
  /\ refresh[p].pc = "saving" => refresh[p].new # 0

TypeInv == CredentialsTypeOK /\ \A p \in Processes : GoesOn(p)

LEMMA TypeInit == CredentialsInit => TypeInv
<1> SUFFICES ASSUME CredentialsInit PROVE TypeInv
  OBVIOUS
<1> USE CredentialsAssumption
        DEF CredentialsInit, Empty, NoBootstrap, NoRefresh, NoSaves, NoSave
<1>1. issued \in Nat /\ aged \in Nat /\ 0 \in Token /\ live \subseteq Token
  BY DEF Token
<1>2. entries \in [Servers -> Token] /\ kept \in [Servers -> Token]
  BY <1>1
<1>3. /\ memory \in [Processes -> Token]
      /\ lost \subseteq Token /\ overtaken \subseteq Token
  BY <1>1
<1>4. NoBootstrap \in Bootstraps BY <1>1 DEF Bootstraps
<1>5. NoRefresh \in Refreshes BY <1>1 DEF Refreshes
<1>6. NoSave \in Saves BY <1>1, <1>2 DEF Saves
<1>. QED BY <1>1, <1>2, <1>3, <1>4, <1>5, <1>6 DEF TypeInv, CredentialsTypeOK, GoesOn

(* Tokens are only added, so that what was a token stays one.                 *)
LEMMA TokensStay ==
  ASSUME issued \in Nat, issued' \in {issued, issued + 1}
  PROVE  /\ issued' \in Nat /\ 0 \in Token' /\ issued' \in Token'
         /\ Token \subseteq Token'
         /\ [Servers -> Token] \subseteq [Servers -> Token']
         /\ [Processes -> Token] \subseteq [Processes -> Token']
         /\ Bootstraps \subseteq Bootstraps'
         /\ Refreshes \subseteq Refreshes'
         /\ Saves \subseteq Saves'
<1>1. issued' \in Nat /\ 0 \in Token' /\ issued' \in Token'
      /\ Token \subseteq Token'
  BY DEF Token
<1>2. /\ [Servers -> Token] \subseteq [Servers -> Token']
      /\ [Processes -> Token] \subseteq [Processes -> Token']
  BY <1>1
<1>3. Bootstraps \subseteq Bootstraps' BY <1>1 DEF Bootstraps
<1>4. Refreshes \subseteq Refreshes' BY <1>1 DEF Refreshes
<1>5. Saves \subseteq Saves' BY <1>1, <1>2 DEF Saves
<1>. QED BY <1>1, <1>2, <1>3, <1>4, <1>5

(* The rows that a step leaves idle or starts.                                *)
LEMMA RowTypes ==
  ASSUME issued' \in Nat
  PROVE  /\ NoBootstrap \in Bootstraps'
         /\ NoRefresh \in Refreshes'
         /\ NoSave \in Saves'
         /\ NoSaves \in [Savers -> Saves']
         /\ Empty \in [Servers -> Token']
         /\ \A t \in Token' :
              [pc |-> "read", token |-> t, config |-> Empty] \in Saves'
<1>1. 0 \in Token' BY DEF Token
<1>2. Empty \in [Servers -> Token'] BY <1>1 DEF Empty
<1>3. NoSave \in Saves' BY <1>1, <1>2 DEF NoSave, Saves
<1>. QED
  BY <1>1, <1>2, <1>3
     DEF NoBootstrap, Bootstraps, NoRefresh, Refreshes, NoSaves, Saves

(* A step of one process replaces its rows and leaves the others alone.       *)
RowsOK(m, b, r, s) ==
  /\ m \in Token /\ b \in Bootstraps /\ r \in Refreshes
  /\ s \in [Savers -> Saves]
  /\ b.pc = "introspect" => b.token # 0
  /\ r.pc # "idle" => r.old # 0
  /\ b.pc = "wait" => m # 0
  /\ r.pc = "saving" => r.new # 0

LEMMA RowsStep ==
  ASSUME TypeInv, NEW p \in Processes,
         issued' \in {issued, issued + 1}, aged' \in Nat,
         entries' \in [Servers -> Token'], live' \subseteq Token',
         kept' \in [Servers -> Token'],
         lost' \subseteq Token', overtaken' \subseteq Token',
         memory' = [memory EXCEPT ![p] = memory'[p]],
         bootstrap' = [bootstrap EXCEPT ![p] = bootstrap'[p]],
         refresh' = [refresh EXCEPT ![p] = refresh'[p]],
         saves' = [saves EXCEPT ![p] = saves'[p]],
         RowsOK(memory[p], bootstrap[p], refresh[p], saves[p])'
  PROVE  TypeInv'
<1>1. issued \in Nat BY DEF TypeInv, CredentialsTypeOK
<1>2. issued' \in Nat /\ RowsOK(memory[p], bootstrap[p], refresh[p], saves[p])'
  BY <1>1
<1>3. /\ memory \in [Processes -> Token'] /\ bootstrap \in [Processes -> Bootstraps']
      /\ refresh \in [Processes -> Refreshes']
      /\ saves \in [Processes -> [Savers -> Saves']]
  BY <1>1, TokensStay DEF TypeInv, CredentialsTypeOK
<1>4. /\ memory' \in [Processes -> Token']
      /\ bootstrap' \in [Processes -> Bootstraps']
      /\ refresh' \in [Processes -> Refreshes']
      /\ saves' \in [Processes -> [Savers -> Saves']]
  BY <1>2, <1>3 DEF RowsOK
<1>5. ASSUME NEW q \in Processes
      PROVE  /\ bootstrap'[q].pc = "introspect" => bootstrap'[q].token # 0
             /\ refresh'[q].pc # "idle" => refresh'[q].old # 0
             /\ GoesOn(q)'
  <2>1. CASE q = p BY <1>2, <2>1 DEF RowsOK, GoesOn
  <2>2. CASE q # p
    <3>1. /\ memory'[q] = memory[q] /\ bootstrap'[q] = bootstrap[q]
          /\ refresh'[q] = refresh[q]
      BY <1>3, <2>2
    <3>. QED BY <3>1 DEF TypeInv, CredentialsTypeOK, GoesOn
  <2>. QED BY <2>1, <2>2
<1>. QED BY <1>2, <1>4, <1>5 DEF TypeInv, CredentialsTypeOK

(* The rows before a step have the types after it.                            *)
LEMMA RowsBefore ==
  ASSUME TypeInv, NEW p \in Processes, issued' \in {issued, issued + 1}
  PROVE  /\ memory[p] \in Token' /\ bootstrap[p] \in Bootstraps'
         /\ refresh[p] \in Refreshes' /\ saves[p] \in [Savers -> Saves']
         /\ bootstrap[p].pc = "introspect" => bootstrap[p].token # 0
         /\ refresh[p].pc # "idle" => refresh[p].old # 0
         /\ bootstrap[p].pc = "wait" => memory[p] # 0
         /\ refresh[p].pc = "saving" => refresh[p].new # 0
         /\ memory = [memory EXCEPT ![p] = memory[p]]
         /\ bootstrap = [bootstrap EXCEPT ![p] = bootstrap[p]]
         /\ refresh = [refresh EXCEPT ![p] = refresh[p]]
         /\ saves = [saves EXCEPT ![p] = saves[p]]
         /\ issued \in Nat /\ issued' \in Nat /\ aged \in Nat
         /\ entries \in [Servers -> Token'] /\ live \subseteq Token'
         /\ kept \in [Servers -> Token']
         /\ lost \subseteq Token' /\ overtaken \subseteq Token'
         /\ ServerOf[p] \in Servers /\ 0 \in Token'
         /\ \A s \in Servers : entries[s] \in Token'
<1>1. issued \in Nat BY DEF TypeInv, CredentialsTypeOK
<1>. QED
  BY <1>1, TokensStay, CredentialsAssumption
     DEF TypeInv, CredentialsTypeOK, GoesOn

LEMMA SetBootRow ==
  ASSUME TypeInv, NEW p \in Processes, NEW pc, NEW t, NEW again,
         SetBoot(p, pc, t, again)
  PROVE  /\ bootstrap' = [bootstrap EXCEPT ![p] = bootstrap'[p]]
         /\ bootstrap'[p] = [pc |-> pc, token |-> t, again |-> again]
BY DEF SetBoot, TypeInv, CredentialsTypeOK

LEMMA IdleRow ==
  ASSUME TypeInv, NEW p \in Processes, Idle(p)
  PROVE  /\ bootstrap' = [bootstrap EXCEPT ![p] = bootstrap'[p]]
         /\ bootstrap'[p] = NoBootstrap
BY DEF Idle, TypeInv, CredentialsTypeOK

LEMMA AskRow ==
  ASSUME TypeInv, NEW p \in Processes, NEW by, NEW t, Ask(p, by, t)
  PROVE  /\ refresh' = [refresh EXCEPT ![p] = refresh'[p]]
         /\ refresh'[p] = [pc |-> "asked", by |-> by, old |-> t, new |-> 0]
BY DEF Ask, TypeInv, CredentialsTypeOK

(* The rows that ensureFreshCredentials leaves with t in memory.              *)
LEMMA ObtainRows ==
  ASSUME TypeInv, NEW p \in Processes, issued' = issued,
         NEW t \in Token, t # 0, NEW again \in BOOLEAN, Obtain(p, t, again)
  PROVE  /\ bootstrap' = [bootstrap EXCEPT ![p] = bootstrap'[p]]
         /\ refresh' = [refresh EXCEPT ![p] = refresh'[p]]
         /\ bootstrap'[p] \in Bootstraps' /\ refresh'[p] \in Refreshes'
         /\ bootstrap'[p].pc = "introspect" => bootstrap'[p].token # 0
         /\ refresh'[p].pc # "idle" => refresh'[p].old # 0
         /\ refresh'[p].pc = "saving" => refresh'[p].new # 0
<1>1. /\ Token' = Token /\ Bootstraps' = Bootstraps /\ Refreshes' = Refreshes
      /\ 0 \in Token
  BY DEF Token, Bootstraps, Refreshes, TypeInv, CredentialsTypeOK
<1>2. /\ refresh[p] \in Refreshes /\ refresh = [refresh EXCEPT ![p] = refresh[p]]
      /\ refresh[p].pc # "idle" => refresh[p].old # 0
      /\ refresh[p].pc = "saving" => refresh[p].new # 0
  BY DEF TypeInv, CredentialsTypeOK, GoesOn
<1>3. CASE SetBoot(p, "introspect", t, again) /\ UNCHANGED refresh
  <2>1. /\ bootstrap' = [bootstrap EXCEPT ![p] = bootstrap'[p]]
        /\ bootstrap'[p] = [pc |-> "introspect", token |-> t, again |-> again]
    BY <1>3, SetBootRow
  <2>2. bootstrap'[p] \in Bootstraps' BY <1>1, <2>1 DEF Bootstraps
  <2>. QED BY <1>1, <1>2, <1>3, <2>1, <2>2
<1>4. CASE Ask(p, "bootstrap", t) /\ SetBoot(p, "wait", 0, again)
  <2>1. /\ bootstrap' = [bootstrap EXCEPT ![p] = bootstrap'[p]]
        /\ bootstrap'[p] = [pc |-> "wait", token |-> 0, again |-> again]
    BY <1>4, SetBootRow
  <2>2. /\ refresh' = [refresh EXCEPT ![p] = refresh'[p]]
        /\ refresh'[p] = [pc |-> "asked", by |-> "bootstrap", old |-> t, new |-> 0]
    BY <1>4, AskRow
  <2>3. bootstrap'[p] \in Bootstraps' BY <1>1, <2>1 DEF Bootstraps
  <2>4. refresh'[p] \in Refreshes' BY <1>1, <2>2 DEF Refreshes
  <2>. QED BY <2>1, <2>2, <2>3, <2>4
<1>5. CASE SetBoot(p, "wait", 0, again) /\ UNCHANGED refresh
  <2>1. /\ bootstrap' = [bootstrap EXCEPT ![p] = bootstrap'[p]]
        /\ bootstrap'[p] = [pc |-> "wait", token |-> 0, again |-> again]
    BY <1>5, SetBootRow
  <2>2. bootstrap'[p] \in Bootstraps' BY <1>1, <2>1 DEF Bootstraps
  <2>. QED BY <1>1, <1>2, <1>5, <2>1, <2>2
<1>6. CASE /\ refresh[p].pc = "saving" /\ UNCHANGED refresh
           /\ SetBoot(p, "introspect", refresh[p].new, again)
  <2>1. /\ bootstrap' = [bootstrap EXCEPT ![p] = bootstrap'[p]]
        /\ bootstrap'[p] = [pc |-> "introspect", token |-> refresh[p].new,
                            again |-> again]
    BY <1>6 DEF SetBoot, TypeInv, CredentialsTypeOK
  <2>2. refresh[p].new \in Token BY <1>2 DEF Refreshes
  <2>3. bootstrap'[p] \in Bootstraps' BY <1>1, <2>1, <2>2 DEF Bootstraps
  <2>. QED BY <1>1, <1>2, <1>6, <2>1, <2>3
<1>. QED BY <1>3, <1>4, <1>5, <1>6 DEF Obtain

(* The refresh that the call of a bootstrap may start.                        *)
LEMMA ProceedRow ==
  ASSUME TypeInv, NEW p \in Processes, issued' = issued,
         NEW t \in Token, Proceed(p, t)
  PROVE  /\ refresh' = [refresh EXCEPT ![p] = refresh'[p]]
         /\ refresh'[p] \in Refreshes'
         /\ refresh'[p].pc # "idle" => refresh'[p].old # 0
         /\ refresh'[p].pc = "saving" => refresh'[p].new # 0
<1>1. Token' = Token /\ Refreshes' = Refreshes /\ 0 \in Token
  BY DEF Token, Refreshes, TypeInv, CredentialsTypeOK
<1>2. CASE UNCHANGED refresh
  BY <1>1, <1>2 DEF TypeInv, CredentialsTypeOK, GoesOn
<1>3. CASE t # 0 /\ Ask(p, "call", t)
  <2>1. /\ refresh' = [refresh EXCEPT ![p] = refresh'[p]]
        /\ refresh'[p] = [pc |-> "asked", by |-> "call", old |-> t, new |-> 0]
    BY <1>3, AskRow
  <2>2. refresh'[p] \in Refreshes' BY <1>1, <2>1 DEF Refreshes
  <2>. QED BY <1>3, <2>1, <2>2
<1>. QED BY <1>2, <1>3 DEF Proceed

(* What is left to show of a step of one process.                             *)
OneProcess(p) ==
  /\ memory' = [memory EXCEPT ![p] = memory'[p]]
  /\ bootstrap' = [bootstrap EXCEPT ![p] = bootstrap'[p]]
  /\ refresh' = [refresh EXCEPT ![p] = refresh'[p]]
  /\ saves' = [saves EXCEPT ![p] = saves'[p]]
  /\ RowsOK(memory[p], bootstrap[p], refresh[p], saves[p])'

LEMMA BootstrapRows ==
  ASSUME TypeInv, NEW p \in Processes,
         StartBootstrap(p) \/ BootstrapStep(p) \/ BootstrapFails(p)
  PROVE  OneProcess(p) /\ issued' = issued
<1>1. issued' = issued /\ saves' = saves
  BY DEF BootstrapStep, StartBootstrap, BootstrapFails, NotStored, Load,
         Active, Inactive, NoLongerActive, serverState
<1>2. /\ Token' = Token /\ Bootstraps' = Bootstraps
      /\ 0 \in Token /\ memory[p] \in Token /\ entries[ServerOf[p]] \in Token
      /\ bootstrap[p] \in Bootstraps
  BY <1>1, CredentialsAssumption
     DEF Token, Bootstraps, TypeInv, CredentialsTypeOK
<1>3. saves'[p] \in [Savers -> Saves'] /\ saves' = [saves EXCEPT ![p] = saves'[p]]
  BY <1>1, RowsBefore
<1>4. NoBootstrap \in Bootstraps /\ NoBootstrap.pc = "idle"
  BY <1>2 DEF NoBootstrap, Bootstraps
<1>5. CASE StartBootstrap(p)
  <2>1. /\ bootstrap' = [bootstrap EXCEPT ![p] = bootstrap'[p]]
        /\ bootstrap'[p] = [pc |-> "load", token |-> entries[ServerOf[p]],
                            again |-> FALSE]
    BY <1>5 DEF StartBootstrap, SetBoot, TypeInv, CredentialsTypeOK
  <2>2. bootstrap'[p] \in Bootstraps' BY <1>2, <2>1 DEF Bootstraps
  <2>3. memory' = memory /\ refresh' = refresh BY <1>5 DEF StartBootstrap
  <2>. QED BY <1>1, <1>3, <2>1, <2>2, <2>3, RowsBefore DEF OneProcess, RowsOK
<1>6. CASE NotStored(p)
  <2>1. /\ bootstrap' = [bootstrap EXCEPT ![p] = bootstrap'[p]]
        /\ bootstrap'[p] = [pc |-> "browser", token |-> 0, again |-> FALSE]
    BY <1>6 DEF NotStored, SetBoot, TypeInv, CredentialsTypeOK
  <2>2. bootstrap'[p] \in Bootstraps' BY <1>2, <2>1 DEF Bootstraps
  <2>3. memory' = memory /\ refresh' = refresh BY <1>6 DEF NotStored
  <2>. QED BY <1>1, <1>3, <2>1, <2>2, <2>3, RowsBefore DEF OneProcess, RowsOK
<1>7. CASE Load(p)
  <2>1. PICK t \in Token : t = bootstrap[p].token
    BY <1>2 DEF Bootstraps
  <2>2. t # 0 /\ memory' = [memory EXCEPT ![p] = t]
    BY <1>7, <2>1 DEF Load
  <2>3. Obtain(p, t, FALSE)
    BY <1>7, <2>1 DEF Load, Obtain, SetBoot, Ask
  <2>4. memory'[p] = t /\ memory' = [memory EXCEPT ![p] = memory'[p]]
        /\ memory'[p] \in Token'
    BY <1>2, <2>2 DEF TypeInv, CredentialsTypeOK
  <2>5. /\ bootstrap' = [bootstrap EXCEPT ![p] = bootstrap'[p]]
        /\ refresh' = [refresh EXCEPT ![p] = refresh'[p]]
        /\ bootstrap'[p] \in Bootstraps' /\ refresh'[p] \in Refreshes'
        /\ bootstrap'[p].pc = "introspect" => bootstrap'[p].token # 0
        /\ refresh'[p].pc # "idle" => refresh'[p].old # 0
        /\ refresh'[p].pc = "saving" => refresh'[p].new # 0
    BY <1>1, <2>2, <2>3, ObtainRows
  <2>. QED BY <1>1, <1>3, <2>2, <2>4, <2>5 DEF OneProcess, RowsOK
<1>8. CASE Active(p)
  <2>1. PICK t \in Token : t = memory[p] BY <1>2
  <2>2. Proceed(p, t) BY <1>8, <2>1 DEF Active, Proceed, Ask
  <2>3. /\ refresh' = [refresh EXCEPT ![p] = refresh'[p]]
        /\ refresh'[p] \in Refreshes'
        /\ refresh'[p].pc # "idle" => refresh'[p].old # 0
        /\ refresh'[p].pc = "saving" => refresh'[p].new # 0
    BY <1>1, <2>2, ProceedRow
  <2>4. /\ bootstrap' = [bootstrap EXCEPT ![p] = bootstrap'[p]]
        /\ bootstrap'[p] = NoBootstrap /\ memory' = memory
    BY <1>8, IdleRow DEF Active
  <2>. QED BY <1>1, <1>2, <1>3, <1>4, <2>3, <2>4, RowsBefore DEF OneProcess, RowsOK
<1>9. CASE Inactive(p)
  <2>1. PICK t \in Token : t = memory[p] BY <1>2
  <2>2. t # 0 /\ memory' = memory BY <1>9, <2>1 DEF Inactive
  <2>3. Obtain(p, t, TRUE)
    BY <1>9, <2>1 DEF Inactive, Obtain, SetBoot, Ask
  <2>4. /\ bootstrap' = [bootstrap EXCEPT ![p] = bootstrap'[p]]
        /\ refresh' = [refresh EXCEPT ![p] = refresh'[p]]
        /\ bootstrap'[p] \in Bootstraps' /\ refresh'[p] \in Refreshes'
        /\ bootstrap'[p].pc = "introspect" => bootstrap'[p].token # 0
        /\ refresh'[p].pc # "idle" => refresh'[p].old # 0
        /\ refresh'[p].pc = "saving" => refresh'[p].new # 0
    BY <1>1, <2>2, <2>3, ObtainRows
  <2>. QED BY <1>1, <1>2, <1>3, <2>1, <2>2, <2>4, RowsBefore DEF OneProcess, RowsOK
<1>10. CASE NoLongerActive(p)
  <2>1. /\ bootstrap' = [bootstrap EXCEPT ![p] = bootstrap'[p]]
        /\ bootstrap'[p] = [pc |-> "browser", token |-> 0, again |-> FALSE]
    BY <1>10 DEF NoLongerActive, SetBoot, TypeInv, CredentialsTypeOK
  <2>2. bootstrap'[p] \in Bootstraps' BY <1>2, <2>1 DEF Bootstraps
  <2>3. memory' = [memory EXCEPT ![p] = memory'[p]] /\ memory'[p] = 0
        /\ refresh' = refresh
    BY <1>10 DEF NoLongerActive, TypeInv, CredentialsTypeOK
  <2>. QED BY <1>1, <1>2, <1>3, <2>1, <2>2, <2>3, RowsBefore DEF OneProcess, RowsOK
<1>11. CASE BootstrapFails(p)
  <2>1. /\ bootstrap' = [bootstrap EXCEPT ![p] = bootstrap'[p]]
        /\ bootstrap'[p] = NoBootstrap /\ memory' = memory /\ refresh' = refresh
    BY <1>11, IdleRow DEF BootstrapFails
  <2>. QED BY <1>1, <1>2, <1>3, <1>4, <2>1, RowsBefore DEF OneProcess, RowsOK
<1>. QED
  BY <1>1, <1>5, <1>6, <1>7, <1>8, <1>9, <1>10, <1>11 DEF BootstrapStep

(* The refresh has ended without an answer, and a bootstrap with it.          *)
LEMMA RefreshOverRows ==
  ASSUME TypeInv, NEW p \in Processes, issued' \in {issued, issued + 1},
         RefreshOver(p), memory' = memory, saves' = saves
  PROVE  OneProcess(p)
<1>1. refresh' = [refresh EXCEPT ![p] = refresh'[p]] /\ refresh'[p] = NoRefresh
  BY DEF RefreshOver, TypeInv, CredentialsTypeOK
<1>2. /\ bootstrap' = [bootstrap EXCEPT ![p] = bootstrap'[p]]
      /\ \/ bootstrap'[p] = NoBootstrap
         \/ bootstrap' = bootstrap /\ bootstrap[p].pc # "wait"
  <2>1. CASE bootstrap[p].pc = "wait" BY <2>1, IdleRow DEF RefreshOver
  <2>2. CASE bootstrap[p].pc # "wait" BY <2>2, RowsBefore DEF RefreshOver
  <2>. QED BY <2>1, <2>2
<1>3. issued' \in Nat BY DEF TypeInv, CredentialsTypeOK
<1>4. /\ NoRefresh \in Refreshes' /\ NoBootstrap \in Bootstraps'
      /\ NoRefresh.pc = "idle" /\ NoBootstrap.pc = "idle"
  BY <1>3, RowTypes DEF NoRefresh, NoBootstrap
<1>. QED BY <1>1, <1>2, <1>4, RowsBefore DEF OneProcess, RowsOK

LEMMA RefreshRows ==
  ASSUME TypeInv, NEW p \in Processes,
         \/ RefreshConnection(p) \/ FindToken(p) \/ RejectToken(p)
         \/ RefreshFails(p) \/ LoseAnswer(p)
  PROVE  OneProcess(p) /\ issued' \in {issued, issued + 1}
<1>1. issued' \in {issued, issued + 1} /\ saves' = saves /\ memory' = memory
  BY DEF RefreshConnection, FindToken, RejectToken, RefreshFails, LoseAnswer,
         Rotate, serverState
<1>2. CASE RefreshConnection(p)
  <2>1. PICK t \in Token : t = memory[p] BY DEF TypeInv, CredentialsTypeOK
  <2>2. Ask(p, "call", t) BY <1>2, <2>1 DEF RefreshConnection, Ask
  <2>3. /\ refresh' = [refresh EXCEPT ![p] = refresh'[p]]
        /\ refresh'[p] = [pc |-> "asked", by |-> "call", old |-> t, new |-> 0]
    BY <2>2, AskRow
  <2>4. t # 0 /\ t \in Token' /\ 0 \in Token'
    BY <1>1, <1>2, <2>1, RowsBefore DEF RefreshConnection
  <2>5. refresh'[p] \in Refreshes' BY <2>3, <2>4 DEF Refreshes
  <2>6. bootstrap' = bootstrap BY <1>2 DEF RefreshConnection
  <2>. QED BY <1>1, <2>3, <2>4, <2>5, <2>6, RowsBefore DEF OneProcess, RowsOK
<1>3. CASE FindToken(p)
  <2>1. /\ refresh' = [refresh EXCEPT ![p] = refresh'[p]]
        /\ refresh'[p] = [refresh[p] EXCEPT !.pc = "found"]
    BY <1>3 DEF FindToken, TypeInv, CredentialsTypeOK
  <2>2. refresh[p] \in Refreshes' /\ refresh[p].pc = "asked" /\ refresh[p].old # 0
    BY <1>1, <1>3, RowsBefore DEF FindToken
  <2>3. /\ refresh'[p] \in Refreshes' /\ refresh'[p].pc = "found"
        /\ refresh'[p].old # 0
    BY <2>1, <2>2 DEF Refreshes
  <2>4. bootstrap' = bootstrap BY <1>3 DEF FindToken
  <2>. QED BY <1>1, <2>1, <2>3, <2>4, RowsBefore DEF OneProcess, RowsOK
<1>4. CASE RejectToken(p) \/ RefreshFails(p) \/ LoseAnswer(p)
  BY <1>1, <1>4, RefreshOverRows DEF RejectToken, RefreshFails, LoseAnswer
<1>. QED BY <1>1, <1>2, <1>3, <1>4

(* A save begins with a token that exists.                                    *)
LEMMA StartSaveRow ==
  ASSUME TypeInv, NEW p \in Processes, NEW k \in Savers,
         issued' \in {issued, issued + 1}, StartSave(p, k, issued')
  PROVE  /\ saves' = [saves EXCEPT ![p] = saves'[p]]
         /\ saves'[p] = [saves[p] EXCEPT ![k] =
                           [pc |-> "read", token |-> issued', config |-> Empty]]
         /\ saves'[p] \in [Savers -> Saves']
<1>1. /\ saves' = [saves EXCEPT ![p] = saves'[p]]
      /\ saves'[p] = [saves[p] EXCEPT ![k] =
                        [pc |-> "read", token |-> issued', config |-> Empty]]
  BY DEF StartSave, TypeInv, CredentialsTypeOK
<1>2. saves[p] \in [Savers -> Saves'] BY RowsBefore
<1>3. issued \in Nat /\ issued' \in Nat /\ issued' \in Token'
  BY TokensStay DEF TypeInv, CredentialsTypeOK
<1>4. [pc |-> "read", token |-> issued', config |-> Empty] \in Saves'
  BY <1>3, RowTypes
<1>. QED BY <1>1, <1>2, <1>4

LEMMA AnswerRows ==
  ASSUME TypeInv, NEW p \in Processes, Answer(p) \/ Authorize(p)
  PROVE  OneProcess(p) /\ issued' = issued + 1
<1>1. issued' = issued + 1 /\ issued' \in Nat /\ issued' # 0 /\ issued' \in Token'
      /\ 0 \in Token'
  <2>1. issued \in Nat BY DEF TypeInv, CredentialsTypeOK
  <2>2. issued' = issued + 1
    <3>1. CASE Answer(p) BY <3>1 DEF Answer, Rotate
    <3>2. CASE Authorize(p) BY <3>2 DEF Authorize
    <3>. QED BY <3>1, <3>2
  <2>. QED BY <2>1, <2>2 DEF Token
<1>2. memory' = [memory EXCEPT ![p] = memory'[p]] /\ memory'[p] = issued'
  BY DEF Answer, Authorize, TypeInv, CredentialsTypeOK
<1>3. CASE Answer(p)
  <2>1. StartSave(p, "refresh", issued') BY <1>3 DEF Answer
  <2>2. /\ saves' = [saves EXCEPT ![p] = saves'[p]]
        /\ saves'[p] \in [Savers -> Saves']
    BY <1>1, <2>1, StartSaveRow DEF Savers
  <2>3. /\ refresh' = [refresh EXCEPT ![p] = refresh'[p]]
        /\ refresh'[p] = [refresh[p] EXCEPT !.pc = "saving", !.new = issued']
    BY <1>3 DEF Answer, TypeInv, CredentialsTypeOK
  <2>4. refresh[p] \in Refreshes' /\ refresh[p].old # 0
    BY <1>1, <1>3, RowsBefore DEF Answer
  <2>5. /\ refresh'[p] \in Refreshes' /\ refresh'[p].old # 0
        /\ refresh'[p].new # 0
    BY <1>1, <2>3, <2>4 DEF Refreshes
  <2>6. /\ bootstrap' = [bootstrap EXCEPT ![p] = bootstrap'[p]]
        /\ bootstrap'[p] \in Bootstraps'
        /\ bootstrap'[p].pc = "introspect" => bootstrap'[p].token # 0
    <3>1. CASE UNCHANGED bootstrap BY <1>1, <3>1, RowsBefore
    <3>2. CASE SetBoot(p, "introspect", issued', bootstrap[p].again)
      <4>1. /\ bootstrap' = [bootstrap EXCEPT ![p] = bootstrap'[p]]
            /\ bootstrap'[p] = [pc |-> "introspect", token |-> issued',
                                again |-> bootstrap[p].again]
        BY <3>2 DEF SetBoot, TypeInv, CredentialsTypeOK
      <4>2. bootstrap[p].again \in BOOLEAN
        BY DEF TypeInv, CredentialsTypeOK, Bootstraps
      <4>3. bootstrap'[p] \in Bootstraps' BY <1>1, <4>1, <4>2 DEF Bootstraps
      <4>. QED BY <1>1, <4>1, <4>3
    <3>. QED BY <1>3, <3>1, <3>2 DEF Answer
  <2>. QED BY <1>1, <1>2, <2>2, <2>3, <2>5, <2>6 DEF OneProcess, RowsOK
<1>4. CASE Authorize(p)
  <2>1. StartSave(p, "bootstrap", issued') BY <1>4 DEF Authorize
  <2>2. /\ saves' = [saves EXCEPT ![p] = saves'[p]]
        /\ saves'[p] \in [Savers -> Saves']
    BY <1>1, <2>1, StartSaveRow DEF Savers
  <2>3. /\ bootstrap' = [bootstrap EXCEPT ![p] = bootstrap'[p]]
        /\ bootstrap'[p] = [pc |-> "save", token |-> issued', again |-> FALSE]
    BY <1>1, <1>4 DEF Authorize, SetBoot, TypeInv, CredentialsTypeOK
  <2>4. bootstrap'[p] \in Bootstraps' BY <1>1, <2>3 DEF Bootstraps
  <2>5. refresh' = refresh BY <1>4 DEF Authorize
  <2>. QED BY <1>1, <1>2, <2>2, <2>3, <2>4, <2>5, RowsBefore DEF OneProcess, RowsOK
<1>. QED BY <1>1, <1>3, <1>4

(* A write of the file leaves tokens in it, and the save over.                *)
LEMMA WriteRows ==
  ASSUME TypeInv, NEW p \in Processes, NEW k \in Savers, issued' = issued,
         WriteConfig(p, k)
  PROVE  /\ entries' \in [Servers -> Token'] /\ kept' \in [Servers -> Token']
         /\ saves' = [saves EXCEPT ![p] = saves'[p]]
         /\ saves'[p] = [saves[p] EXCEPT ![k] = NoSave]
         /\ saves'[p] \in [Savers -> Saves']
         /\ entries'[ServerOf[p]] \in {0, saves[p][k].token}
<1>1. /\ Token' = Token /\ Saves' = Saves /\ issued \in Nat /\ 0 \in Token
      /\ NoSave \in Saves /\ Empty \in [Servers -> Token]
  <2>1. issued \in Nat /\ Token' = Token /\ Saves' = Saves
    BY DEF TypeInv, CredentialsTypeOK, Token, Saves
  <2>2. NoSave \in Saves' /\ Empty \in [Servers -> Token']
    BY <2>1, RowTypes
  <2>3. 0 \in Token BY <2>1 DEF Token
  <2>4. NoSave \in Saves BY <2>1, <2>2
  <2>5. Empty \in [Servers -> Token] BY <2>1, <2>2
  <2>. QED BY <2>1, <2>3, <2>4, <2>5
<1>2. /\ saves[p] \in [Savers -> Saves] /\ kept \in [Servers -> Token]
      /\ ServerOf[p] \in Servers
  BY CredentialsAssumption DEF TypeInv, CredentialsTypeOK
<1>3. saves[p][k].token \in Token /\ saves[p][k].config \in [Servers -> Token]
  BY <1>2 DEF Saves
<1>4. NewConfig(p, k) \in [Servers -> Token]
      /\ NewConfig(p, k)[ServerOf[p]] = saves[p][k].token
  BY <1>2, <1>3 DEF NewConfig
<1>5. entries' = NewConfig(p, k) \/ entries' = Empty BY DEF WriteConfig
<1>6. Empty[ServerOf[p]] = 0 BY <1>2 DEF Empty
<1>7. entries' \in [Servers -> Token'] BY <1>1, <1>4, <1>5
<1>8. kept' \in [Servers -> Token'] BY <1>1, <1>2, <1>3 DEF WriteConfig
<1>9. /\ saves' = [saves EXCEPT ![p] = saves'[p]]
      /\ saves'[p] = [saves[p] EXCEPT ![k] = NoSave]
  BY DEF WriteConfig, TypeInv, CredentialsTypeOK
<1>10. saves'[p] \in [Savers -> Saves'] BY <1>1, <1>2, <1>9
<1>. QED BY <1>4, <1>5, <1>6, <1>7, <1>8, <1>9, <1>10

LEMMA SavingRows ==
  ASSUME TypeInv, NEW p \in Processes, SavingStep(p)
  PROVE  /\ OneProcess(p) /\ issued' = issued
         /\ entries' \in [Servers -> Token'] /\ kept' \in [Servers -> Token']
<1>1. issued' = issued
  BY DEF SavingStep, ReadConfig, OpenFile, SaveAuthorization, SaveRefreshed,
         serverState
<1>2. /\ Token' = Token /\ Saves' = Saves /\ issued \in Nat /\ 0 \in Token
      /\ Empty \in [Servers -> Token]
  <2>1. issued \in Nat /\ Token' = Token /\ Saves' = Saves
    BY <1>1 DEF TypeInv, CredentialsTypeOK, Token, Saves
  <2>2. Empty \in [Servers -> Token'] BY <1>1, <2>1, RowTypes
  <2>3. 0 \in Token BY <2>1 DEF Token
  <2>. QED BY <2>1, <2>2, <2>3
<1>3. /\ saves[p] \in [Savers -> Saves] /\ entries \in [Servers -> Token]
      /\ kept \in [Servers -> Token]
  BY DEF TypeInv, CredentialsTypeOK
<1>4. ASSUME NEW k \in Savers, ReadConfig(p, k)
      PROVE  /\ OneProcess(p) /\ entries' \in [Servers -> Token']
             /\ kept' \in [Servers -> Token']
  <2>1. /\ saves' = [saves EXCEPT ![p] = saves'[p]]
        /\ saves'[p] = [saves[p] EXCEPT ![k] =
                          [saves[p][k] EXCEPT !.pc = "open", !.config = entries]]
    BY <1>3, <1>4 DEF ReadConfig, TypeInv, CredentialsTypeOK, Saves
  <2>2. [saves[p][k] EXCEPT !.pc = "open", !.config = entries] \in Saves
    BY <1>3 DEF Saves
  <2>3. saves'[p] \in [Savers -> Saves'] BY <1>2, <1>3, <2>1, <2>2
  <2>4. UNCHANGED <<entries, kept, memory, bootstrap, refresh>>
    BY <1>4 DEF ReadConfig, ghosts
  <2>. QED BY <1>1, <1>2, <1>3, <2>1, <2>3, <2>4, RowsBefore DEF OneProcess, RowsOK
<1>5. ASSUME NEW k \in Savers, OpenFile(p, k)
      PROVE  /\ OneProcess(p) /\ entries' \in [Servers -> Token']
             /\ kept' \in [Servers -> Token']
  <2>1. /\ saves' = [saves EXCEPT ![p] = saves'[p]]
        /\ saves'[p] = [saves[p] EXCEPT ![k] = [saves[p][k] EXCEPT !.pc = "write"]]
    BY <1>3, <1>5 DEF OpenFile, TypeInv, CredentialsTypeOK, Saves
  <2>2. [saves[p][k] EXCEPT !.pc = "write"] \in Saves BY <1>3 DEF Saves
  <2>3. saves'[p] \in [Savers -> Saves'] BY <1>2, <1>3, <2>1, <2>2
  <2>4. UNCHANGED <<kept, memory, bootstrap, refresh>> /\ entries' = Empty
    BY <1>5 DEF OpenFile, ghosts
  <2>. QED BY <1>1, <1>2, <1>3, <2>1, <2>3, <2>4, RowsBefore DEF OneProcess, RowsOK
<1>6. CASE SaveAuthorization(p)
  <2>1. /\ entries' \in [Servers -> Token'] /\ kept' \in [Servers -> Token']
        /\ saves' = [saves EXCEPT ![p] = saves'[p]]
        /\ saves'[p] \in [Savers -> Saves']
    BY <1>1, <1>6, WriteRows DEF SaveAuthorization, Savers
  <2>2. PICK t \in Token : t = memory[p] BY DEF TypeInv, CredentialsTypeOK
  <2>3. Proceed(p, t) BY <1>6, <2>2 DEF SaveAuthorization, Proceed, Ask
  <2>4. /\ refresh' = [refresh EXCEPT ![p] = refresh'[p]]
        /\ refresh'[p] \in Refreshes'
        /\ refresh'[p].pc # "idle" => refresh'[p].old # 0
        /\ refresh'[p].pc = "saving" => refresh'[p].new # 0
    BY <1>1, <2>3, ProceedRow
  <2>5. /\ bootstrap' = [bootstrap EXCEPT ![p] = bootstrap'[p]]
        /\ bootstrap'[p] = NoBootstrap /\ memory' = memory
    BY <1>6, IdleRow DEF SaveAuthorization
  <2>6. NoBootstrap \in Bootstraps' /\ NoBootstrap.pc = "idle"
    BY <1>1, <1>2, RowTypes DEF NoBootstrap
  <2>. QED BY <1>1, <2>1, <2>4, <2>5, <2>6, RowsBefore DEF OneProcess, RowsOK
<1>7. CASE SaveRefreshed(p)
  <2>1. /\ entries' \in [Servers -> Token'] /\ kept' \in [Servers -> Token']
        /\ saves' = [saves EXCEPT ![p] = saves'[p]]
        /\ saves'[p] \in [Savers -> Saves']
    BY <1>1, <1>7, WriteRows DEF SaveRefreshed, Savers
  <2>2. refresh' = [refresh EXCEPT ![p] = refresh'[p]] /\ refresh'[p] = NoRefresh
        /\ memory' = memory
    BY <1>7 DEF SaveRefreshed, TypeInv, CredentialsTypeOK
  <2>3. NoRefresh \in Refreshes' /\ NoRefresh.pc = "idle"
    BY <1>1, <1>2, RowTypes DEF NoRefresh
  <2>4. /\ bootstrap' = [bootstrap EXCEPT ![p] = bootstrap'[p]]
        /\ bootstrap'[p] \in Bootstraps'
        /\ bootstrap'[p].pc = "introspect" => bootstrap'[p].token # 0
        /\ bootstrap'[p].pc = "wait" => memory[p] # 0
    <3>1. CASE UNCHANGED bootstrap BY <1>1, <3>1, RowsBefore
    <3>2. CASE bootstrap[p].pc = "wait"
               /\ SetBoot(p, "introspect", memory[p], bootstrap[p].again)
      <4>1. /\ bootstrap' = [bootstrap EXCEPT ![p] = bootstrap'[p]]
            /\ bootstrap'[p] = [pc |-> "introspect", token |-> memory[p],
                                again |-> bootstrap[p].again]
        BY <3>2 DEF SetBoot, TypeInv, CredentialsTypeOK
      <4>2. bootstrap[p].again \in BOOLEAN /\ memory[p] # 0 /\ memory[p] \in Token'
        BY <1>1, <3>2, RowsBefore DEF TypeInv, CredentialsTypeOK, Bootstraps
      <4>3. bootstrap'[p] \in Bootstraps' BY <4>1, <4>2 DEF Bootstraps
      <4>. QED BY <4>1, <4>2, <4>3
    <3>. QED BY <1>7, <3>1, <3>2 DEF SaveRefreshed
  <2>. QED BY <1>1, <2>1, <2>2, <2>3, <2>4, RowsBefore DEF OneProcess, RowsOK
<1>. QED BY <1>1, <1>4, <1>5, <1>6, <1>7 DEF SavingStep

LEMMA CrashRows ==
  ASSUME TypeInv, NEW p \in Processes, Crash(p)
  PROVE  OneProcess(p) /\ issued' = issued
<1>1. issued' = issued /\ issued' \in Nat
  BY DEF Crash, TypeInv, CredentialsTypeOK
<1>2. /\ memory' = [memory EXCEPT ![p] = memory'[p]] /\ memory'[p] = 0
      /\ refresh' = [refresh EXCEPT ![p] = refresh'[p]] /\ refresh'[p] = NoRefresh
      /\ saves' = [saves EXCEPT ![p] = saves'[p]] /\ saves'[p] = NoSaves
  BY DEF Crash, TypeInv, CredentialsTypeOK
<1>3. /\ bootstrap' = [bootstrap EXCEPT ![p] = bootstrap'[p]]
      /\ bootstrap'[p] = NoBootstrap
  BY IdleRow DEF Crash
<1>4. /\ NoRefresh \in Refreshes' /\ NoBootstrap \in Bootstraps'
      /\ NoSaves \in [Savers -> Saves'] /\ 0 \in Token'
      /\ NoRefresh.pc = "idle" /\ NoBootstrap.pc = "idle"
  BY <1>1, RowTypes, RowsBefore DEF NoRefresh, NoBootstrap
<1>. QED BY <1>1, <1>2, <1>3, <1>4 DEF OneProcess, RowsOK

(* Each step keeps the types.                                                 *)
LEMMA TypeStep == TypeInv /\ [CredentialsNext]_vars => TypeInv'
<1> SUFFICES ASSUME TypeInv, [CredentialsNext]_vars PROVE TypeInv'
  OBVIOUS
<1>1. ASSUME NEW p \in Processes, OneProcess(p), issued' \in {issued, issued + 1},
             aged' = aged, entries' \in [Servers -> Token'], live' \subseteq Token',
             kept' \in [Servers -> Token'],
             lost' \subseteq Token', overtaken' \subseteq Token'
      PROVE  TypeInv'
  BY <1>1, RowsStep DEF OneProcess, TypeInv, CredentialsTypeOK
<1>2. ASSUME NEW p \in Processes,
             StartBootstrap(p) \/ BootstrapStep(p) \/ BootstrapFails(p)
      PROVE  TypeInv'
  <2>1. OneProcess(p) /\ issued' = issued BY <1>2, BootstrapRows
  <2>2. UNCHANGED <<entries, live, aged, kept, lost, overtaken>>
    BY <1>2 DEF BootstrapStep, StartBootstrap, BootstrapFails, NotStored, Load,
                Active, Inactive, NoLongerActive, serverState, ghosts
  <2>. QED BY <1>1, <2>1, <2>2, RowsBefore
<1>3. ASSUME NEW p \in Processes,
             \/ RefreshConnection(p) \/ FindToken(p) \/ RejectToken(p)
             \/ RefreshFails(p) \/ LoseAnswer(p)
      PROVE  TypeInv'
  <2>1. OneProcess(p) /\ issued' \in {issued, issued + 1} BY <1>3, RefreshRows
  <2>2. issued \in Nat /\ ServerOf[p] \in Servers
    BY CredentialsAssumption DEF TypeInv, CredentialsTypeOK
  <2>3. /\ entries' = entries /\ aged' = aged /\ kept' = kept
        /\ live' \subseteq live \union {issued'}
        /\ lost' \subseteq lost \union {refresh[p].old}
        /\ overtaken' \subseteq overtaken \union {refresh[p].old}
    BY <1>3 DEF RefreshConnection, FindToken, RejectToken, RefreshFails,
                LoseAnswer, Rotate, serverState, ghosts
  <2>4. issued' \in Token' BY <2>1, <2>2, TokensStay
  <2>5. refresh[p].old \in Token' BY <2>1, RowsBefore DEF Refreshes
  <2>. QED BY <1>1, <2>1, <2>2, <2>3, <2>4, <2>5, RowsBefore
<1>4. ASSUME NEW p \in Processes, Answer(p) \/ Authorize(p) PROVE TypeInv'
  <2>1. OneProcess(p) /\ issued' = issued + 1 BY <1>4, AnswerRows
  <2>2. issued \in Nat BY DEF TypeInv, CredentialsTypeOK
  <2>3. /\ UNCHANGED <<entries, aged, kept, lost>>
        /\ live' \subseteq live \union {issued'}
        /\ overtaken' \subseteq overtaken \union {refresh[p].old}
    <3>1. CASE Answer(p) BY <3>1 DEF Answer, Rotate, ghosts
    <3>2. CASE Authorize(p) BY <3>2 DEF Authorize, ghosts
    <3>. QED BY <1>4, <3>1, <3>2
  <2>4. issued' \in Token' BY <2>1, <2>2, TokensStay
  <2>5. refresh[p].old \in Token' BY <2>1, RowsBefore DEF Refreshes
  <2>. QED BY <1>1, <2>1, <2>3, <2>4, <2>5, RowsBefore
<1>5. ASSUME NEW p \in Processes, SavingStep(p) PROVE TypeInv'
  <2>1. /\ OneProcess(p) /\ issued' = issued
        /\ entries' \in [Servers -> Token'] /\ kept' \in [Servers -> Token']
    BY <1>5, SavingRows
  <2>2. UNCHANGED <<live, aged, lost, overtaken>>
    BY <1>5 DEF SavingStep, ReadConfig, OpenFile, SaveAuthorization,
                SaveRefreshed, serverState, ghosts
  <2>. QED BY <1>1, <2>1, <2>2, RowsBefore
<1>6. ASSUME NEW p \in Processes, Crash(p) PROVE TypeInv'
  <2>1. OneProcess(p) /\ issued' = issued BY <1>6, CrashRows
  <2>2. /\ UNCHANGED <<entries, aged, kept, overtaken>> /\ live' \subseteq live
        /\ lost' \subseteq lost \union {refresh[p].old}
    BY <1>6 DEF Crash
  <2>3. refresh[p].old \in Token' BY <2>1, RowsBefore DEF Refreshes
  <2>. QED BY <1>1, <2>1, <2>2, <2>3, RowsBefore
<1>7. CASE TimePasses
  BY <1>7 DEF TimePasses, ghosts, TypeInv, CredentialsTypeOK, GoesOn, Token,
              Bootstraps, Refreshes, Saves
<1>8. CASE UNCHANGED vars
  BY <1>8 DEF vars, serverState, ghosts, TypeInv, CredentialsTypeOK, GoesOn,
              Token, Bootstraps, Refreshes, Saves
<1>. QED
  BY <1>2, <1>3, <1>4, <1>5, <1>6, <1>7, <1>8 DEF CredentialsNext, RefreshStep

(* Whatever the processes do, the file, the memories and the requests hold    *)
(* tokens that the servers have issued, and nothing is refreshed or           *)
(* introspected without one.                                                  *)
THEOREM CredentialsTypeCorrect == CredentialsSpec => []CredentialsTypeOK
<1>1. TypeInv => CredentialsTypeOK BY DEF TypeInv
<1>. QED BY <1>1, TypeInit, TypeStep, PTL DEF CredentialsSpec

(***************************************************************************)
(* What the file holds.                                                    *)
(***************************************************************************)
Saving(p) == refresh[p].pc = "saving"

(* A refresh is saving exactly while its save is on its way.                  *)
SaveMatches(p) ==
  /\ Saving(p) <=> saves[p]["refresh"].pc # "idle"
  /\ Saving(p) => saves[p]["refresh"].token = refresh[p].new

(* The token that a process is about to save is accepted, and nobody else has *)
(* it, the file included: nobody can have it replaced before it is saved.     *)
Unseen(p) ==
  LET t == refresh[p].new IN
  /\ t \in live
  /\ entries[ServerOf[p]] # t
  /\ \A q \in Processes :
       /\ refresh[q].old # t
       /\ saves[q]["bootstrap"].token # t
       /\ q # p =>
            /\ memory[q] # t
            /\ bootstrap[q].token # t
            /\ refresh[q].new # t

Gone == lost \union overtaken

Backed(p) ==
  LET t == entries[ServerOf[p]] IN
  \/ t = 0 \/ t \in live \/ t \in Gone
  \/ \E q \in Processes : Saving(q) /\ refresh[q].old = t

(* A token is replaced while it is still to be saved as authorized only if    *)
(* the ghosts say so.                                                         *)
AuthorizedHere(p) ==
  saves[p]["bootstrap"].token \in live \union Gone \union {0}

(* The inductive invariant.                                                   *)
StoredInv ==
  /\ \A p \in Processes : SaveMatches(p) /\ AuthorizedHere(p)
  /\ OneServer => \A p \in Processes : (Saving(p) => Unseen(p)) /\ Backed(p)

(* What a process can put somewhere is what it has, what the file has, or new.*)
Known(p) ==
  {0, issued + 1, entries[ServerOf[p]], memory[p], bootstrap[p].token,
   refresh[p].old, refresh[p].new, saves[p]["bootstrap"].token}

LEMMA OtherRows ==
  ASSUME TypeInv, NEW p \in Processes, NEW q \in Processes, q # p, OneProcess(p)
  PROVE  /\ memory'[q] = memory[q] /\ bootstrap'[q] = bootstrap[q]
         /\ refresh'[q] = refresh[q] /\ saves'[q] = saves[q]
BY DEF OneProcess, TypeInv, CredentialsTypeOK

(* The token another process is about to save is none of those.               *)
LEMMA KnownIsNotUnseen ==
  ASSUME TypeInv, StoredInv, OneServer, NEW p \in Processes, NEW q \in Processes,
         q # p, Saving(q)
  PROVE  refresh[q].new \notin Known(p) /\ refresh[q].new \in live
<1>1. Unseen(q) BY DEF StoredInv
<1>2. refresh[q].new \in Token /\ refresh[q].new # 0
  BY DEF TypeInv, CredentialsTypeOK, GoesOn, Saving, Refreshes
<1>3. refresh[q].new # issued + 1
  <2>1. issued \in Nat BY DEF TypeInv, CredentialsTypeOK
  <2>. QED BY <1>2, <2>1 DEF Token
<1>4. ServerOf[q] = ServerOf[p] BY DEF OneServer
<1>. QED BY <1>1, <1>2, <1>3, <1>4 DEF Unseen, Known

LEMMA OthersUnseen ==
  ASSUME TypeInv, StoredInv, OneServer, NEW p \in Processes, OneProcess(p),
         memory'[p] \in Known(p), bootstrap'[p].token \in Known(p),
         refresh'[p].old \in Known(p), refresh'[p].new \in Known(p),
         saves'[p]["bootstrap"].token \in Known(p),
         entries'[ServerOf[p]] \in Known(p),
         live \ {refresh[p].old} \subseteq live',
         NEW q \in Processes, q # p, Saving(q)'
  PROVE  Unseen(q)'
<1>1. refresh'[q] = refresh[q] /\ Saving(q)
  BY OtherRows DEF Saving
<1> DEFINE t == refresh[q].new
<1>2. t \notin Known(p) /\ t \in live BY <1>1, KnownIsNotUnseen
<1>3. t \in live' BY <1>2 DEF Known
<1>4. entries'[ServerOf[q]] # t BY <1>2 DEF OneServer
<1>5. Unseen(q) BY <1>1 DEF StoredInv
<1>6. ASSUME NEW r \in Processes
      PROVE  /\ refresh'[r].old # t
             /\ saves'[r]["bootstrap"].token # t
             /\ r # q => /\ memory'[r] # t
                         /\ bootstrap'[r].token # t
                         /\ refresh'[r].new # t
  <2>1. CASE r = p BY <1>2, <2>1
  <2>2. CASE r # p BY <1>5, <2>2, OtherRows DEF Unseen
  <2>. QED BY <2>1, <2>2
<1> HIDE DEF t
<1>7. refresh'[q].new = t BY <1>1 DEF t
<1>. QED BY <1>3, <1>4, <1>6, <1>7 DEF Unseen

(* A step that leaves a refresh that is being saved as it is, and all         *)
(* accepted tokens accepted, keeps the invariant.                             *)
KeepsRefresh(p) ==
  /\ issued' \in {issued, issued + 1}
  /\ live \subseteq live' /\ lost \subseteq lost' /\ overtaken \subseteq overtaken'
  /\ Saving(p)' <=> Saving(p)
  /\ Saving(p) => refresh'[p] = refresh[p]
  /\ saves'[p]["refresh"].pc = "idle" <=> saves[p]["refresh"].pc = "idle"
  /\ saves'[p]["refresh"].token = saves[p]["refresh"].token
  /\ memory'[p] \in Known(p) /\ bootstrap'[p].token \in Known(p)
  /\ refresh'[p].old \in Known(p) /\ refresh'[p].new \in Known(p)
  /\ \/ saves'[p]["bootstrap"].token \in {0, saves[p]["bootstrap"].token}
     \/ saves'[p]["bootstrap"].token = issued + 1 /\ issued + 1 \in live'
  /\ \/ entries' = entries
     \/ entries'[ServerOf[p]] \in {0, saves[p]["bootstrap"].token}

LEMMA StoredKept ==
  ASSUME TypeInv, StoredInv, NEW p \in Processes, OneProcess(p), KeepsRefresh(p)
  PROVE  StoredInv'
<1> USE DEF KeepsRefresh
<1>0. Gone \subseteq Gone' BY DEF Gone
<1>1. ASSUME NEW q \in Processes PROVE SaveMatches(q)' /\ AuthorizedHere(q)'
  <2>1. CASE q = p
    <3>1. SaveMatches(q)' BY <2>1 DEF StoredInv, SaveMatches, Saving
    <3>2. AuthorizedHere(q)' BY <1>0, <2>1 DEF StoredInv, AuthorizedHere
    <3>. QED BY <3>1, <3>2
  <2>2. CASE q # p
    BY <1>0, <2>2, OtherRows
       DEF StoredInv, SaveMatches, Saving, AuthorizedHere
  <2>. QED BY <2>1, <2>2
<1>2. ASSUME OneServer, NEW q \in Processes
      PROVE  (Saving(q)' => Unseen(q)') /\ Backed(q)'
  <2>1. OneServer BY <1>2
  <2>2. ServerOf[q] = ServerOf[p] BY <2>1 DEF OneServer
  <2>3. \/ entries' = entries
        \/ entries'[ServerOf[p]] = 0
        \/ /\ entries'[ServerOf[p]] = saves[p]["bootstrap"].token
           /\ saves[p]["bootstrap"].token \in live \union Gone \union {0}
    BY DEF StoredInv, AuthorizedHere
  <2>4. /\ entries'[ServerOf[p]] \in Known(p)
        /\ saves'[p]["bootstrap"].token \in Known(p)
        /\ live \ {refresh[p].old} \subseteq live'
    BY <2>3 DEF Known
  <2>5. ASSUME q # p, Saving(q)' PROVE Unseen(q)'
    BY <2>1, <2>4, <2>5, OthersUnseen
  <2>6. ASSUME Saving(p)' PROVE Unseen(p)'
    <3> DEFINE t == refresh[p].new
    <3>1. Unseen(p) /\ Saving(p) /\ refresh'[p] = refresh[p]
      BY <2>1, <2>6 DEF StoredInv
    <3>2. t \in Token /\ t # 0 /\ issued \in Nat
      BY <3>1 DEF TypeInv, CredentialsTypeOK, GoesOn, Saving, Refreshes
    <3>3. t # issued + 1 BY <3>2 DEF Token
    <3>4. t \in live' /\ entries'[ServerOf[p]] # t
      BY <2>3, <3>1, <3>2 DEF Unseen
    <3>5. ASSUME NEW r \in Processes
          PROVE  /\ refresh'[r].old # t
                 /\ saves'[r]["bootstrap"].token # t
                 /\ r # p => /\ memory'[r] # t
                             /\ bootstrap'[r].token # t
                             /\ refresh'[r].new # t
      <4>1. CASE r = p BY <3>1, <3>2, <3>3, <4>1 DEF Unseen
      <4>2. CASE r # p BY <3>1, <4>2, OtherRows DEF Unseen
      <4>. QED BY <4>1, <4>2
    <3> HIDE DEF t
    <3>6. refresh'[p].new = t BY <3>1 DEF t
    <3>. QED BY <3>4, <3>5, <3>6 DEF Unseen
  <2>7. Backed(p)'
    <3>1. CASE entries' = entries
      <4>1. Backed(p) BY <2>1 DEF StoredInv
      <4>2. ASSUME NEW r \in Processes, Saving(r)
            PROVE  Saving(r)' /\ refresh'[r].old = refresh[r].old
        <5>1. CASE r = p BY <4>2, <5>1
        <5>2. CASE r # p BY <4>2, <5>2, OtherRows DEF Saving
        <5>. QED BY <5>1, <5>2
      <4>. QED BY <1>0, <3>1, <4>1, <4>2 DEF Backed
    <3>2. CASE entries' # entries BY <1>0, <2>3, <3>2 DEF Backed
    <3>. QED BY <3>1, <3>2
  <2>8. Backed(q)' BY <2>2, <2>7 DEF Backed
  <2>. QED BY <2>5, <2>6, <2>8
<1>. QED BY <1>1, <1>2 DEF StoredInv, OneServer

(* A bootstrap takes its tokens from the file, the memory and the refresh.    *)
LEMMA ObtainKeeps ==
  ASSUME TypeInv, NEW p \in Processes, NEW t \in {memory[p], bootstrap[p].token},
         NEW again, Obtain(p, t, again)
  PROVE  /\ Saving(p)' <=> Saving(p)
         /\ Saving(p) => refresh'[p] = refresh[p]
         /\ bootstrap'[p].token \in Known(p)
         /\ refresh'[p].old \in Known(p) /\ refresh'[p].new \in Known(p)
<1>1. \/ refresh' = refresh
      \/ /\ refresh[p].pc = "idle"
         /\ refresh'[p] = [pc |-> "asked", by |-> "bootstrap", old |-> t, new |-> 0]
  BY DEF Obtain, Ask, TypeInv, CredentialsTypeOK
<1>2. bootstrap'[p].token \in {0, t, refresh[p].new}
  BY DEF Obtain, SetBoot, TypeInv, CredentialsTypeOK
<1>. QED BY <1>1, <1>2 DEF Saving, Known

LEMMA ProceedKeeps ==
  ASSUME TypeInv, NEW p \in Processes, Proceed(p, memory[p])
  PROVE  /\ Saving(p)' <=> Saving(p)
         /\ Saving(p) => refresh'[p] = refresh[p]
         /\ refresh'[p].old \in Known(p) /\ refresh'[p].new \in Known(p)
<1>1. \/ refresh' = refresh
      \/ /\ refresh[p].pc = "idle"
         /\ refresh'[p] = [pc |-> "asked", by |-> "call", old |-> memory[p],
                           new |-> 0]
  BY DEF Proceed, Ask, TypeInv, CredentialsTypeOK
<1>. QED BY <1>1 DEF Saving, Known

LEMMA BootstrapKeeps ==
  ASSUME TypeInv, NEW p \in Processes,
         StartBootstrap(p) \/ BootstrapStep(p) \/ BootstrapFails(p)
  PROVE  KeepsRefresh(p)
<1>1. UNCHANGED <<entries, live, issued, saves, lost, overtaken>>
  BY DEF BootstrapStep, StartBootstrap, BootstrapFails, NotStored, Load,
         Active, Inactive, NoLongerActive, serverState, ghosts
<1>2. /\ Saving(p)' <=> Saving(p)
      /\ Saving(p) => refresh'[p] = refresh[p]
      /\ memory'[p] \in Known(p) /\ bootstrap'[p].token \in Known(p)
      /\ refresh'[p].old \in Known(p) /\ refresh'[p].new \in Known(p)
  <2>1. CASE \/ StartBootstrap(p) \/ NotStored(p) \/ NoLongerActive(p)
             \/ BootstrapFails(p)
    <3>1. refresh' = refresh
      BY <2>1 DEF StartBootstrap, NotStored, NoLongerActive, BootstrapFails
    <3>2. memory'[p] \in {0, memory[p]}
      BY <2>1 DEF StartBootstrap, NotStored, NoLongerActive, BootstrapFails,
                  TypeInv, CredentialsTypeOK
    <3>3. bootstrap'[p].token \in {0, entries[ServerOf[p]]}
      BY <2>1 DEF StartBootstrap, NotStored, NoLongerActive, BootstrapFails,
                  SetBoot, Idle, NoBootstrap, TypeInv, CredentialsTypeOK
    <3>. QED BY <3>1, <3>2, <3>3 DEF Saving, Known
  <2>2. CASE Load(p)
    <3>1. memory'[p] = bootstrap[p].token
      BY <2>2 DEF Load, TypeInv, CredentialsTypeOK
    <3>2. PICK t \in {memory[p], bootstrap[p].token} : t = bootstrap[p].token
      OBVIOUS
    <3>3. Obtain(p, t, FALSE)
      BY <2>2, <3>2 DEF Load, Obtain, SetBoot, Ask
    <3>. QED BY <3>1, <3>3, ObtainKeeps DEF Known
  <2>3. CASE Active(p)
    <3>1. memory' = memory /\ Proceed(p, memory[p]) BY <2>3 DEF Active
    <3>2. bootstrap'[p].token = 0
      BY <2>3 DEF Active, Idle, NoBootstrap, TypeInv, CredentialsTypeOK
    <3>. QED BY <3>1, <3>2, ProceedKeeps DEF Known
  <2>4. CASE Inactive(p)
    <3>1. memory' = memory BY <2>4 DEF Inactive
    <3>2. PICK t \in {memory[p], bootstrap[p].token} : t = memory[p]
      OBVIOUS
    <3>3. Obtain(p, t, TRUE)
      BY <2>4, <3>2 DEF Inactive, Obtain, SetBoot, Ask
    <3>. QED BY <3>1, <3>3, ObtainKeeps DEF Known
  <2>. QED BY <2>1, <2>2, <2>3, <2>4 DEF BootstrapStep
<1>. QED BY <1>1, <1>2 DEF KeepsRefresh

LEMMA RefreshKeeps ==
  ASSUME TypeInv, NEW p \in Processes,
         \/ RefreshConnection(p) \/ FindToken(p) \/ RejectToken(p)
         \/ RefreshFails(p)
  PROVE  KeepsRefresh(p)
<1>1. UNCHANGED <<entries, live, issued, saves, lost, overtaken, memory>>
  BY DEF RefreshConnection, FindToken, RejectToken, RefreshFails, serverState,
         ghosts
<1>2. bootstrap'[p].token \in {0, bootstrap[p].token}
  BY DEF RefreshConnection, FindToken, RejectToken, RefreshFails, RefreshOver,
         Idle, NoBootstrap, TypeInv, CredentialsTypeOK
<1>3. /\ refresh[p].pc \in {"idle", "asked"}
      /\ refresh'[p].pc \in {"idle", "asked", "found"}
      /\ refresh'[p].old \in {0, memory[p], refresh[p].old}
      /\ refresh'[p].new \in {0, refresh[p].new}
  BY DEF RefreshConnection, FindToken, RejectToken, RefreshFails, RefreshOver,
         Ask, NoRefresh, TypeInv, CredentialsTypeOK, Refreshes
<1>. QED BY <1>1, <1>2, <1>3 DEF KeepsRefresh, Saving, Known

(* Reading and opening the file, saving an authorization, and a crash with    *)
(* nothing on its way.                                                        *)
LEMMA SavingKeeps ==
  ASSUME TypeInv, NEW p \in Processes,
         \/ \E k \in Savers : ReadConfig(p, k) \/ OpenFile(p, k)
         \/ SaveAuthorization(p)
  PROVE  KeepsRefresh(p)
<1>1. UNCHANGED <<live, issued, memory>>
  BY DEF ReadConfig, OpenFile, SaveAuthorization, serverState
<1>2. CASE \E k \in Savers : ReadConfig(p, k) \/ OpenFile(p, k)
  <2>1. PICK k \in Savers : ReadConfig(p, k) \/ OpenFile(p, k) BY <1>2
  <2>2. saves[p] \in [Savers -> Saves] /\ saves[p][k].pc # "idle"
    BY <2>1 DEF ReadConfig, OpenFile, SaveStep, TypeInv, CredentialsTypeOK
  <2>3. /\ \A j \in Savers : saves'[p][j].token = saves[p][j].token
        /\ \A j \in Savers : saves'[p][j].pc = "idle" <=> saves[p][j].pc = "idle"
    <3>1. /\ \A j \in Savers : j # k => saves'[p][j] = saves[p][j]
          /\ saves'[p][k].pc \in {"open", "write"}
          /\ saves'[p][k].token = saves[p][k].token
      <4>1. CASE ReadConfig(p, k)
        <5>1. saves'[p] = [saves[p] EXCEPT ![k] =
                             [saves[p][k] EXCEPT !.pc = "open", !.config = entries]]
          BY <2>2, <4>1 DEF ReadConfig, TypeInv, CredentialsTypeOK, Saves
        <5>. QED BY <2>2, <5>1 DEF Saves
      <4>2. CASE OpenFile(p, k)
        <5>1. saves'[p] = [saves[p] EXCEPT ![k] = [saves[p][k] EXCEPT !.pc = "write"]]
          BY <2>2, <4>2 DEF OpenFile, TypeInv, CredentialsTypeOK, Saves
        <5>. QED BY <2>2, <5>1 DEF Saves
      <4>. QED BY <2>1, <4>1, <4>2
    <3>. QED BY <2>2, <3>1
  <2>4. UNCHANGED <<bootstrap, refresh, lost, overtaken>>
    BY <2>1 DEF ReadConfig, OpenFile, ghosts
  <2>5. entries' = entries \/ entries'[ServerOf[p]] = 0
    BY <2>1, CredentialsAssumption DEF ReadConfig, OpenFile, Empty
  <2>6. /\ saves'[p]["refresh"].token = saves[p]["refresh"].token
        /\ saves'[p]["bootstrap"].token = saves[p]["bootstrap"].token
        /\ saves'[p]["refresh"].pc = "idle" <=> saves[p]["refresh"].pc = "idle"
    BY <2>3 DEF Savers
  <2>. QED BY <1>1, <2>4, <2>5, <2>6 DEF KeepsRefresh, Saving, Known
<1>3. CASE SaveAuthorization(p)
  <2>1. /\ saves'[p] = [saves[p] EXCEPT !["bootstrap"] = NoSave]
        /\ entries'[ServerOf[p]] \in {0, saves[p]["bootstrap"].token}
    BY <1>1, <1>3, WriteRows DEF SaveAuthorization, Savers
  <2>2. /\ saves'[p]["refresh"] = saves[p]["refresh"]
        /\ saves'[p]["bootstrap"].token = 0
    BY <2>1 DEF TypeInv, CredentialsTypeOK, Savers, NoSave
  <2>3. UNCHANGED <<lost, overtaken>> BY <1>3 DEF SaveAuthorization
  <2>4. bootstrap'[p].token = 0
    BY <1>3 DEF SaveAuthorization, Idle, NoBootstrap, TypeInv, CredentialsTypeOK
  <2>5. Proceed(p, memory[p]) BY <1>3 DEF SaveAuthorization
  <2>6. /\ Saving(p)' <=> Saving(p)
        /\ Saving(p) => refresh'[p] = refresh[p]
        /\ refresh'[p].old \in Known(p) /\ refresh'[p].new \in Known(p)
    BY <2>5, ProceedKeeps
  <2>. QED BY <1>1, <2>1, <2>2, <2>3, <2>4, <2>6 DEF KeepsRefresh, Known
<1>. QED BY <1>2, <1>3

LEMMA AuthorizeKeeps ==
  ASSUME TypeInv, NEW p \in Processes, Authorize(p)
  PROVE  KeepsRefresh(p)
<1>1. /\ issued' = issued + 1 /\ live \subseteq live' /\ issued + 1 \in live'
      /\ UNCHANGED <<entries, refresh, lost, overtaken>>
  BY DEF Authorize, ghosts
<1>2. memory'[p] = issued + 1 /\ bootstrap'[p].token = issued + 1
  BY DEF Authorize, SetBoot, TypeInv, CredentialsTypeOK
<1>3. /\ saves'[p]["bootstrap"].token = issued + 1
      /\ saves'[p]["refresh"] = saves[p]["refresh"]
  BY DEF Authorize, StartSave, TypeInv, CredentialsTypeOK, Savers
<1>. QED BY <1>1, <1>2, <1>3 DEF KeepsRefresh, Saving, Known

(* The answer replaces the token that the file may have: its process saves    *)
(* the new one, which nobody has seen.                                        *)
LEMMA AnswerStored ==
  ASSUME TypeInv, StoredInv, NEW p \in Processes, Answer(p)
  PROVE  StoredInv'
<1>1. /\ issued' = issued + 1 /\ issued \in Nat
      /\ live' = (live \ {refresh[p].old}) \union {issued + 1}
      /\ entries' = entries /\ lost' = lost /\ overtaken \subseteq overtaken'
      /\ BeingAuthorized(refresh[p].old) => refresh[p].old \in overtaken'
  BY DEF Answer, Rotate, TypeInv, CredentialsTypeOK
<1>2. OneProcess(p) BY AnswerRows
<1>3. /\ memory'[p] = issued + 1
      /\ bootstrap'[p].token \in {issued + 1, bootstrap[p].token}
  BY <1>1 DEF Answer, SetBoot, TypeInv, CredentialsTypeOK
<1>4. refresh'[p].pc = "saving" /\ refresh'[p].new = issued + 1
      /\ refresh'[p].old = refresh[p].old /\ refresh[p].pc = "found"
  BY <1>1 DEF Answer, TypeInv, CredentialsTypeOK, Refreshes
<1>5. /\ saves'[p]["refresh"].pc = "read"
      /\ saves'[p]["refresh"].token = issued + 1
      /\ saves'[p]["bootstrap"] = saves[p]["bootstrap"]
  BY <1>1 DEF Answer, StartSave, TypeInv, CredentialsTypeOK, Savers
<1>6. ASSUME NEW q \in Processes PROVE SaveMatches(q)' /\ AuthorizedHere(q)'
  <2>1. SaveMatches(q)'
    <3>1. CASE q = p BY <1>4, <1>5, <3>1 DEF SaveMatches, Saving
    <3>2. CASE q # p
      BY <1>2, <3>2, OtherRows DEF StoredInv, SaveMatches, Saving
    <3>. QED BY <3>1, <3>2
  <2>2. AuthorizedHere(q)'
    <3> DEFINE t == saves[q]["bootstrap"].token
    <3>1. saves'[q]["bootstrap"].token = t BY <1>2, <1>5, OtherRows
    <3>2. t = refresh[p].old => t \in overtaken' BY <1>1 DEF BeingAuthorized
    <3>3. t \in live \union lost \union overtaken \union {0}
      BY DEF StoredInv, AuthorizedHere, Gone
    <3>4. t \in live' \union lost' \union overtaken' \union {0}
      BY <1>1, <3>2, <3>3
    <3>. QED BY <3>1, <3>4 DEF AuthorizedHere, Gone
  <2>. QED BY <2>1, <2>2
<1>7. ASSUME OneServer, NEW q \in Processes
      PROVE  (Saving(q)' => Unseen(q)') /\ Backed(q)'
  <2>1. OneServer BY <1>7
  <2>2. ASSUME q # p, Saving(q)' PROVE Unseen(q)'
    <3>1. /\ memory'[p] \in Known(p) /\ bootstrap'[p].token \in Known(p)
          /\ refresh'[p].old \in Known(p) /\ refresh'[p].new \in Known(p)
          /\ saves'[p]["bootstrap"].token \in Known(p)
          /\ entries'[ServerOf[p]] \in Known(p)
          /\ live \ {refresh[p].old} \subseteq live'
      BY <1>1, <1>3, <1>4, <1>5 DEF Known
    <3>. QED BY <1>2, <2>1, <2>2, <3>1, OthersUnseen
  <2>3. Unseen(p)'
    <3>1. issued + 1 \notin Token BY <1>1 DEF Token
    <3>2. ASSUME NEW r \in Processes
          PROVE  /\ memory[r] \in Token /\ bootstrap[r].token \in Token
                 /\ refresh[r].old \in Token /\ refresh[r].new \in Token
                 /\ saves[r]["bootstrap"].token \in Token
                 /\ entries[ServerOf[r]] \in Token
      BY CredentialsAssumption
         DEF TypeInv, CredentialsTypeOK, Bootstraps, Refreshes, Saves, Savers
    <3>3. ASSUME NEW r \in Processes
          PROVE  /\ refresh'[r].old # issued + 1
                 /\ saves'[r]["bootstrap"].token # issued + 1
                 /\ r # p => /\ memory'[r] # issued + 1
                             /\ bootstrap'[r].token # issued + 1
                             /\ refresh'[r].new # issued + 1
      <4>1. CASE r = p BY <1>4, <1>5, <3>1, <3>2, <4>1
      <4>2. CASE r # p BY <1>2, <3>1, <3>2, <4>2, OtherRows
      <4>. QED BY <4>1, <4>2
    <3>4. issued + 1 \in live' /\ entries'[ServerOf[p]] # issued + 1
      BY <1>1, <3>1, <3>2
    <3>. QED BY <1>4, <3>3, <3>4 DEF Unseen
  <2>4. Backed(q)'
    <3>1. Backed(q) BY <2>1 DEF StoredInv
    <3>2. ASSUME NEW r \in Processes, Saving(r)
          PROVE  Saving(r)' /\ refresh'[r].old = refresh[r].old
      <4>1. r # p BY <1>4, <3>2 DEF Saving
      <4>. QED BY <1>2, <3>2, <4>1, OtherRows DEF Saving
    <3>3. CASE entries[ServerOf[q]] = refresh[p].old
      BY <1>1, <1>4, <3>3 DEF Backed, Saving
    <3>4. CASE entries[ServerOf[q]] # refresh[p].old
      BY <1>1, <3>1, <3>2, <3>4 DEF Backed, Gone
    <3>. QED BY <3>3, <3>4
  <2>. QED BY <2>2, <2>3, <2>4
<1>. QED BY <1>6, <1>7 DEF StoredInv, OneServer

(* A refresh that is written leaves an accepted token in the file.            *)
LEMMA SaveStored ==
  ASSUME TypeInv, StoredInv, NEW p \in Processes, SaveRefreshed(p)
  PROVE  StoredInv'
<1>1. UNCHANGED <<issued, live, memory, lost, overtaken>>
  BY DEF SaveRefreshed, serverState
<1>2. OneProcess(p) BY SavingRows DEF SavingStep
<1>3. /\ saves'[p] = [saves[p] EXCEPT !["refresh"] = NoSave]
      /\ entries'[ServerOf[p]] \in {0, saves[p]["refresh"].token}
  BY <1>1, WriteRows DEF SaveRefreshed, Savers
<1>4. saves[p]["refresh"].pc # "idle"
  BY DEF SaveRefreshed, WriteConfig, SaveStep
<1>5. Saving(p) /\ saves[p]["refresh"].token = refresh[p].new
  BY <1>4 DEF StoredInv, SaveMatches
<1>6. /\ saves'[p]["refresh"].pc = "idle"
      /\ saves'[p]["bootstrap"] = saves[p]["bootstrap"]
  BY <1>3 DEF TypeInv, CredentialsTypeOK, Savers, NoSave
<1>7. refresh'[p] = NoRefresh
  BY DEF SaveRefreshed, TypeInv, CredentialsTypeOK
<1>8. bootstrap'[p].token \in {memory[p], bootstrap[p].token}
  BY DEF SaveRefreshed, SetBoot, TypeInv, CredentialsTypeOK
<1>9. ASSUME NEW q \in Processes PROVE SaveMatches(q)' /\ AuthorizedHere(q)'
  <2>1. CASE q = p
    <3>1. SaveMatches(q)' BY <1>6, <1>7, <2>1 DEF SaveMatches, Saving, NoRefresh
    <3>2. AuthorizedHere(q)'
      BY <1>1, <1>6, <2>1 DEF StoredInv, AuthorizedHere, Gone
    <3>. QED BY <3>1, <3>2
  <2>2. CASE q # p
    BY <1>1, <1>2, <2>2, OtherRows
       DEF StoredInv, SaveMatches, Saving, AuthorizedHere, Gone
  <2>. QED BY <2>1, <2>2
<1>10. ASSUME OneServer, NEW q \in Processes
       PROVE  (Saving(q)' => Unseen(q)') /\ Backed(q)'
  <2>1. OneServer /\ ServerOf[q] = ServerOf[p]
    BY <1>10 DEF OneServer
  <2>2. q = p => ~Saving(q)' BY <1>7 DEF Saving, NoRefresh
  <2>3. ASSUME q # p, Saving(q)' PROVE Unseen(q)'
    <3>1. /\ memory'[p] \in Known(p) /\ bootstrap'[p].token \in Known(p)
          /\ refresh'[p].old \in Known(p) /\ refresh'[p].new \in Known(p)
          /\ saves'[p]["bootstrap"].token \in Known(p)
          /\ entries'[ServerOf[p]] \in Known(p)
          /\ live \ {refresh[p].old} \subseteq live'
      BY <1>1, <1>3, <1>5, <1>6, <1>7, <1>8 DEF Known, NoRefresh
    <3>. QED BY <1>2, <2>1, <2>3, <3>1, OthersUnseen
  <2>4. Backed(q)'
    <3>1. refresh[p].new \in live BY <1>5, <2>1 DEF StoredInv, Unseen
    <3>. QED BY <1>1, <1>3, <1>5, <2>1, <3>1 DEF Backed
  <2>. QED BY <2>2, <2>3, <2>4
<1>. QED BY <1>9, <1>10 DEF StoredInv, OneServer

(* A lost answer and a crash end what the process was doing; the token whose  *)
(* replacement is lost with it is recorded.                                   *)
LEMMA FaultStored ==
  ASSUME TypeInv, StoredInv, NEW p \in Processes, LoseAnswer(p) \/ Crash(p)
  PROVE  StoredInv'
<1>1. OneProcess(p) BY RefreshRows, CrashRows
<1>2. /\ refresh'[p] = NoRefresh
      /\ memory'[p] \in {0, memory[p]}
      /\ bootstrap'[p].token \in {0, bootstrap[p].token}
  BY DEF LoseAnswer, RefreshOver, Crash, Idle, NoBootstrap, TypeInv,
         CredentialsTypeOK
<1>3. /\ saves'[p]["refresh"].pc = "idle"
      /\ saves'[p]["bootstrap"].token \in {0, saves[p]["bootstrap"].token}
  <2>1. CASE Crash(p)
    BY <2>1 DEF Crash, NoSaves, NoSave, Savers, TypeInv, CredentialsTypeOK
  <2>2. CASE LoseAnswer(p)
    BY <2>2 DEF LoseAnswer, StoredInv, SaveMatches, Saving
  <2>. QED BY <2>1, <2>2
<1>4. /\ entries' = entries /\ Gone \subseteq Gone'
      /\ live \ {refresh[p].old} \subseteq live'
      /\ refresh[p].old \in live => refresh[p].old \in live' \union Gone'
      /\ Saving(p) => refresh[p].old \in Gone'
  <2>1. CASE LoseAnswer(p)
    BY <2>1 DEF LoseAnswer, Rotate, Gone, Saving
  <2>2. CASE Crash(p)
    BY <2>2 DEF Crash, Gone, Saving
  <2>. QED BY <2>1, <2>2
<1>5. live \subseteq live' \union Gone' BY <1>4
<1>6. ASSUME NEW q \in Processes PROVE SaveMatches(q)' /\ AuthorizedHere(q)'
  <2>1. CASE q = p
    <3>1. SaveMatches(q)' BY <1>2, <1>3, <2>1 DEF SaveMatches, Saving, NoRefresh
    <3>2. AuthorizedHere(q)'
      BY <1>3, <1>4, <1>5, <2>1 DEF StoredInv, AuthorizedHere
    <3>. QED BY <3>1, <3>2
  <2>2. CASE q # p
    <3>1. SaveMatches(q)'
      BY <1>1, <2>2, OtherRows DEF StoredInv, SaveMatches, Saving
    <3>2. AuthorizedHere(q)'
      BY <1>1, <1>4, <1>5, <2>2, OtherRows DEF StoredInv, AuthorizedHere
    <3>. QED BY <3>1, <3>2
  <2>. QED BY <2>1, <2>2
<1>7. ASSUME OneServer, NEW q \in Processes
      PROVE  (Saving(q)' => Unseen(q)') /\ Backed(q)'
  <2>1. q = p => ~Saving(q)' BY <1>2 DEF Saving, NoRefresh
  <2>2. ASSUME q # p, Saving(q)' PROVE Unseen(q)'
    <3>1. /\ memory'[p] \in Known(p) /\ bootstrap'[p].token \in Known(p)
          /\ refresh'[p].old \in Known(p) /\ refresh'[p].new \in Known(p)
          /\ saves'[p]["bootstrap"].token \in Known(p)
          /\ entries'[ServerOf[p]] \in Known(p)
      BY <1>2, <1>3, <1>4 DEF Known, NoRefresh
    <3>. QED BY <1>1, <1>4, <1>7, <2>2, <3>1, OthersUnseen
  <2>3. Backed(q)'
    <3>1. Backed(q) BY <1>7 DEF StoredInv
    <3>2. ASSUME NEW r \in Processes, Saving(r), r # p
          PROVE  Saving(r)' /\ refresh'[r].old = refresh[r].old
      BY <1>1, <3>2, OtherRows DEF Saving
    <3>. QED BY <1>4, <1>5, <3>1, <3>2 DEF Backed
  <2>. QED BY <2>1, <2>2, <2>3
<1>. QED BY <1>6, <1>7 DEF StoredInv, OneServer

LEMMA StoredStep ==
  TypeInv /\ StoredInv /\ [CredentialsNext]_vars => StoredInv'
<1> SUFFICES ASSUME TypeInv, StoredInv, [CredentialsNext]_vars PROVE StoredInv'
  OBVIOUS
<1>1. ASSUME NEW p \in Processes,
             StartBootstrap(p) \/ BootstrapStep(p) \/ BootstrapFails(p)
      PROVE  StoredInv'
  BY <1>1, BootstrapRows, BootstrapKeeps, StoredKept
<1>2. ASSUME NEW p \in Processes,
             \/ RefreshConnection(p) \/ FindToken(p) \/ RejectToken(p)
             \/ RefreshFails(p)
      PROVE  StoredInv'
  BY <1>2, RefreshRows, RefreshKeeps, StoredKept
<1>3. ASSUME NEW p \in Processes, Authorize(p) PROVE StoredInv'
  BY <1>3, AnswerRows, AuthorizeKeeps, StoredKept
<1>4. ASSUME NEW p \in Processes, SavingStep(p) PROVE StoredInv'
  <2>1. CASE SaveRefreshed(p) BY <2>1, SaveStored
  <2>2. CASE \/ \E k \in Savers : ReadConfig(p, k) \/ OpenFile(p, k)
             \/ SaveAuthorization(p)
    BY <1>4, <2>2, SavingRows, SavingKeeps, StoredKept
  <2>. QED BY <1>4, <2>1, <2>2 DEF SavingStep
<1>5. CASE TimePasses \/ UNCHANGED vars
  BY <1>5 DEF TimePasses, vars, serverState, ghosts, StoredInv, SaveMatches,
              OneServer, Saving, Unseen, Backed, AuthorizedHere, Gone
<1>. QED
  BY <1>1, <1>2, <1>3, <1>4, <1>5, AnswerStored, FaultStored
     DEF CredentialsNext, RefreshStep

LEMMA StoredInit == CredentialsInit => StoredInv
BY CredentialsAssumption
   DEF CredentialsInit, Empty, NoRefresh, NoSaves, NoSave, Savers, StoredInv,
       SaveMatches, Saving, Backed, AuthorizedHere

(* While all workers of a machine share a server, the credentials in the file *)
(* are accepted or about to be replaced by accepted ones, for any number of   *)
(* processes, however their refreshes, saves and authorizations interleave:   *)
(* the bootstrap that puts older credentials back in memory never has them    *)
(* written.  What can be written although it is revoked is a token whose      *)
(* replacement was lost, and one that was refreshed while it was still being  *)
(* saved as authorized, which needs no fault; nothing else, and only until a  *)
(* newer token is stored.                                                     *)
THEOREM StoredTokensAreLive == CredentialsSpec => []StoredTokenLive
<1>1. StoredInv => StoredTokenLive
  <2> SUFFICES ASSUME StoredInv, OneServer, NEW p \in Processes
               PROVE  Backed(p)
    BY DEF StoredTokenLive, Backed, Gone, Saving
  <2>. QED BY DEF StoredInv
<1>. QED
  BY <1>1, TypeInit, TypeStep, StoredInit, StoredStep, PTL DEF CredentialsSpec

(***************************************************************************)
(* Who waits is waited for.                                                *)
(***************************************************************************)
Served(p) ==
  /\ bootstrap[p].pc = "wait" =>
       \/ refresh[p].pc \in {"asked", "found"}
       \/ refresh[p].pc = "saving" /\ refresh[p].by = "bootstrap"
  /\ bootstrap[p].pc = "save" => saves[p]["bootstrap"].pc # "idle"
  /\ refresh[p].pc = "saving" => saves[p]["refresh"].pc # "idle"

(* The step of a process is nothing to the others.                            *)
LEMMA OthersServed ==
  ASSUME TypeInv, \A q \in Processes : Served(q),
         NEW p \in Processes, OneProcess(p), Served(p)'
  PROVE  \A q \in Processes : Served(q)'
<1>1. ASSUME NEW q \in Processes, q # p PROVE Served(q)'
  BY <1>1, OtherRows DEF Served
<1>. QED BY <1>1

(* What ensureFreshCredentials leaves waiting has a refresh to wait for.      *)
LEMMA ObtainServes ==
  ASSUME TypeInv, NEW p \in Processes, Served(p), saves' = saves,
         NEW t, NEW again, Obtain(p, t, again)
  PROVE  Served(p)'
<1>1. bootstrap \in [Processes -> Bootstraps] /\ refresh \in [Processes -> Refreshes]
  BY DEF TypeInv, CredentialsTypeOK
<1>2. bootstrap'[p].pc \in {"introspect", "wait"}
  BY <1>1 DEF Obtain, SetBoot
<1>3. refresh' = refresh \/ refresh'[p].pc = "asked"
  BY <1>1 DEF Obtain, Ask
<1>4. bootstrap'[p].pc = "wait" => refresh'[p].pc \in {"asked", "found"}
  BY <1>1 DEF Obtain, SetBoot, Ask, Asking
<1>. QED BY <1>2, <1>3, <1>4 DEF Served

LEMMA BootstrapServes ==
  ASSUME TypeInv, NEW p \in Processes, Served(p),
         StartBootstrap(p) \/ BootstrapStep(p) \/ BootstrapFails(p)
  PROVE  Served(p)'
<1>1. bootstrap \in [Processes -> Bootstraps] /\ refresh \in [Processes -> Refreshes]
  BY DEF TypeInv, CredentialsTypeOK
<1>2. saves' = saves
  BY DEF BootstrapStep, StartBootstrap, BootstrapFails, NotStored, Load,
         Active, Inactive, NoLongerActive
<1>3. CASE StartBootstrap(p) \/ NotStored(p) \/ NoLongerActive(p) \/ BootstrapFails(p)
  <2>1. refresh' = refresh /\ bootstrap'[p].pc \in {"load", "browser", "idle"}
    BY <1>1, <1>3 DEF StartBootstrap, NotStored, NoLongerActive, BootstrapFails,
                      SetBoot, Idle, NoBootstrap
  <2>. QED BY <1>2, <2>1 DEF Served
<1>4. CASE Active(p)
  <2>1. bootstrap'[p].pc = "idle"
    BY <1>1, <1>4 DEF Active, Idle, NoBootstrap
  <2>2. refresh' = refresh \/ refresh'[p].pc = "asked"
    BY <1>1, <1>4 DEF Active, Proceed, Ask
  <2>. QED BY <1>2, <2>1, <2>2 DEF Served
<1>5. CASE Load(p) \/ Inactive(p)
  BY <1>2, <1>5, ObtainServes DEF Load, Inactive
<1>. QED BY <1>3, <1>4, <1>5 DEF BootstrapStep

LEMMA RefreshServes ==
  ASSUME TypeInv, NEW p \in Processes, Served(p),
         \/ RefreshConnection(p) \/ FindToken(p) \/ RejectToken(p)
         \/ RefreshFails(p) \/ LoseAnswer(p)
  PROVE  Served(p)'
<1>1. bootstrap \in [Processes -> Bootstraps] /\ refresh \in [Processes -> Refreshes]
  BY DEF TypeInv, CredentialsTypeOK
<1>2. saves' = saves
  BY DEF RefreshConnection, FindToken, RejectToken, RefreshFails, LoseAnswer
<1>3. CASE RefreshConnection(p) \/ FindToken(p)
  <2>1. bootstrap' = bootstrap /\ refresh'[p].pc \in {"asked", "found"}
    BY <1>1, <1>3 DEF RefreshConnection, FindToken, Ask, Refreshes
  <2>. QED BY <1>2, <2>1 DEF Served
<1>4. CASE RejectToken(p) \/ RefreshFails(p) \/ LoseAnswer(p)
  <2>1. RefreshOver(p)
    BY <1>4 DEF RejectToken, RefreshFails, LoseAnswer
  <2>2. /\ refresh'[p].pc = "idle" /\ bootstrap'[p].pc # "wait"
        /\ bootstrap'[p].pc = "save" => bootstrap[p].pc = "save"
    BY <1>1, <2>1 DEF RefreshOver, NoRefresh, Idle, NoBootstrap
  <2>. QED BY <1>2, <2>2 DEF Served
<1>. QED BY <1>3, <1>4

LEMMA AnswerServes ==
  ASSUME TypeInv, NEW p \in Processes, Served(p), Answer(p) \/ Authorize(p)
  PROVE  Served(p)'
<1>1. /\ bootstrap \in [Processes -> Bootstraps] /\ refresh \in [Processes -> Refreshes]
      /\ saves \in [Processes -> [Savers -> Saves]]
  BY DEF TypeInv, CredentialsTypeOK
<1>2. CASE Answer(p)
  <2>1. saves'[p]["refresh"].pc = "read" /\ saves'[p]["bootstrap"] = saves[p]["bootstrap"]
    BY <1>1, <1>2 DEF Answer, StartSave, Savers
  <2>2. /\ refresh'[p].pc = "saving" /\ refresh'[p].by = refresh[p].by
        /\ refresh[p].by \in {"bootstrap", "call"}
    BY <1>1, <1>2 DEF Answer, Refreshes
  <2>3. /\ bootstrap'[p].pc = "wait" => refresh[p].by = "bootstrap"
        /\ bootstrap'[p].pc = "save" => bootstrap[p].pc = "save"
    BY <1>1, <1>2 DEF Answer, SetBoot
  <2>. QED BY <2>1, <2>2, <2>3 DEF Served
<1>3. CASE Authorize(p)
  <2>1. saves'[p]["bootstrap"].pc = "read" /\ saves'[p]["refresh"] = saves[p]["refresh"]
    BY <1>1, <1>3 DEF Authorize, StartSave, Savers
  <2>2. refresh' = refresh /\ bootstrap'[p].pc = "save"
    BY <1>1, <1>3 DEF Authorize, SetBoot
  <2>. QED BY <2>1, <2>2 DEF Served
<1>. QED BY <1>2, <1>3

LEMMA SavingServes ==
  ASSUME TypeInv, StoredInv, NEW p \in Processes, Served(p), SavingStep(p)
  PROVE  Served(p)'
<1>1. /\ bootstrap \in [Processes -> Bootstraps] /\ refresh \in [Processes -> Refreshes]
      /\ saves \in [Processes -> [Savers -> Saves]]
  BY DEF TypeInv, CredentialsTypeOK
<1>2. ASSUME NEW k \in Savers, ReadConfig(p, k) \/ OpenFile(p, k) PROVE Served(p)'
  <2>1. /\ saves'[p][k].pc \in {"open", "write"}
        /\ \A j \in Savers : j # k => saves'[p][j] = saves[p][j]
    BY <1>1, <1>2 DEF ReadConfig, OpenFile, Saves
  <2>2. \A j \in Savers : saves[p][j].pc # "idle" => saves'[p][j].pc # "idle"
    BY <2>1
  <2>3. UNCHANGED <<bootstrap, refresh>>
    BY <1>2 DEF ReadConfig, OpenFile
  <2>. QED BY <2>2, <2>3 DEF Served, Savers
<1>3. CASE SaveAuthorization(p)
  <2>1. saves'[p]["refresh"] = saves[p]["refresh"]
    BY <1>1, <1>3 DEF SaveAuthorization, WriteConfig, Savers
  <2>2. bootstrap'[p].pc = "idle"
    BY <1>1, <1>3 DEF SaveAuthorization, Idle, NoBootstrap
  <2>3. refresh' = refresh \/ refresh'[p].pc = "asked"
    BY <1>1, <1>3 DEF SaveAuthorization, Proceed, Ask
  <2>. QED BY <2>1, <2>2, <2>3 DEF Served
(* A bootstrap that waits while a refresh is saved is the one that called it, *)
(* and is let go.                                                            *)
<1>4. CASE SaveRefreshed(p)
  <2>1. saves'[p]["bootstrap"] = saves[p]["bootstrap"]
    BY <1>1, <1>4 DEF SaveRefreshed, WriteConfig, Savers
  <2>2. saves[p]["refresh"].pc = "write" /\ refresh'[p].pc = "idle"
    BY <1>1, <1>4 DEF SaveRefreshed, WriteConfig, SaveStep, NoRefresh
  <2>3. bootstrap[p].pc = "wait" => bootstrap'[p].pc = "introspect"
    <3>1. refresh[p].pc = "saving"
      BY <2>2 DEF StoredInv, SaveMatches, Saving
    <3>. QED BY <1>1, <1>4, <3>1 DEF SaveRefreshed, SetBoot, Served
  <2>4. bootstrap[p].pc # "wait" => bootstrap' = bootstrap
    BY <1>4 DEF SaveRefreshed
  <2>. QED BY <2>1, <2>2, <2>3, <2>4 DEF Served
<1>. QED BY <1>2, <1>3, <1>4 DEF SavingStep

LEMMA ServedStep ==
  ASSUME TypeInv, StoredInv, \A p \in Processes : Served(p), [CredentialsNext]_vars
  PROVE  \A p \in Processes : Served(p)'
<1>1. ASSUME NEW p \in Processes,
             StartBootstrap(p) \/ BootstrapStep(p) \/ BootstrapFails(p)
      PROVE  \A q \in Processes : Served(q)'
  BY <1>1, BootstrapRows, BootstrapServes, OthersServed
<1>2. ASSUME NEW p \in Processes,
             \/ RefreshConnection(p) \/ FindToken(p) \/ RejectToken(p)
             \/ RefreshFails(p) \/ LoseAnswer(p)
      PROVE  \A q \in Processes : Served(q)'
  BY <1>2, RefreshRows, RefreshServes, OthersServed
<1>3. ASSUME NEW p \in Processes, Answer(p) \/ Authorize(p)
      PROVE  \A q \in Processes : Served(q)'
  BY <1>3, AnswerRows, AnswerServes, OthersServed
<1>4. ASSUME NEW p \in Processes, SavingStep(p)
      PROVE  \A q \in Processes : Served(q)'
  BY <1>4, SavingRows, SavingServes, OthersServed
<1>5. ASSUME NEW p \in Processes, Crash(p)
      PROVE  \A q \in Processes : Served(q)'
  <2>1. bootstrap'[p].pc = "idle" /\ refresh'[p].pc = "idle"
    BY <1>5 DEF Crash, Idle, NoBootstrap, NoRefresh, TypeInv, CredentialsTypeOK
  <2>2. Served(p)'
    BY <2>1 DEF Served
  <2>. QED BY <1>5, <2>2, CrashRows, OthersServed
<1>6. CASE TimePasses \/ UNCHANGED vars
  BY <1>6 DEF TimePasses, vars, Served
<1>. QED
  BY <1>1, <1>2, <1>3, <1>4, <1>5, <1>6 DEF CredentialsNext, RefreshStep

(* For any number of processes, calls, crashes and lost answers: a bootstrap   *)
(* that joined a refresh is never left without it.  That it ends then follows  *)
(* from requests and file accesses that end.                                  *)
THEOREM WaitersAreServed == CredentialsSpec => []NobodyWaitsInVain
<1>1. CredentialsInit => \A p \in Processes : Served(p)
  <2> SUFFICES ASSUME CredentialsInit, NEW p \in Processes PROVE Served(p)
    OBVIOUS
  <2>1. bootstrap[p].pc = "idle" /\ refresh[p].pc = "idle"
    BY DEF CredentialsInit, NoBootstrap, NoRefresh
  <2>. QED BY <2>1 DEF Served
<1>2. (\A p \in Processes : Served(p)) => NobodyWaitsInVain
  BY DEF Served, NobodyWaitsInVain, Asking
<1>3. TypeInv /\ StoredInv /\ (\A p \in Processes : Served(p)) /\ [CredentialsNext]_vars
        => (\A p \in Processes : Served(p))'
  BY ServedStep
<1>. QED
  BY <1>1, <1>2, <1>3, TypeInit, TypeStep, StoredInit, StoredStep, PTL
     DEF CredentialsSpec
=============================================================================
