------------------------ MODULE WorkerCredentials --------------------------
(***************************************************************************)
(* The credentials of worker processes (apps/worker/src/auth): each        *)
(* process keeps them in memory and all processes of a machine keep them   *)
(* in one file, with an entry per server.  Every API call first reads the  *)
(* file into memory, refreshes what is about to expire, and asks the       *)
(* server whether the result works; the connection to the server refreshes *)
(* on its own.  A refresh replaces the token at the server, which accepts  *)
(* the old one no more (authorization-server/token.service.ts).            *)
(*                                                                         *)
(* A token is a number, in the order of issue, and stands for a refresh    *)
(* token with its access token; 0 is none.  A file that is being written   *)
(* is empty, and an unreadable file counts as an empty one.                *)
(***************************************************************************)
EXTENDS Naturals

CONSTANTS
  Processes,   \* the worker processes of a machine
  Servers,
  ServerOf,    \* the server each process works for
  Faults,      \* whether processes crash and answers are lost
  MaxTokens    \* bound: with that many tokens issued, none gets due any more

ASSUME CredentialsAssumption ==
  /\ ServerOf \in [Processes -> Servers]
  /\ Faults \in BOOLEAN
  /\ MaxTokens \in Nat

VARIABLES
  entries,    \* the file: the token of each server
  live,       \* the refresh tokens that the servers accept
  issued,     \* how many tokens the servers have issued
  aged,       \* the tokens up to this one are expired or about to expire
  memory,     \* memory[p]: this.credentials
  bootstrap,  \* bootstrap[p]: the bootstrapPromise and what it works on
  refresh,    \* refresh[p]: the refreshPromise, its caller and its tokens
  saves,      \* saves[p][k]: writeWorkerCredentials, called by k
  kept,       \* ghost: the token last saved for each server
  lost,       \* ghost: the tokens whose replacement was lost with a crash or an
              \*        answer
  overtaken   \* ghost: the tokens replaced while they were still being saved as
              \*        authorized

serverState == <<live, issued, aged>>
ghosts == <<kept, lost, overtaken>>
vars == <<entries, serverState, memory, bootstrap, refresh, saves, ghosts>>

Empty == [s \in Servers |-> 0]
Savers == {"bootstrap", "refresh"}

NoBootstrap == [pc |-> "idle", token |-> 0, again |-> FALSE]
NoRefresh == [pc |-> "idle", by |-> "call", old |-> 0, new |-> 0]
NoSave == [pc |-> "idle", token |-> 0, config |-> Empty]
NoSaves == [k \in Savers |-> NoSave]

(* isExpiringSoon.                                                            *)
Fresh(t) == t > aged

CredentialsInit ==
  /\ entries = Empty
  /\ issued = 0
  /\ live = {}
  /\ aged = 0
  /\ memory = [p \in Processes |-> 0]
  /\ bootstrap = [p \in Processes |-> NoBootstrap]
  /\ refresh = [p \in Processes |-> NoRefresh]
  /\ saves = [p \in Processes |-> NoSaves]
  /\ kept = entries
  /\ lost = {}
  /\ overtaken = {}

SetBoot(p, pc, token, again) ==
  bootstrap' = [bootstrap EXCEPT ![p] =
                  [pc |-> pc, token |-> token, again |-> again]]
Idle(p) == bootstrap' = [bootstrap EXCEPT ![p] = NoBootstrap]

(***************************************************************************)
(* ensureFreshCredentials, for a bootstrap and for its callers.            *)
(***************************************************************************)
Ask(p, by, t) ==
  refresh' = [refresh EXCEPT ![p] =
                [pc |-> "asked", by |-> by, old |-> t, new |-> 0]]

Asking(p) == refresh[p].pc \in {"asked", "found"}

(* With the token t in memory: it is good, or a refresh is started, awaited,  *)
(* or has its answer already.                                                 *)
Obtain(p, t, again) ==
  LET good == ~again /\ Fresh(t) IN
  \/ good /\ SetBoot(p, "introspect", t, again) /\ UNCHANGED refresh
  \/ /\ ~good /\ refresh[p].pc = "idle"
     /\ Ask(p, "bootstrap", t)
     /\ SetBoot(p, "wait", 0, again)
  \/ /\ ~good /\ Asking(p)
     /\ SetBoot(p, "wait", 0, again)
     /\ UNCHANGED refresh
  \/ /\ ~good /\ refresh[p].pc = "saving"
     /\ SetBoot(p, "introspect", refresh[p].new, again)
     /\ UNCHANGED refresh

(* The call that a bootstrap was for goes on with the token t in memory: at   *)
(* start-up it is not refreshed again (ensureAuthenticated).                  *)
Proceed(p, t) ==
  \/ UNCHANGED refresh
  \/ t # 0 /\ ~Fresh(t) /\ refresh[p].pc = "idle" /\ Ask(p, "call", t)

(***************************************************************************)
(* bootstrap.                                                              *)
(***************************************************************************)
(* Any call of the API or of the connection; the file is read.                *)
StartUnlessLoaded(p) ==
  /\ bootstrap[p].pc = "idle" /\ memory[p] = 0
  /\ SetBoot(p, "load", entries[ServerOf[p]], FALSE)
  /\ UNCHANGED <<entries, serverState, memory, refresh, saves, ghosts>>

StartBootstrap(p) ==
  /\ bootstrap[p].pc = "idle"
  /\ SetBoot(p, "load", entries[ServerOf[p]], FALSE)
  /\ UNCHANGED <<entries, serverState, memory, refresh, saves, ghosts>>

NotStored(p) ==
  /\ bootstrap[p].pc = "load" /\ bootstrap[p].token = 0
  /\ SetBoot(p, "browser", 0, FALSE)
  /\ UNCHANGED <<entries, serverState, memory, refresh, saves, ghosts>>

Load(p) ==
  /\ bootstrap[p].pc = "load" /\ bootstrap[p].token # 0
  /\ memory' = [memory EXCEPT ![p] = bootstrap[p].token]
  /\ Obtain(p, bootstrap[p].token, FALSE)
  /\ UNCHANGED <<entries, serverState, saves, ghosts>>

(* assertCredentialsWork: an access token is inactive when it has expired, and *)
(* also when the server cannot verify it at the moment.                       *)
Active(p) ==
  /\ bootstrap[p].pc = "introspect"
  /\ Idle(p)
  /\ Proceed(p, memory[p])
  /\ UNCHANGED <<entries, serverState, memory, saves, ghosts>>

Inactive(p) ==
  /\ bootstrap[p].pc = "introspect" /\ ~bootstrap[p].again
  /\ memory[p] # 0
  /\ issued < MaxTokens
  /\ Obtain(p, memory[p], TRUE)
  /\ UNCHANGED <<entries, serverState, memory, saves, ghosts>>

(* 'HTTP 401: Stored worker credentials are no longer active.'                *)
NoLongerActive(p) ==
  /\ bootstrap[p].pc = "introspect" /\ bootstrap[p].again
  /\ memory' = [memory EXCEPT ![p] = 0]
  /\ SetBoot(p, "browser", 0, FALSE)
  /\ UNCHANGED <<entries, serverState, refresh, saves, ghosts>>

(* Any other error of a request is thrown to the caller.                      *)
BootstrapFails(p) ==
  /\ bootstrap[p].pc \in {"introspect", "browser"}
  /\ Idle(p)
  /\ UNCHANGED <<entries, serverState, memory, refresh, saves, ghosts>>

StartSave(p, k, t) ==
  saves' = [saves EXCEPT ![p][k] = [pc |-> "read", token |-> t, config |-> Empty]]

(* bootstrapFromBrowserAuthorization: a person lets the worker in.            *)
Authorize(p) ==
  LET t == issued + 1 IN
  /\ bootstrap[p].pc = "browser"
  /\ issued < MaxTokens
  /\ issued' = t
  /\ live' = live \union {t}
  /\ memory' = [memory EXCEPT ![p] = t]
  /\ SetBoot(p, "save", t, FALSE)
  /\ StartSave(p, "bootstrap", t)
  /\ UNCHANGED <<entries, aged, refresh, ghosts>>

(***************************************************************************)
(* The refresh: ensureFreshCredentials and handleRefreshTokenGrant.        *)
(***************************************************************************)
(* reconnectWithFreshToken(true), when the connection's token runs out or is  *)
(* not accepted.                                                              *)
RefreshConnection(p) ==
  /\ memory[p] # 0 /\ refresh[p].pc = "idle"
  /\ issued < MaxTokens
  /\ Ask(p, "call", memory[p])
  /\ UNCHANGED <<entries, serverState, memory, bootstrap, saves, ghosts>>

(* A bootstrap that waits for the refresh fails with it: the error's message  *)
(* is the answer's detail, which isAuthFailure does not know.                 *)
RefreshOver(p) ==
  /\ refresh' = [refresh EXCEPT ![p] = NoRefresh]
  /\ IF bootstrap[p].pc = "wait" THEN Idle(p) ELSE UNCHANGED bootstrap

FindToken(p) ==
  /\ refresh[p].pc = "asked" /\ refresh[p].old \in live
  /\ refresh' = [refresh EXCEPT ![p].pc = "found"]
  /\ UNCHANGED <<entries, serverState, memory, bootstrap, saves, ghosts>>

RejectToken(p) ==
  /\ refresh[p].pc = "asked" /\ refresh[p].old \notin live
  /\ RefreshOver(p)
  /\ UNCHANGED <<entries, serverState, memory, saves, ghosts>>

RefreshFails(p) ==
  /\ Faults
  /\ refresh[p].pc = "asked"
  /\ RefreshOver(p)
  /\ UNCHANGED <<entries, serverState, memory, saves, ghosts>>

BeingAuthorized(t) == \E q \in Processes : saves[q]["bootstrap"].token = t

(* The old token is revoked, a new one is stored.                             *)
Rotate(p) ==
  LET old == refresh[p].old IN
  /\ issued' = issued + 1
  /\ live' = (live \ {old}) \union {issued'}
  /\ overtaken' = IF BeingAuthorized(old) THEN overtaken \union {old} ELSE overtaken
  /\ UNCHANGED aged

AnswerOnlyOwner(p) ==
  /\ refresh[p].pc = "found"
  /\ Rotate(p)
  /\ refresh' = [refresh EXCEPT ![p].pc = "saving", ![p].new = issued']
  /\ memory' = [memory EXCEPT ![p] = issued']
  /\ StartSave(p, "refresh", issued')
  /\ UNCHANGED <<entries, bootstrap, kept, lost>>

(* The answer is in memory, a bootstrap that joined goes on with it, and the  *)
(* caller saves it.                                                           *)
Answer(p) ==
  /\ refresh[p].pc = "found"
  /\ Rotate(p)
  /\ refresh' = [refresh EXCEPT ![p].pc = "saving", ![p].new = issued']
  /\ memory' = [memory EXCEPT ![p] = issued']
  /\ StartSave(p, "refresh", issued')
  /\ IF bootstrap[p].pc = "wait" /\ refresh[p].by # "bootstrap"
       THEN SetBoot(p, "introspect", issued', bootstrap[p].again)
       ELSE UNCHANGED bootstrap
  /\ UNCHANGED <<entries, kept, lost>>

LoseAnswer(p) ==
  /\ Faults
  /\ refresh[p].pc = "found"
  /\ Rotate(p)
  /\ RefreshOver(p)
  /\ lost' = lost \union {refresh[p].old}
  /\ UNCHANGED <<entries, memory, saves, kept>>

(***************************************************************************)
(* writeWorkerCredentials.                                                 *)
(***************************************************************************)
SaveStep(p, k, pc) == saves[p][k].pc = pc

ReadConfig(p, k) ==
  /\ SaveStep(p, k, "read")
  /\ saves' = [saves EXCEPT ![p][k].pc = "open", ![p][k].config = entries]
  /\ UNCHANGED <<entries, serverState, memory, bootstrap, refresh, ghosts>>

OpenFile(p, k) ==
  /\ SaveStep(p, k, "open")
  /\ entries' = Empty
  /\ saves' = [saves EXCEPT ![p][k].pc = "write"]
  /\ UNCHANGED <<serverState, memory, bootstrap, refresh, ghosts>>

(* What is written: the token of the call, not the one in memory by then.     *)
NewConfigFromMemory(p, k) ==
  [saves[p][k].config EXCEPT ![ServerOf[p]] = memory[p]]
NewConfig(p, k) ==
  [saves[p][k].config EXCEPT ![ServerOf[p]] = saves[p][k].token]

(* A longer text that another process wrote since the file was opened shows   *)
(* behind a shorter one.                                                      *)
Longer(c, d) == \E s \in Servers : c[s] # 0 /\ d[s] = 0

WriteConfig(p, k) ==
  LET new == NewConfig(p, k) IN
  /\ SaveStep(p, k, "write")
  /\ \/ entries' = new
     \/ Longer(entries, new) /\ entries' = Empty
  /\ saves' = [saves EXCEPT ![p][k] = NoSave]
  /\ kept' = [kept EXCEPT ![ServerOf[p]] = saves[p][k].token]

(* An authorization.  Its token may have been refreshed since, and is written *)
(* over the new one when the refresh has been saved first.                    *)
SaveAuthorization(p) ==
  /\ WriteConfig(p, "bootstrap")
  /\ Idle(p)
  /\ Proceed(p, memory[p])
  /\ UNCHANGED <<serverState, memory, lost, overtaken>>

(* A refresh; the bootstrap that called it goes on with this.credentials,     *)
(* not with the answer.                                                       *)
SaveRefreshed(p) ==
  /\ WriteConfig(p, "refresh")
  /\ refresh' = [refresh EXCEPT ![p] = NoRefresh]
  /\ IF bootstrap[p].pc = "wait" /\ refresh[p].by = "bootstrap"
       THEN SetBoot(p, "introspect", memory[p], bootstrap[p].again)
       ELSE UNCHANGED bootstrap
  /\ UNCHANGED <<serverState, memory, lost, overtaken>>

(***************************************************************************)
(* The environment.                                                        *)
(***************************************************************************)
TimePasses ==
  /\ aged < issued /\ issued < MaxTokens
  /\ aged' = aged + 1
  /\ UNCHANGED <<entries, live, issued, memory, bootstrap, refresh, saves,
                 ghosts>>

(* A process ends; the server may yet handle the request on its way.          *)
Crash(p) ==
  /\ Faults
  /\ memory[p] # 0
  /\ memory' = [memory EXCEPT ![p] = 0]
  /\ Idle(p)
  /\ refresh' = [refresh EXCEPT ![p] = NoRefresh]
  /\ saves' = [saves EXCEPT ![p] = NoSaves]
  /\ \/ UNCHANGED live
     \/ Asking(p) /\ live' = live \ {refresh[p].old}
  /\ lost' = IF refresh[p].pc = "saving" \/ live' # live
               THEN lost \union {refresh[p].old} ELSE lost
  /\ UNCHANGED <<entries, issued, aged, kept, overtaken>>

(***************************************************************************)
(* The specification.                                                      *)
(***************************************************************************)
BootstrapStep(p) ==
  \/ NotStored(p) \/ Load(p) \/ Active(p) \/ Inactive(p) \/ NoLongerActive(p)
RefreshStep(p) == FindToken(p) \/ RejectToken(p) \/ Answer(p)
SavingStep(p) ==
  \/ \E k \in Savers : ReadConfig(p, k) \/ OpenFile(p, k)
  \/ SaveAuthorization(p) \/ SaveRefreshed(p)

CredentialsNext ==
  \/ \E p \in Processes :
       \/ StartBootstrap(p) \/ BootstrapStep(p) \/ BootstrapFails(p)
       \/ Authorize(p) \/ RefreshConnection(p) \/ RefreshStep(p)
       \/ RefreshFails(p) \/ LoseAnswer(p) \/ SavingStep(p) \/ Crash(p)
  \/ TimePasses

(* The worker polls for ever, requests and file accesses end; nothing is      *)
(* assumed of people, time and the connection.                                *)
CredentialsFairness ==
  \A p \in Processes :
    /\ WF_vars(StartBootstrap(p))
    /\ WF_vars(BootstrapStep(p))
    /\ WF_vars(RefreshStep(p))
    /\ WF_vars(SavingStep(p))

CredentialsSpec == CredentialsInit /\ [][CredentialsNext]_vars
FairCredentialsSpec == CredentialsSpec /\ CredentialsFairness

(***************************************************************************)
(* Properties.                                                             *)
(***************************************************************************)
Token == 0..issued
Bootstraps ==
  [pc : {"idle", "load", "introspect", "wait", "browser", "save"},
   token : Token, again : BOOLEAN]
Refreshes ==
  [pc : {"idle", "asked", "found", "saving"}, by : {"bootstrap", "call"},
   old : Token, new : Token]
Saves ==
  [pc : {"idle", "read", "open", "write"}, token : Token,
   config : [Servers -> Token]]

CredentialsTypeOK ==
  /\ issued \in Nat /\ aged \in Nat
  /\ entries \in [Servers -> Token]
  /\ live \subseteq Token
  /\ memory \in [Processes -> Token]
  /\ bootstrap \in [Processes -> Bootstraps]
  /\ refresh \in [Processes -> Refreshes]
  /\ saves \in [Processes -> [Savers -> Saves]]
  /\ kept \in [Servers -> Token]
  /\ lost \subseteq Token /\ overtaken \subseteq Token
  /\ \A p \in Processes :
       /\ bootstrap[p].pc = "introspect" => bootstrap[p].token # 0
       /\ refresh[p].pc # "idle" => refresh[p].old # 0

(* While the workers of a machine share one server, what the file holds is    *)
(* accepted by the server, or the process that has replaced it is about to    *)
(* save the new one: although each call puts what it read back into memory,   *)
(* over a token that came since.  Two things leave a revoked token in it: its *)
(* replacement was lost with a crash or an answer; or, without any fault, the *)
(* connection refreshed it while bootstrap was still saving it as authorized, *)
(* and that save came last.                                                   *)
OneServer == \A p, q \in Processes : ServerOf[p] = ServerOf[q]
StoredTokenLive ==
  OneServer =>
    \A p \in Processes :
      LET t == entries[ServerOf[p]] IN
      \/ t = 0 \/ t \in live
      \/ t \in lost \union overtaken
      \/ \E q \in Processes : refresh[q].pc = "saving" /\ refresh[q].old = t

(* A process with a replaced token in memory gets an accepted one or asks a   *)
(* person, as its next call reads the file again; unless the file has one of  *)
(* those two kinds of revoked tokens, with which it fails until another       *)
(* process stores a new one.                                                  *)
MemoryHeals ==
  \A p \in Processes :
    memory[p] \notin live \union {0}
      ~> \/ memory[p] \in live \/ bootstrap[p].pc = "browser"
         \/ entries[ServerOf[p]] \in lost \union overtaken

(* Who waits is waited for: a bootstrap that joined a refresh has one that will *)
(* answer or fail, or has called it itself and waits for its save; and what is *)
(* to be saved is being saved.                                               *)
NobodyWaitsInVain ==
  \A p \in Processes :
    /\ bootstrap[p].pc = "wait" =>
         \/ Asking(p)
         \/ refresh[p].pc = "saving" /\ refresh[p].by = "bootstrap"
    /\ bootstrap[p].pc = "save" => saves[p]["bootstrap"].pc # "idle"
    /\ refresh[p].pc = "saving" => saves[p]["refresh"].pc # "idle"

(* No call waits for ever for another's refresh or bootstrap.                 *)
CallsEnd ==
  \A p \in Processes :
    bootstrap[p].pc # "idle" ~> bootstrap[p].pc \in {"idle", "browser"}

(* "If credentials already exist for other servers, they are preserved": when *)
(* nobody is writing, the file has the token last saved for every server.     *)
OthersPreserved ==
  (\A p \in Processes : saves[p] = NoSaves) => entries = kept
=============================================================================
