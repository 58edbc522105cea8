-------------------------------- MODULE Auth --------------------------------
(***************************************************************************)
(* Provider credentials: src/auth, src/cli/model_auth_commands.cpp and      *)
(* github_copilot_provider.cpp.  Gateway threads resolve tokens while the   *)
(* command line logs in and out; both write the same files.                 *)
(*                                                                         *)
(* A file is a path to an inode: Save truncates and writes the temporary    *)
(* one, whoever else has it open, and renames what the temporary path then  *)
(* is.  A record is its token, refresh token and expiry; the authorization  *)
(* server (external) numbers them and may rotate the refresh token.         *)
(***************************************************************************)
EXTENDS Naturals, FiniteSets

CONSTANTS
  AuthThread,   \* threads of the gateway that call a provider
  Cli,          \* the command line
  Leeway,       \* leeway_seconds
  TokenLife,    \* expires_in
  MaxGrants,    \* bound: tokens the servers give out
  MaxAuthTime,  \* bound: the clock
  MaxAuthFails  \* bound: failed writes and crashes

ASSUME AuthAssumption ==
  /\ Cli \notin AuthThread
  /\ IsFiniteSet(AuthThread)
  /\ {Leeway, TokenLife, MaxGrants, MaxAuthTime, MaxAuthFails} \subseteq Nat

VARIABLES
  auUses,     \* the provider that the model of the configuration names
  auFile,     \* per file: the inodes its path and its .tmp name, their contents
  auThread,   \* per actor: its step, file, record and open inode
  auLogin,    \* CallbackState of LoginInteractive
  auMemory,   \* GitHubCopilotProvider::cached_runtime_
  auServer,   \* the servers: tokens given out, valid refresh tokens
  auNow,      \* system_clock
  auPast      \* history: files written by two at a time, grants whose record
              \* was never stored, files logged in to, failures so far

authVars == <<auUses, auFile, auThread, auLogin, auMemory, auServer, auNow, auPast>>

AuthActor == AuthThread \cup {Cli}
AuthFiles == {"codex", "copilot", "cache"}
Inode == 1 .. 2 + Cardinality(AuthActor)

\* A file that does not parse loads like one that is not there.
NoRecord == [token |-> 0, refresh |-> 0, until |-> 0]
Torn == NoRecord
Load(f) == IF auFile[f].main = 0 THEN NoRecord ELSE auFile[f].data[auFile[f].main]

HasUsableAccessToken(r) == r.token # 0 /\ (r.until = 0 \/ r.until > auNow + Leeway)
IsUsable(r) == r.token # 0 /\ r.until > auNow + Leeway

IdleActor == [pc |-> "idle", file |-> "codex", rec |-> NoRecord, fd |-> 0]
Act(a, pc, f, rec) == auThread' = [auThread EXCEPT ![a] = [IdleActor EXCEPT !.pc = pc, !.file = f, !.rec = rec]]
GiveUp(a) == auThread' = [auThread EXCEPT ![a] = IdleActor]
Overlaps(a, f) == IF \E b \in AuthActor \ {a} : auThread[b].pc # "idle" /\ auThread[b].file = f
                    THEN [auPast EXCEPT !.overlap = @ \cup {f}] ELSE auPast
Saving(a) == auThread[a].pc \in {"open", "write", "rename"}

(***************************************************************************)
(* ProviderAuthStore and GitHubCopilotTokenCache.                           *)
(***************************************************************************)
\* Mutant: the file itself is opened.
SaveOpen_InPlace(a) ==
  LET f == auThread[a].file
      i == IF auFile[f].main # 0 THEN auFile[f].main ELSE 1
  IN  /\ auThread[a].pc = "open"
      /\ auFile' = [auFile EXCEPT ![f].main = i, ![f].tmp = i, ![f].data[i] = Torn]
      /\ auThread' = [auThread EXCEPT ![a].pc = "write", ![a].fd = i]
      /\ UNCHANGED <<auUses, auLogin, auMemory, auServer, auNow, auPast>>

\* open(O_CREAT | O_TRUNC) on the temporary path.
SaveOpen(a) ==
  LET f    == auThread[a].file
      used == {auFile[f].main, auFile[f].tmp} \cup {auThread[b].fd : b \in AuthActor}
      i    == IF auFile[f].tmp # 0 THEN auFile[f].tmp ELSE CHOOSE n \in Inode : n \notin used
  IN  /\ auThread[a].pc = "open"
      /\ auFile' = [auFile EXCEPT ![f].tmp = i, ![f].data[i] = Torn]
      /\ auThread' = [auThread EXCEPT ![a].pc = "write", ![a].fd = i]
      /\ UNCHANGED <<auUses, auLogin, auMemory, auServer, auNow, auPast>>

\* Over the text of another writer the longer of the two shows through.
SaveWrite(a) ==
  LET f == auThread[a].file
      i == auThread[a].fd
  IN  /\ auThread[a].pc = "write"
      /\ \E text \in {auThread[a].rec} \cup (IF auFile[f].data[i] = Torn THEN {} ELSE {Torn}) :
           auFile' = [auFile EXCEPT ![f].data[i] = text]
      /\ auThread' = [auThread EXCEPT ![a].pc = "rename"]
      /\ UNCHANGED <<auUses, auLogin, auMemory, auServer, auNow, auPast>>

\* rename fails when the temporary path is gone.
SaveRename(a) ==
  LET f == auThread[a].file
  IN  /\ auThread[a].pc = "rename"
      /\ IF auFile[f].tmp = 0
           THEN UNCHANGED <<auFile, auMemory, auPast>>
           ELSE /\ auFile' = [auFile EXCEPT ![f].main = auFile[f].tmp, ![f].tmp = 0,
                     ![f].data = [i \in Inode |-> IF i = auFile[f].tmp \/ \E b \in AuthActor : auThread[b].fd = i
                                                  THEN @[i] ELSE Torn]]
                /\ auMemory' = IF f = "cache" THEN auThread[a].rec ELSE auMemory
                /\ auPast' = [auPast EXCEPT !.in = @ \cup {f}]
      /\ GiveUp(a)
      /\ UNCHANGED <<auUses, auLogin, auServer, auNow>>

\* write or close fails: the temporary path is removed and the error passed on.
SaveFails(a) ==
  /\ auThread[a].pc = "write" /\ auPast.fails < MaxAuthFails
  /\ auFile' = [auFile EXCEPT ![auThread[a].file].tmp = 0]
  /\ auPast' = [auPast EXCEPT !.fails = @ + 1, !.lost = @ \cup {auThread[a].file}]
  /\ GiveUp(a)
  /\ UNCHANGED <<auUses, auLogin, auMemory, auServer, auNow>>

\* logout; the token cache of copilot stays.
Clear(f) ==
  /\ auThread[Cli].pc = "idle" /\ auFile[f].main # 0
  /\ auFile' = [auFile EXCEPT ![f].main = 0]
  /\ auPast' = [Overlaps(Cli, f) EXCEPT !.in = @ \ {f}]
  /\ UNCHANGED <<auUses, auThread, auLogin, auMemory, auServer, auNow>>

(***************************************************************************)
(* OpenAI Codex.                                                           *)
(***************************************************************************)
\* A token that is usable, or a login that cannot be refreshed, changes nothing.
ResolveAccessToken(a) ==
  LET r == Load("codex")
  IN  /\ auThread[a].pc = "idle" /\ auUses = "codex"
      /\ r # NoRecord /\ ~ HasUsableAccessToken(r) /\ r.refresh # 0
      /\ Act(a, "post", "codex", r)
      /\ auPast' = Overlaps(a, "codex")
      /\ UNCHANGED <<auUses, auFile, auLogin, auMemory, auServer, auNow>>

Grant == auServer.next + 1

\* Mutant: an answer without refresh token clears it.
RefreshWithToken_Forgets(a) ==
  LET old == auThread[a].rec.refresh
  IN  /\ auThread[a].pc = "post" /\ auServer.next < MaxGrants /\ old \in auServer.valid
      /\ \E until \in {auNow, auNow + TokenLife} :
           auThread' = [auThread EXCEPT ![a].pc = "open",
             ![a].rec = [token |-> Grant, refresh |-> 0, until |-> until]]
      /\ auServer' = [auServer EXCEPT !.next = Grant]
      /\ UNCHANGED <<auUses, auFile, auLogin, auMemory, auNow, auPast>>

\* An answer may leave out expires_in (the token counts as expired) and the
\* refresh token (the old one is kept).
RefreshWithToken(a) ==
  LET old == auThread[a].rec.refresh
  IN  /\ auThread[a].pc = "post" /\ auServer.next < MaxGrants /\ old \in auServer.valid
      /\ \E rotated \in BOOLEAN, until \in {auNow, auNow + TokenLife} :
           /\ auServer' = [next  |-> Grant,
                           valid |-> IF rotated THEN (auServer.valid \ {old}) \cup {Grant} ELSE auServer.valid]
           /\ auThread' = [auThread EXCEPT ![a].pc = "open",
                ![a].rec = [token |-> Grant, refresh |-> IF rotated THEN Grant ELSE old, until |-> until]]
      /\ UNCHANGED <<auUses, auFile, auLogin, auMemory, auNow, auPast>>

\* post_form fails, or the server refuses.
PostFails(a) ==
  /\ auThread[a].pc \in {"post", "exchange", "swap", "poll"}
  /\ GiveUp(a)
  /\ UNCHANGED <<auUses, auFile, auLogin, auMemory, auServer, auNow, auPast>>

LoginInteractive ==
  /\ auThread[Cli].pc = "idle" /\ auUses = "codex"
  /\ Act(Cli, "wait", "codex", NoRecord)
  /\ auLogin' = [done |-> FALSE, ok |-> FALSE, code |-> "none"]
  /\ auPast' = Overlaps(Cli, "codex")
  /\ UNCHANGED <<auUses, auFile, auMemory, auServer, auNow>>

\* Mutant: the state is not compared.
Callback_AnyState(state, answer) ==
  /\ auThread[Cli].pc \in {"wait", "join"}
  /\ auLogin' = [done |-> TRUE, ok |-> answer = "code",
                 code |-> IF answer = "code" THEN state ELSE auLogin.code]
  /\ UNCHANGED <<auUses, auFile, auThread, auMemory, auServer, auNow, auPast>>

\* The browser's request, also one that was waiting for the lock while a code was
\* pasted: with another state, with an error, with or without a code.
Callback(state, answer) ==
  /\ auThread[Cli].pc \in {"wait", "join"}
  /\ auLogin' = [done |-> TRUE, ok |-> state = "ours" /\ answer = "code",
                 code |-> IF state = "ours" /\ answer = "code" THEN state ELSE auLogin.code]
  /\ UNCHANGED <<auUses, auFile, auThread, auMemory, auServer, auNow, auPast>>

\* The wait ends: woken by a callback, or after five minutes with a pasted line.
LoginWakes(pasted) ==
  /\ auThread[Cli].pc = "wait"
  /\ IF auLogin.done THEN UNCHANGED auLogin
     ELSE auLogin' = [done |-> TRUE, ok |-> pasted # "none", code |-> pasted]
  /\ auThread' = [auThread EXCEPT ![Cli].pc = "join"]
  /\ UNCHANGED <<auUses, auFile, auMemory, auServer, auNow, auPast>>

LoginJoins ==
  /\ auThread[Cli].pc = "join"
  /\ IF auLogin.ok THEN auThread' = [auThread EXCEPT ![Cli].pc = "exchange"] ELSE GiveUp(Cli)
  /\ UNCHANGED <<auUses, auFile, auLogin, auMemory, auServer, auNow, auPast>>

ExchangeCode ==
  /\ auThread[Cli].pc = "exchange" /\ auServer.next < MaxGrants
  /\ auServer' = [next |-> Grant, valid |-> auServer.valid \cup {Grant}]
  /\ auThread' = [auThread EXCEPT ![Cli].pc = "open",
       ![Cli].rec = [token |-> Grant, refresh |-> Grant, until |-> auNow + TokenLife]]
  /\ UNCHANGED <<auUses, auFile, auLogin, auMemory, auNow, auPast>>

(***************************************************************************)
(* GitHub Copilot.                                                         *)
(***************************************************************************)
RequestDeviceCode ==
  /\ auThread[Cli].pc = "idle" /\ auUses = "copilot"
  /\ Act(Cli, "poll", "copilot", NoRecord)
  /\ auPast' = Overlaps(Cli, "copilot")
  /\ UNCHANGED <<auUses, auFile, auLogin, auMemory, auServer, auNow>>

\* authorization_pending and slow_down only wait; every other answer ends the loop.
PollForAccessToken ==
  /\ auThread[Cli].pc = "poll" /\ auServer.next < MaxGrants
  /\ auServer' = [auServer EXCEPT !.next = Grant]
  /\ auThread' = [auThread EXCEPT ![Cli].pc = "open", ![Cli].rec = [NoRecord EXCEPT !.token = Grant]]
  /\ UNCHANGED <<auUses, auFile, auLogin, auMemory, auNow, auPast>>

\* Under runtime_mu_: a token of the environment is exchanged, else a usable cached
\* one returned, else that of the store exchanged.
ResolveRuntimeCredential(a, env) ==
  /\ auThread[a].pc = "idle" /\ auUses = "copilot" /\ ~ IsUsable(auMemory)
  /\ \A b \in AuthThread : auThread[b].file # "cache"
  /\ IF ~ env /\ IsUsable(Load("cache"))
       THEN auMemory' = Load("cache") /\ UNCHANGED auThread
       ELSE /\ env \/ Load("copilot").token # 0
            /\ Act(a, "swap", "cache", IF env THEN [NoRecord EXCEPT !.token = MaxGrants + 1] ELSE Load("copilot"))
            /\ UNCHANGED auMemory
  /\ UNCHANGED <<auUses, auFile, auLogin, auServer, auNow, auPast>>

ExchangeForApiToken(a) ==
  /\ auThread[a].pc = "swap" /\ auServer.next < MaxGrants
  /\ auServer' = [auServer EXCEPT !.next = Grant]
  /\ auThread' = [auThread EXCEPT ![a].pc = "open",
       ![a].rec = [token |-> Grant, refresh |-> 0, until |-> auNow + TokenLife]]
  /\ UNCHANGED <<auUses, auFile, auLogin, auMemory, auNow, auPast>>

(***************************************************************************)
(* The environment.                                                        *)
(***************************************************************************)
\* The gateway or the command line dies, wherever it is.
Dies(who) ==
  /\ auPast.fails < MaxAuthFails /\ \E a \in who : auThread[a].pc # "idle"
  /\ auThread' = [a \in AuthActor |-> IF a \in who THEN IdleActor ELSE auThread[a]]
  /\ auMemory' = IF Cli \in who THEN auMemory ELSE NoRecord
  /\ auPast' = [auPast EXCEPT !.fails = @ + 1, !.lost = @ \cup {auThread[a].file : a \in {b \in who : Saving(b)}}]
  /\ UNCHANGED <<auUses, auFile, auLogin, auServer, auNow>>

AuthTick ==
  /\ auNow < MaxAuthTime
  /\ auNow' = auNow + 1
  /\ UNCHANGED <<auUses, auFile, auThread, auLogin, auMemory, auServer, auPast>>

-----------------------------------------------------------------------------
AuthInit(provider) ==
  /\ auUses = provider
  /\ auFile = [f \in AuthFiles |-> [main |-> 0, tmp |-> 0, data |-> [i \in Inode |-> Torn]]]
  /\ auThread = [a \in AuthActor |-> IdleActor]
  /\ auLogin = [done |-> FALSE, ok |-> FALSE, code |-> "none"]
  /\ auMemory = NoRecord
  /\ auServer = [next |-> 0, valid |-> {}]
  /\ auNow = 1
  /\ auPast = [overlap |-> {}, lost |-> {}, in |-> {}, fails |-> 0]

AuthNext ==
  \/ \E a \in AuthActor : SaveOpen(a) \/ SaveWrite(a) \/ SaveRename(a) \/ SaveFails(a) \/ PostFails(a)
  \/ \E a \in AuthThread : \/ ResolveAccessToken(a) \/ RefreshWithToken(a) \/ ExchangeForApiToken(a)
                           \/ \E env \in BOOLEAN : ResolveRuntimeCredential(a, env)
  \/ \E f \in {"codex", "copilot"} : Clear(f)
  \/ LoginInteractive \/ LoginJoins \/ ExchangeCode \/ RequestDeviceCode \/ PollForAccessToken
  \/ \E s \in {"ours", "other"}, x \in {"code", "error", "missing"} : Callback(s, x)
  \/ \E p \in {"none", "pasted"} : LoginWakes(p)
  \/ \E who \in {AuthThread, {Cli}} : Dies(who)
  \/ AuthTick

-----------------------------------------------------------------------------
\* Unless two write one file at a time, a login is there until it is logged out,
\* whatever fails or dies in between; and unless the record of an answer was never
\* stored, the server still takes the refresh token that is
\* (provider_auth.cpp:138, openai_codex_auth.cpp:597).
LoginKept ==
  \A f \in AuthFiles \ auPast.overlap :
    /\ (Load(f) # NoRecord) <=> (f \in auPast.in)
    /\ f = "codex" /\ f \in auPast.in \ auPast.lost /\ (\A a \in AuthActor : ~ Saving(a)) =>
         Load(f).refresh \in auServer.valid

\* The code that is exchanged came with the state of this login or was pasted, also
\* when requests come late, twice or after the wait is over
\* (openai_codex_auth.cpp:463, 507, 528).
CodeIsOurs == auThread[Cli].pc = "exchange" => auLogin.code \in {"ours", "pasted"}

\* Credentials survive what happens to their writers, and are the user's own:
\* the parts above.
AuthSafe == LoginKept /\ CodeIsOurs
=============================================================================
