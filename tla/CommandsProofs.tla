---------------------------- MODULE CommandsProofs -----------------------------
(***************************************************************************)
(* Theorems about Commands, for any number of processes: invocations take  *)
(* only the steps of Token and of Schema, so what is proved of these holds *)
(* of the whole; and what an exit status says is so.  The first part is    *)
(* about Token alone: what holds whoever fails, dies or obtains a token in *)
(* between.                                                                *)
(***************************************************************************)
EXTENDS Commands, SchemaProofs

(* A token file that a process may replace.                                *)
Understood == file # Garbled /\ (file \in Credentials => file.exact)

Holds  == {"write", "replace", "sync", "ready", "service"}
Proven == {"sync", "ready", "service"}

(* What a process knows, although others replaced the file since it read   *)
(* it: the credential it holds, that it is stored, that the file is DAM's. *)
ClientInv(s) ==
  /\ s \in Session
  /\ s.at \in Holds => s.held \in Credentials /\ s.held.exact
  /\ s.at \in Proven => s.held.grant \in stored
  /\ s.at \in {"consent", "refresh", "write", "replace"} => Understood

TokenInv ==
  /\ file \in TokenFiles
  /\ file \in Credentials => file.grant \in stored
  /\ auth \in [Clients -> Session]
  /\ \A p \in Clients : ClientInv(auth[p])

(* A step that changes what one process holds, and at most adds to what    *)
(* is stored.                                                              *)
LEMMA ClientMoves ==
  ASSUME TokenInv, NEW p \in Clients, NEW s, Leases(p, s), ClientInv(s)',
         stored \subseteq stored', Understood => Understood',
         file' \in TokenFiles, file' \in Credentials => file'.grant \in stored'
  PROVE  TokenInv'
<1>1. s \in Session
  BY DEF ClientInv
<1>2. /\ auth' \in [Clients -> Session]
      /\ auth'[p] = s /\ \A q \in Clients : q # p => auth'[q] = auth[q]
  BY <1>1 DEF Leases, TokenInv
<1>3. ASSUME NEW q \in Clients PROVE ClientInv(auth[q])'
  <2>1. CASE q = p
    BY <2>1, <1>2 DEF ClientInv
  <2>2. CASE q # p
    <3>1. ClientInv(auth[q]) /\ auth'[q] = auth[q]
      BY <1>2, <2>2 DEF TokenInv
    <3>2. QED
      BY <3>1 DEF ClientInv
  <2>3. QED BY <2>1, <2>2
<1>4. QED
  BY <1>2, <1>3 DEF TokenInv

(* Only the step of one process, with the file as it is.                   *)
LEMMA ClientGoes ==
  ASSUME TokenInv, NEW p \in Clients, NEW step \in AuthSteps, AuthGoes(p, step),
         step \in Holds => auth[p].at \in Holds,
         step \in Proven => auth[p].at \in Proven,
         step \in {"consent", "refresh", "write", "replace"} => Understood,
         UNCHANGED <<file, stored>>
  PROVE  TokenInv'
<1>1. auth[p] \in Session /\ ClientInv(auth[p])
  BY DEF TokenInv
<1>2. PICK s : s = [auth[p] EXCEPT !.at = step]
  OBVIOUS
<1>3. s \in Session /\ s.at = step /\ s.held = auth[p].held
  BY <1>1, <1>2 DEF Session
<1>4. Leases(p, s)
  BY <1>2 DEF AuthGoes, Leases
<1>5. ClientInv(s)'
  BY <1>1, <1>3 DEF ClientInv, Understood
<1>6. QED
  BY <1>4, <1>5, ClientMoves DEF TokenInv, Understood

LEMMA Denying ==
  ASSUME TokenInv, NEW p \in Clients, Denies(p) \/ Leases(p, NoLease), UNCHANGED <<file, stored>>
  PROVE  TokenInv'
<1>1. PICK s : Leases(p, s) /\ (s = [NoLease EXCEPT !.at = "denied"] \/ s = NoLease)
  BY DEF Denies
<1>2. s \in Session /\ s.at \in {"denied", "out"}
  BY <1>1 DEF NoLease, Session, AuthSteps, Sources
<1>3. ClientInv(s)'
  BY <1>2 DEF ClientInv, Holds, Proven
<1>4. QED
  BY <1>1, <1>3, ClientMoves DEF TokenInv, Understood

LEMMA ReadTokenStep ==
  ASSUME TokenInv, NEW p \in Clients, ReadToken(p)
  PROVE  TokenInv'
<1>1. UNCHANGED <<file, stored>>
  BY DEF ReadToken
<1>2. CASE file = NoToken /\ AuthGoes(p, "consent")
  <2>1. Understood
    BY <1>2, TokenAssumption DEF Understood
  <2>2. "consent" \in AuthSteps /\ "consent" \notin Holds /\ "consent" \notin Proven
    BY DEF AuthSteps, Holds, Proven
  <2>3. QED
    BY <1>1, <1>2, <2>1, <2>2, ClientGoes
<1>3. CASE Denies(p)
  BY <1>1, <1>3, Denying
<1>4. ASSUME NEW step \in {"ready", "refresh"}, NEW source \in Sources,
             file \in Credentials, file.exact,
             Leases(p, [at |-> step, held |-> file, source |-> source])
      PROVE  TokenInv'
  <2>1. PICK s : s = [at |-> step, held |-> file, source |-> source]
    OBVIOUS
  <2>2. s \in Session /\ s.at = step /\ s.held = file
    BY <2>1, <1>4 DEF Session, AuthSteps
  <2>3. Understood
    BY <1>4, TokenAssumption DEF Understood
  <2>4. ClientInv(s)'
    BY <1>1, <1>4, <2>2, <2>3 DEF ClientInv, TokenInv, Understood
  <2>5. QED
    BY <1>1, <1>4, <2>1, <2>4, ClientMoves DEF TokenInv, Understood
<1>5. QED
  BY <1>2, <1>3, <1>4 DEF ReadToken, Refreshable, Sources

(* A new credential is only written, not used.                             *)
LEMMA ReceivesStep ==
  ASSUME TokenInv, NEW p \in Clients, NEW c \in Credentials, NEW source \in Sources,
         auth[p].at \in {"refresh", "consent"}, Receives(p, c, source)
  PROVE  TokenInv'
<1>1. Understood /\ UNCHANGED <<file, stored>>
  BY DEF TokenInv, ClientInv, Receives
<1>2. CASE Denies(p)
  BY <1>1, <1>2, Denying
<1>3. CASE c.exact /\ Leases(p, [at |-> "write", held |-> c, source |-> source])
  <2>1. PICK s : s = [at |-> "write", held |-> c, source |-> source]
    OBVIOUS
  <2>2. s \in Session /\ s.at = "write" /\ s.held = c
    BY <2>1 DEF Session, AuthSteps
  <2>3. ClientInv(s)'
    BY <1>1, <1>3, <2>2 DEF ClientInv, Proven, Understood
  <2>4. QED
    BY <1>1, <1>3, <2>1, <2>3, ClientMoves DEF TokenInv, Understood
<1>4. QED
  BY <1>2, <1>3 DEF Receives

LEMMA ReplaceTokenStep ==
  ASSUME TokenInv, NEW p \in Clients, ReplaceToken(p)
  PROVE  TokenInv' /\ Understood /\ file' \in Credentials /\ file'.exact
<1>1. /\ auth[p] \in Session /\ ClientInv(auth[p]) /\ auth[p].at = "replace"
      /\ auth[p].held \in Credentials /\ auth[p].held.exact /\ Understood
  BY DEF TokenInv, ReplaceToken, AuthAt, ClientInv, Holds
<1>2. /\ file' = auth[p].held /\ stored' = stored \cup {auth[p].held.grant}
      /\ AuthGoes(p, "sync")
  BY DEF ReplaceToken
<1>3. PICK s : s = [auth[p] EXCEPT !.at = "sync"]
  OBVIOUS
<1>4. s \in Session /\ s.at = "sync" /\ s.held = auth[p].held
  BY <1>1, <1>3 DEF Session, AuthSteps
<1>5. Leases(p, s)
  BY <1>2, <1>3 DEF AuthGoes, Leases
<1>6. ClientInv(s)'
  BY <1>1, <1>2, <1>4 DEF ClientInv
<1>7. Understood'
  BY <1>1, <1>2, TokenAssumption DEF Understood
<1>8. QED
  BY <1>1, <1>2, <1>5, <1>6, <1>7, ClientMoves DEF TokenFiles

LEMMA TokenInitInv == TokenInit => TokenInv
<1> SUFFICES ASSUME TokenInit PROVE TokenInv
  OBVIOUS
<1>1. NoLease \in Session /\ NoLease.at = "out"
  BY DEF NoLease, Session, AuthSteps, Sources
<1>2. \A p \in Clients : ClientInv(auth[p])
  BY <1>1 DEF TokenInit, ClientInv, Holds, Proven
<1>3. file \in Credentials => file.grant \in stored
  BY DEF TokenInit, Credentials
<1>4. QED
  BY <1>1, <1>2, <1>3 DEF TokenInit, TokenInv

Whole == file' # file => Understood /\ file' \in Credentials /\ file'.exact

LEMMA TokenNextInv == TokenInv /\ [TokenNext]_tokenVars => TokenInv' /\ Whole
<1> SUFFICES ASSUME TokenInv, [TokenNext]_tokenVars PROVE TokenInv' /\ Whole
  OBVIOUS
<1> USE DEF Whole
<1>1. CASE UNCHANGED tokenVars
  BY <1>1 DEF tokenVars, TokenInv, ClientInv, Understood
<1>2. ASSUME NEW g \in Grants, Expire(g) PROVE TokenInv' /\ Whole
  BY <1>2 DEF Expire, TokenInv, ClientInv, Understood
<1>3. ASSUME NEW p \in Clients, StartAuth(p) \/ LoadClient(p) \/ WriteToken(p) \/ SyncFolder(p)
      PROVE TokenInv' /\ Whole
  <2>1. UNCHANGED <<file, stored>> /\ auth[p] \in Session /\ ClientInv(auth[p])
    BY <1>3 DEF StartAuth, LoadClient, WriteToken, SyncFolder, TokenInv
  <2>2. \/ AuthGoes(p, "client") \/ AuthGoes(p, "token")
        \/ AuthAt(p, "write") /\ AuthGoes(p, "replace")
        \/ AuthAt(p, "sync") /\ AuthGoes(p, "ready")
    BY <1>3 DEF StartAuth, LoadClient, WriteToken, SyncFolder
  <2>3. QED
    BY <2>1, <2>2, ClientGoes DEF AuthAt, AuthSteps, Holds, Proven, ClientInv
<1>4. ASSUME NEW p \in Clients, BuildService(p) PROVE TokenInv' /\ Whole
  <2>1. UNCHANGED <<file, stored>> /\ auth[p].at = "ready"
    BY <1>4 DEF BuildService, AuthAt
  <2>2. AuthGoes(p, "service") \/ Denies(p)
    BY <1>4 DEF BuildService
  <2>3. QED
    BY <2>1, <2>2, ClientGoes, Denying DEF AuthSteps, Holds, Proven
<1>5. ASSUME NEW p \in Clients, AuthFails(p) \/ DropAuth(p) PROVE TokenInv' /\ Whole
  BY <1>5, Denying DEF AuthFails, DropAuth
<1>6. ASSUME NEW p \in Clients, ReadToken(p) PROVE TokenInv' /\ Whole
  BY <1>6, ReadTokenStep DEF ReadToken
<1>7. ASSUME NEW p \in Clients, NEW c \in Credentials, Refresh(p, c) \/ Authorize(p, c)
      PROVE TokenInv' /\ Whole
  BY <1>7, ReceivesStep DEF Refresh, Authorize, AuthAt, Sources, Receives
<1>8. ASSUME NEW p \in Clients, ReplaceToken(p) PROVE TokenInv' /\ Whole
  BY <1>8, ReplaceTokenStep
<1>9. QED
  BY <1>1, <1>2, <1>3, <1>4, <1>5, <1>6, <1>7, <1>8 DEF TokenNext, AuthStep

(* The inductive invariant: what every process holds while it obtains      *)
(* access, and that only whole credentials reach the token file.           *)
THEOREM TokenInvariant == TokenSpec => []TokenInv
BY TokenInitInv, TokenNextInv, PTL DEF TokenSpec

(* Mail is only read with access of the one scope that is or was stored.   *)
THEOREM LeasesAreProven == TokenSpec => []LeaseIsProven
<1>1. TokenInv => LeaseIsProven
  BY DEF TokenInv, ClientInv, LeaseIsProven, Holds, Proven
<1>2. QED
  BY <1>1, TokenInvariant, PTL

(* Processes that obtain tokens at once replace whole tokens by whole ones.*)
THEOREM TokenFileIsWhole == TokenSpec => TokenFileStaysWhole
<1>1. TokenInv /\ [TokenNext]_tokenVars =>
        [file' # file => Understood /\ file' \in Credentials /\ file'.exact]_file
  BY TokenNextInv DEF Whole
<1>2. Understood <=> file # Garbled /\ (file \in Credentials => file.exact)
  BY DEF Understood
<1>3. QED
  BY <1>1, <1>2, TokenInvariant, PTL DEF TokenSpec, TokenFileStaysWhole

------------------------------------------------------------------------------
(* A step of a command is a step of its opening, or leaves the store.      *)
LEMMA StepIsSchemaStep ==
  ASSUME [CommandsNext]_commandVars
  PROVE  [SchemaNext]_schemaVars
<1>1. CASE UNCHANGED commandVars
  BY <1>1 DEF commandVars
<1>2. CASE CommandsNext
  <2>1. ASSUME NEW p \in Procs,
               \/ Proceeds(p) \/ Stumbles(p) \/ LeavesOut(p) \/ Decline(p) \/ DiagnoseFails(p) \/ Die(p)
               \/ \E how \in Errors : Raise(p, how) \/ ShowFails(p, how)
        PROVE  [SchemaNext]_schemaVars
    <3>1. \/ UNCHANGED schemaVars
          \/ OpenStorage(p) \/ OpeningStep(p) \/ OpenFails(p) \/ CloseStorage(p) \/ DropStorage(p)
          \/ \E s \in GmailRows : RegisterSource(p, s) \/ ReferToSource(p, s)
      BY <2>1 DEF Proceeds, Stumbles, LeavesOut, Decline, DiagnoseFails, Die, Raise, ShowFails, Releases,
                  Invoke, Authenticates, HasLease, Opens, HasStore, Work, Return, Show, Diagnose
    <3>2. QED
      BY <3>1, GmailAreSources DEF SchemaNext
  <2>2. QED
    BY <1>2, <2>1 DEF CommandsNext
<1>3. QED
  BY <1>1, <1>2

(* A step of a command is a step of its authentication, or leaves it.      *)
LEMMA StepIsTokenStep ==
  ASSUME [CommandsNext]_commandVars
  PROVE  [TokenNext]_tokenVars
<1>1. CASE UNCHANGED commandVars
  BY <1>1 DEF commandVars
<1>2. CASE CommandsNext
  <2>1. ASSUME NEW p \in Procs,
               \/ Proceeds(p) \/ Stumbles(p) \/ LeavesOut(p) \/ Decline(p) \/ DiagnoseFails(p) \/ Die(p)
               \/ \E how \in Errors : Raise(p, how) \/ ShowFails(p, how)
        PROVE  [TokenNext]_tokenVars
    <3>1. UNCHANGED tokenVars \/ StartAuth(p) \/ AuthStep(p) \/ AuthFails(p) \/ DropAuth(p)
      BY <2>1 DEF Proceeds, Stumbles, LeavesOut, Decline, DiagnoseFails, Die, Raise, ShowFails, Releases,
                  Invoke, Authenticates, HasLease, Opens, HasStore, Work, Return, Show, Diagnose
    <3>2. QED
      BY <3>1, SameProcesses DEF TokenNext
  <2>2. QED
    BY <1>2, <2>1 DEF CommandsNext, TokenNext
<1>3. QED
  BY <1>1, <1>2

(* Every behaviour of the commands is one of Schema: no command touches    *)
(* the store but through Storage.                                          *)
THEOREM CommandsRunSchema == CommandsSpec => SchemaSpec
BY StepIsSchemaStep, PTL DEF CommandsSpec, CommandsInit, SchemaSpec

(* Every behaviour of the commands is one of Token: no command touches     *)
(* tokens but through authenticate.                                        *)
THEOREM CommandsRunToken == CommandsSpec => TokenSpec
BY StepIsTokenStep, PTL DEF CommandsSpec, CommandsInit, TokenSpec

(* So the store changes as StoreContract says under any invocations, and   *)
(* the rest of what is proved of opening and of access holds there.        *)
THEOREM CommandsKeepTheStore ==
  CommandsSpec => ImplementsStore /\ []OpenedIsCurrent /\ RefusedForCause
BY CommandsRunSchema, SchemaImplementsStore, OpenStoresAreCurrent, OpeningRefusesForCause, PTL

(* What Token promises holds of whole commands: only proven access reads   *)
(* mail, and the token file is never half written.                         *)
THEOREM CommandsKeepTheToken ==
  CommandsSpec => []LeaseIsProven /\ TokenFileStaysWhole
BY CommandsRunToken, LeasesAreProven, TokenFileIsWhole, PTL

------------------------------------------------------------------------------
(* What is known of an invocation.  Before its work nothing is returned;   *)
(* what is to be displayed is what the work returned, and "completed" only *)
(* if it left out no more than ordinary coverage; once something went      *)
(* wrong the disposition or the display tells.                             *)
Tells(c) ==
  /\ ~c.shown
  /\ \/ c.disposition \in Errors /\ c.returned \notin {"completed", "incomplete"}
     \/ /\ c.kind \in TellsApart /\ c.display \in Errors
        /\ c.returned \in {"completed", "incomplete"} /\ c.disposition = c.returned
     \/ c.disposition \in Errors /\ c.kind \notin TellsApart

Achieved(c) ==
  /\ c.returned \in {"completed", "incomplete"} /\ c.disposition = c.returned
  /\ c.display = "delivered"
  /\ c.returned = "completed" =>
       c.left \subseteq Ordinary /\ (c.kind \in Mutates => c.effect = "all")

CallInv(c) ==
  /\ c \in Invocation
  /\ c.at \in {"asked", "leasing", "opening", "working"} =>
       c.returned = "nothing" /\ c.display = "delivered" /\ ~c.shown
  /\ c.at \in {"showing", "stopping"} => Achieved(c) /\ ~c.shown
  /\ c.at = "diagnosing" => Tells(c)
  /\ c.at = "answered" => Tells(c) \/ (Achieved(c) /\ c.shown)

(* It holds the store only while it opens it and works, and is not         *)
(* authenticating then.                                                    *)
HoldsInv(p) ==
  /\ cmd[p].at \notin {"opening", "working"} => conn[p].at = "closed"
  /\ cmd[p].at # "leasing" => auth[p].at \in {"out", "service"}

CommandsInv ==
  /\ cmd \in [Procs -> Invocation]
  /\ \A p \in Procs : CallInv(cmd[p]) /\ HoldsInv(p)

Typed == conn \in [Procs -> Connection] /\ auth \in [Procs -> Session]

(* A step of one invocation leaves the others as they are.                 *)
LEMMA OthersKeep ==
  ASSUME CommandsInv, NEW p \in Procs, NEW c, cmd' = [cmd EXCEPT ![p] = c], CallInv(c), HoldsInv(p)',
         \A q \in Procs \ {p} : conn'[q] = conn[q] /\ auth'[q] = auth[q]
  PROVE  CommandsInv'
<1>1. c \in Invocation
  BY DEF CallInv
<1>2. cmd' \in [Procs -> Invocation] /\ cmd'[p] = c /\ \A q \in Procs \ {p} : cmd'[q] = cmd[q]
  BY <1>1 DEF CommandsInv
<1>3. \A x : CallInv(x)' <=> CallInv(x)
  BY DEF CallInv, Tells, Achieved
<1>4. ASSUME NEW q \in Procs PROVE (CallInv(cmd[q]) /\ HoldsInv(q))'
  <2>1. CASE q = p
    BY <1>2, <1>3, <2>1
  <2>2. CASE q # p
    BY <1>2, <1>3, <2>2 DEF CommandsInv, HoldsInv
  <2>3. QED
    BY <2>1, <2>2
<1>5. QED
  BY <1>2, <1>4 DEF CommandsInv

(* A step of one process leaves the connections of the others.             *)
LEMMA SchemaFrame ==
  ASSUME Typed, NEW p \in Procs, NEW q \in Procs \ {p},
         \/ UNCHANGED schemaVars
         \/ OpenStorage(p) \/ OpeningStep(p) \/ OpenFails(p) \/ CloseStorage(p) \/ DropStorage(p)
         \/ \E s \in GmailRows : RegisterSource(p, s) \/ ReferToSource(p, s)
  PROVE  conn'[q] = conn[q]
BY DEF Typed, schemaVars, OpenStorage, OpeningStep, OpenFails, CloseStorage, DropStorage,
       RegisterSource, ReferToSource, FindFolder, MakeFolder, ReadVersion, ReadTables, ReadTriggers,
       BeginImmediate, RunScript, Commit, Goes, Refuses, Fails, Moves

(* A step of one process leaves the sessions of the others.                *)
LEMMA TokenFrame ==
  ASSUME Typed, NEW p \in Procs, NEW q \in Procs \ {p},
         UNCHANGED tokenVars \/ StartAuth(p) \/ AuthStep(p) \/ AuthFails(p) \/ DropAuth(p)
  PROVE  auth'[q] = auth[q]
BY DEF Typed, tokenVars, StartAuth, AuthStep, AuthFails, DropAuth, LoadClient, ReadToken, WriteToken,
       ReplaceToken, SyncFolder, BuildService, Refresh, Authorize, Receives, AuthGoes, Leases, Denies

(* After Releases a process holds neither store nor client.                *)
LEMMA Released ==
  ASSUME Typed, NEW p \in Procs,
         IF OpenAt(p, "closed") THEN UNCHANGED schemaVars ELSE CloseStorage(p) \/ DropStorage(p),
         IF AuthAt(p, "out") THEN UNCHANGED tokenVars ELSE DropAuth(p)
  PROVE  conn'[p].at = "closed" /\ auth'[p].at = "out"
<1>1. conn'[p].at = "closed"
  <2>1. CASE OpenAt(p, "closed")
    BY <2>1 DEF OpenAt, schemaVars
  <2>2. CASE ~OpenAt(p, "closed")
    <3>1. Moves(p, Closed)
      BY <2>2 DEF CloseStorage, DropStorage
    <3>2. QED
      BY <3>1, ClosedIsConnection DEF Moves, Typed, Steps
  <2>3. QED
    BY <2>1, <2>2
<1>2. auth'[p].at = "out"
  BY DEF AuthAt, tokenVars, DropAuth, Leases, NoLease, Typed
<1>3. QED
  BY <1>1, <1>2

(* A step that changes the invocation of p alone.                          *)
LEMMA OnlyCall ==
  ASSUME CommandsInv, NEW p \in Procs, NEW c, cmd' = [cmd EXCEPT ![p] = c], CallInv(c),
         UNCHANGED <<schemaVars, tokenVars>>,
         cmd[p].at \notin {"opening", "working"} \/ c.at \in {"opening", "working"},
         cmd[p].at # "leasing"
  PROVE  CommandsInv'
<1>1. cmd'[p] = c
  BY DEF CommandsInv
<1>2. conn' = conn /\ auth' = auth
  BY DEF schemaVars, tokenVars
<1>3. HoldsInv(p)'
  BY <1>1, <1>2 DEF CommandsInv, HoldsInv
<1>4. QED
  BY <1>2, <1>3, OthersKeep

------------------------------------------------------------------------------
(* Taking access and the store.                                            *)
LEMMA TakesInv ==
  ASSUME CommandsInv, Typed, NEW p \in Procs,
         Invoke(p) \/ HasLease(p) \/ HasStore(p)
  PROVE  CommandsInv'
<1> DEFINE Early == {"leasing", "opening", "working"}
<1>1. PICK step \in Early : CmdGoes(p, step)
  BY DEF Invoke, HasLease, HasStore
<1>2. PICK c : c = [cmd[p] EXCEPT !.at = step]
  OBVIOUS
<1>3. cmd' = [cmd EXCEPT ![p] = c]
  BY <1>1, <1>2 DEF CmdGoes
<1>4. cmd[p] \in Invocation /\ CallInv(cmd[p]) /\ HoldsInv(p) /\ cmd[p].at \in Early \cup {"asked"}
  BY DEF CommandsInv, Invoke, HasLease, HasStore, CmdAt
<1>5. CallInv(c) /\ c.at = step
  BY <1>2, <1>4 DEF CallInv, Invocation
<1>6. cmd'[p] = c
  BY <1>3 DEF CommandsInv
<1>7. HoldsInv(p)'
  <2>1. CASE Invoke(p) /\ CmdGoes(p, "leasing") /\ StartAuth(p) /\ UNCHANGED schemaVars
    BY <1>4, <1>6, <2>1 DEF Invoke, CmdAt, HoldsInv, schemaVars, CmdGoes, CommandsInv, Invocation
  <2>2. CASE Invoke(p) /\ ~(CmdGoes(p, "leasing") /\ StartAuth(p) /\ UNCHANGED schemaVars)
    BY <1>4, <1>5, <1>6, <2>2 DEF Invoke, CmdAt, HoldsInv, tokenVars, schemaVars, CmdGoes, CommandsInv, Invocation
  <2>3. CASE HasLease(p)
    BY <1>4, <1>6, <2>3 DEF HasLease, CmdAt, AuthAt, HoldsInv, tokenVars, schemaVars, CmdGoes, CommandsInv, Invocation
  <2>4. CASE HasStore(p)
    BY <1>4, <1>6, <2>4 DEF HasStore, CmdAt, HoldsInv, tokenVars, schemaVars, CmdGoes, CommandsInv, Invocation
  <2>5. QED
    BY <2>1, <2>2, <2>3, <2>4
<1>8. \A q \in Procs \ {p} : conn'[q] = conn[q] /\ auth'[q] = auth[q]
  BY SchemaFrame, TokenFrame DEF Invoke, HasLease, HasStore
<1>9. QED
  BY <1>3, <1>5, <1>7, <1>8, OthersKeep

(* The work, and what ends it.                                             *)
LEMMA WorkInv ==
  ASSUME CommandsInv, Typed, NEW p \in Procs, Work(p) \/ LeavesOut(p)
  PROVE  CommandsInv'
<1>1. cmd[p] \in Invocation /\ CallInv(cmd[p]) /\ HoldsInv(p) /\ cmd[p].at = "working"
  BY DEF CommandsInv, Work, LeavesOut, CmdAt
<1>2. PICK effect \in {"none", "some", "all"}, left \in SUBSET (Ordinary \cup Unfinished) :
        cmd' = [cmd EXCEPT ![p] = [cmd[p] EXCEPT !.effect = effect, !.left = left]]
  <2>1. CASE Work(p) /\ UNCHANGED cmd
    <3>1. cmd[p] = [cmd[p] EXCEPT !.effect = cmd[p].effect, !.left = cmd[p].left]
      BY <1>1 DEF Invocation
    <3>2. cmd' = [cmd EXCEPT ![p] = cmd[p]]
      BY <2>1 DEF CommandsInv
    <3>3. cmd[p].effect \in {"none", "some", "all"} /\ cmd[p].left \in SUBSET (Ordinary \cup Unfinished)
      BY <1>1 DEF Invocation
    <3>4. QED
      BY <3>1, <3>2, <3>3
  <2>2. ASSUME NEW e \in {"some", "all"}, cmd' = [cmd EXCEPT ![p].effect = e]
        PROVE  cmd' = [cmd EXCEPT ![p] = [cmd[p] EXCEPT !.effect = e, !.left = cmd[p].left]]
               /\ cmd[p].left \in SUBSET (Ordinary \cup Unfinished)
    <3>1. [cmd[p] EXCEPT !.effect = e] = [cmd[p] EXCEPT !.effect = e, !.left = cmd[p].left]
      BY <1>1 DEF Invocation
    <3>2. QED
      BY <1>1, <2>2, <3>1 DEF Invocation
  <2>3. ASSUME NEW what \in MayLeaveOut(Kind(p)), cmd' = [cmd EXCEPT ![p].left = @ \cup {what}]
        PROVE  \E left \in SUBSET (Ordinary \cup Unfinished) :
                 cmd' = [cmd EXCEPT ![p] = [cmd[p] EXCEPT !.effect = cmd[p].effect, !.left = left]]
    <3>1. what \in Ordinary \cup Unfinished
      BY <1>1, <2>3 DEF MayLeaveOut, Kind, Ordinary, Unfinished, Invocation, Kinds
    <3>2. PICK left \in SUBSET (Ordinary \cup Unfinished) : left = cmd[p].left \cup {what}
      BY <1>1, <3>1 DEF Invocation
    <3>3. [cmd[p] EXCEPT !.left = left] = [cmd[p] EXCEPT !.effect = cmd[p].effect, !.left = left]
      BY <1>1 DEF Invocation
    <3>4. QED
      BY <2>3, <3>2, <3>3
  <2>4. CASE Work(p)
    BY <2>1, <2>2, <2>4 DEF Work
  <2>5. CASE LeavesOut(p)
    <3>1. cmd[p].effect \in {"none", "some", "all"}
      BY <1>1 DEF Invocation
    <3>2. QED
      BY <2>3, <2>5, <3>1 DEF LeavesOut
  <2>6. QED
    BY <2>4, <2>5
<1>3. PICK c : c = [cmd[p] EXCEPT !.effect = effect, !.left = left]
  OBVIOUS
<1>4. cmd' = [cmd EXCEPT ![p] = c]
  BY <1>2, <1>3
<1>5. CallInv(c) /\ c.at = "working"
  BY <1>1, <1>3 DEF CallInv, Invocation
<1>6. HoldsInv(p)'
  BY <1>1, <1>4, <1>5 DEF Work, LeavesOut, HoldsInv, schemaVars, tokenVars, CommandsInv
<1>7. \A q \in Procs \ {p} : conn'[q] = conn[q] /\ auth'[q] = auth[q]
  BY SchemaFrame, TokenFrame DEF Work, LeavesOut
<1>8. QED
  BY <1>4, <1>5, <1>6, <1>7, OthersKeep

(* A step that lets store and client go keeps the invariant:               *)
LEMMA EndInv ==
  ASSUME CommandsInv, Typed, NEW p \in Procs, NEW c, cmd' = [cmd EXCEPT ![p] = c], CallInv(c),
         IF OpenAt(p, "closed") THEN UNCHANGED schemaVars ELSE CloseStorage(p) \/ DropStorage(p),
         IF AuthAt(p, "out") THEN UNCHANGED tokenVars ELSE DropAuth(p)
  PROVE  CommandsInv'
<1>1. conn'[p].at = "closed" /\ auth'[p].at = "out"
  BY Released
<1>2. HoldsInv(p)'
  BY <1>1 DEF HoldsInv
<1>3. \A q \in Procs \ {p} : conn'[q] = conn[q] /\ auth'[q] = auth[q]
  BY SchemaFrame, TokenFrame
<1>4. QED
  BY <1>2, <1>3, OthersKeep

(* returning from the work,                                                *)
LEMMA ReturnInv ==
  ASSUME CommandsInv, Typed, NEW p \in Procs, Return(p)
  PROVE  CommandsInv'
<1>1. PICK r \in {"completed", "incomplete"} :
        /\ r = "completed" => cmd[p].left \cap Unfinished = {}
        /\ r = "completed" => cmd[p].effect = "all" \/ Kind(p) \notin Mutates
        /\ cmd' = [cmd EXCEPT ![p].at = "showing", ![p].returned = r, ![p].disposition = r]
  BY DEF Return, Ended, Finishable
<1>2. cmd[p] \in Invocation /\ CallInv(cmd[p]) /\ cmd[p].at = "working"
  BY DEF CommandsInv, Return, CmdAt
<1>3. PICK c : c = [cmd[p] EXCEPT !.at = "showing", !.returned = r, !.disposition = r]
  OBVIOUS
<1>4. cmd' = [cmd EXCEPT ![p] = c]
  BY <1>1, <1>2, <1>3 DEF CommandsInv
<1>5. CallInv(c)
  BY <1>1, <1>2, <1>3 DEF CallInv, Invocation, Achieved, Dispositions, Kind
<1>6. QED
  BY <1>4, <1>5, EndInv DEF Return, Releases

(* raising out of it,                                                      *)
LEMMA RaiseInv ==
  ASSUME CommandsInv, Typed, NEW p \in Procs, NEW how \in Errors, Raise(p, how)
  PROVE  CommandsInv'
<1>1. /\ cmd[p] \in Invocation /\ CallInv(cmd[p])
      /\ cmd[p].at \in {"asked", "leasing", "opening", "working"}
  BY DEF CommandsInv, Raise, Raises, CmdAt
<1>2. PICK r : r = IF CmdAt(p, "asked") THEN cmd[p].returned ELSE how
  OBVIOUS
<1>3. r \in Errors \cup {"nothing"}
  BY <1>1, <1>2 DEF CallInv, CmdAt
<1>4. PICK c : c = [cmd[p] EXCEPT !.at = "diagnosing", !.disposition = how, !.returned = r]
  OBVIOUS
<1>5. cmd' = [cmd EXCEPT ![p] = c]
  BY <1>1, <1>2, <1>4 DEF Raise, CommandsInv
<1>6. CallInv(c)
  BY <1>1, <1>3, <1>4 DEF CallInv, Invocation, Tells, Dispositions, Errors
<1>7. QED
  BY <1>5, <1>6, EndInv DEF Raise, Releases

(* and dying.                                                              *)
LEMMA DieInv ==
  ASSUME CommandsInv, Typed, NEW p \in Procs, Die(p)
  PROVE  CommandsInv'
<1>1. cmd[p] \in Invocation
  BY DEF CommandsInv
<1>2. PICK c : c = [cmd[p] EXCEPT !.at = "dead"]
  OBVIOUS
<1>3. cmd' = [cmd EXCEPT ![p] = c]
  BY <1>2 DEF Die, CmdGoes
<1>4. CallInv(c)
  BY <1>1, <1>2 DEF CallInv, Invocation
<1>5. QED
  BY <1>3, <1>4, EndInv DEF Die

(* Displays and diagnostics.                                               *)
LEMMA ShowInv ==
  ASSUME CommandsInv, NEW p \in Procs, Show(p) \/ Decline(p) \/ Diagnose(p)
  PROVE  CommandsInv'
<1>1. /\ cmd[p] \in Invocation /\ CallInv(cmd[p]) /\ UNCHANGED <<schemaVars, tokenVars>>
      /\ cmd[p].at \in {"showing", "stopping", "asked", "diagnosing"}
  BY DEF CommandsInv, Show, Decline, Diagnose, CmdAt
<1>2. CASE CmdGoes(p, "stopping") /\ Show(p) /\ CmdAt(p, "showing")
  <2>1. PICK c : c = [cmd[p] EXCEPT !.at = "stopping"]
    OBVIOUS
  <2>2. cmd' = [cmd EXCEPT ![p] = c]
    BY <1>2, <2>1 DEF CmdGoes
  <2>3. CallInv(c)
    BY <1>1, <1>2, <2>1 DEF CallInv, Invocation, CmdAt, Achieved
  <2>4. QED
    BY <1>1, <2>2, <2>3, OnlyCall
<1>3. CASE Show(p) /\ Answers(p, [cmd[p] EXCEPT !.shown = TRUE])
  <2>1. PICK on \in BOOLEAN : on = TRUE
    OBVIOUS
  <2>2. PICK c : c = [cmd[p] EXCEPT !.shown = on, !.at = "answered"]
    OBVIOUS
  <2>3. cmd' = [cmd EXCEPT ![p] = c]
    <3>1. c = [[cmd[p] EXCEPT !.shown = TRUE] EXCEPT !.at = "answered"]
      BY <1>1, <2>1, <2>2 DEF Invocation
    <3>2. QED
      BY <1>3, <3>1, Zenon DEF Answers
  <2>4. CallInv(c)
    <3>1. Achieved(cmd[p])
      BY <1>1, <1>3 DEF Show, CmdAt, CallInv
    <3>2. QED
      BY <1>1, <2>1, <2>2, <3>1 DEF CallInv, Invocation, Achieved
  <2>5. QED
    BY <1>1, <2>3, <2>4, OnlyCall
<1>4. CASE Decline(p)
  <2>1. PICK how \in Errors : Answers(p, [cmd[p] EXCEPT !.disposition = how])
    BY <1>4 DEF Decline
  <2>2. PICK c : c = [cmd[p] EXCEPT !.disposition = how, !.at = "answered"]
    OBVIOUS
  <2>3. cmd' = [cmd EXCEPT ![p] = c]
    BY <1>1, <2>1, <2>2 DEF Answers, Invocation
  <2>4. CallInv(c)
    BY <1>1, <1>4, <2>1, <2>2 DEF Decline, CmdAt, CallInv, Invocation, Tells, Dispositions, Errors
  <2>5. QED
    BY <1>1, <2>3, <2>4, OnlyCall
<1>5. CASE Diagnose(p)
  <2>1. PICK c : c = [cmd[p] EXCEPT !.at = "answered"]
    OBVIOUS
  <2>2. cmd' = [cmd EXCEPT ![p] = c]
    BY <1>5, <2>1 DEF Diagnose, Answers
  <2>3. CallInv(c)
    BY <1>1, <1>5, <2>1 DEF Diagnose, CmdAt, CallInv, Invocation, Tells
  <2>4. QED
    BY <1>1, <2>2, <2>3, OnlyCall
<1>6. QED
  BY <1>2, <1>3, <1>4, <1>5 DEF Show

(* A delivery that fails never takes back what is told.                    *)
LEMMA AfterFailedShowTells ==
  ASSUME NEW c \in Invocation, NEW how \in Errors, (Achieved(c) /\ ~c.shown) \/ Tells(c)
  PROVE  AfterFailedShow(c, how) \in Invocation /\ Tells(AfterFailedShow(c, how))
<1>1. CASE c.kind \in TellsApart /\ ~(c.kind = "save" /\ c.returned = "nothing")
  <2>1. PICK d \in Errors : d = IF c.kind = "learn" THEN how ELSE "failed"
    BY DEF Errors
  <2>2. PICK a : a = [c EXCEPT !.display = d]
    OBVIOUS
  <2>3. AfterFailedShow(c, how) = a
    BY <1>1, <2>1, <2>2 DEF AfterFailedShow
  <2>4. a \in Invocation /\ Tells(a)
    BY <1>1, <2>2 DEF Invocation, Tells, Achieved, Errors, Dispositions
  <2>5. QED
    BY <2>3, <2>4
<1>2. CASE ~(c.kind \in TellsApart /\ ~(c.kind = "save" /\ c.returned = "nothing"))
  <2>1. PICK a : a = [c EXCEPT !.disposition = how]
    OBVIOUS
  <2>2. AfterFailedShow(c, how) = a
    BY <1>2, <2>1 DEF AfterFailedShow
  <2>3. a \in Invocation /\ Tells(a)
    BY <1>2, <2>1 DEF Invocation, Tells, Achieved, Errors, Dispositions
  <2>4. QED
    BY <2>2, <2>3
<1>3. QED
  BY <1>1, <1>2

(* The invariant survives a display that fails.                            *)
LEMMA FailedShowInv ==
  ASSUME CommandsInv, NEW p \in Procs, NEW how \in Errors, ShowFails(p, how) \/ DiagnoseFails(p)
  PROVE  CommandsInv'
<1>1. /\ cmd[p] \in Invocation /\ CallInv(cmd[p]) /\ UNCHANGED <<schemaVars, tokenVars>>
      /\ cmd[p].at \in {"showing", "stopping", "diagnosing"}
  BY DEF CommandsInv, ShowFails, DiagnoseFails, CmdAt
<1>2. PICK h \in Errors, at \in {"answered", "diagnosing"} :
        cmd' = [cmd EXCEPT ![p] = [AfterFailedShow(cmd[p], h) EXCEPT !.at = at]]
  <2>1. "failed" \in Errors
    BY DEF Errors
  <2>2. QED
    BY <2>1 DEF ShowFails, DiagnoseFails, Answers
<1>3. PICK b : b = AfterFailedShow(cmd[p], h)
  OBVIOUS
<1>4. b \in Invocation /\ Tells(b)
  BY <1>1, <1>3, AfterFailedShowTells DEF CallInv
<1>5. PICK c : c = [b EXCEPT !.at = at]
  OBVIOUS
<1>6. cmd' = [cmd EXCEPT ![p] = c]
  BY <1>2, <1>3, <1>5
<1>7. CallInv(c)
  BY <1>4, <1>5 DEF CallInv, Invocation, Tells
<1>8. QED
  BY <1>1, <1>6, <1>7, OnlyCall

(* The steps taken on behalf of an invocation leave it as it is.           *)
LEMMA BehalfInv ==
  ASSUME CommandsInv, Typed, NEW p \in Procs, Authenticates(p) \/ Opens(p) \/ Stumbles(p)
  PROVE  CommandsInv'
<1>1. cmd' = [cmd EXCEPT ![p] = cmd[p]] /\ CallInv(cmd[p]) /\ HoldsInv(p) /\ cmd' = cmd
  BY DEF CommandsInv, Authenticates, Opens, Stumbles
<1>2. HoldsInv(p)'
  BY <1>1 DEF Authenticates, Opens, Stumbles, CmdAt, HoldsInv, schemaVars, tokenVars
<1>3. \A q \in Procs \ {p} : conn'[q] = conn[q] /\ auth'[q] = auth[q]
  BY SchemaFrame, TokenFrame DEF Authenticates, Opens, Stumbles
<1>4. QED
  BY <1>1, <1>2, <1>3, OthersKeep

------------------------------------------------------------------------------
(* Every step of the commands keeps the invariant.                         *)
LEMMA CommandsStep ==
  ASSUME CommandsInv, Typed, [CommandsNext]_commandVars
  PROVE  CommandsInv'
<1>1. CASE UNCHANGED commandVars
  BY <1>1 DEF commandVars, schemaVars, tokenVars, CommandsInv, CallInv, HoldsInv, Tells, Achieved
<1>2. ASSUME NEW g \in Grants, Expire(g) /\ UNCHANGED <<cmd, schemaVars>>
      PROVE  CommandsInv'
  BY <1>2 DEF Expire, schemaVars, CommandsInv, CallInv, HoldsInv, Tells, Achieved
<1>3. ASSUME NEW p \in Procs, \E how \in Errors : Raise(p, how) \/ ShowFails(p, how)
      PROVE  CommandsInv'
  BY <1>3, RaiseInv, FailedShowInv
<1>4. ASSUME NEW p \in Procs,
             Proceeds(p) \/ Stumbles(p) \/ LeavesOut(p) \/ Decline(p) \/ DiagnoseFails(p) \/ Die(p)
      PROVE  CommandsInv'
  <2>1. "rejected" \in Errors
    BY DEF Errors
  <2>2. QED
    BY <1>4, <2>1, TakesInv, BehalfInv, WorkInv, ReturnInv, RaiseInv, ShowInv, FailedShowInv, DieInv
       DEF Proceeds
<1>5. QED
  BY <1>1, <1>2, <1>3, <1>4 DEF CommandsNext

(* It holds before any command starts.                                     *)
LEMMA CommandsInitInv == CommandsInit => CommandsInv
<1> SUFFICES ASSUME CommandsInit PROVE CommandsInv
  OBVIOUS
<1>1. PICK off \in BOOLEAN : off = FALSE
  OBVIOUS
<1>2. ASSUME NEW kind \in Kinds
      PROVE  Asked(kind) \in Invocation /\ CallInv(Asked(kind)) /\ Asked(kind).at = "asked"
  <2>1. PICK c : c = [kind |-> kind, at |-> "asked", effect |-> "none", left |-> {},
                      returned |-> "nothing", disposition |-> "failed", display |-> "delivered", shown |-> off]
    OBVIOUS
  <2>2. c = Asked(kind)
    BY <1>1, <2>1, Zenon DEF Asked
  <2>3. c \in Invocation /\ c.at = "asked" /\ c.returned = "nothing" /\ c.display = "delivered"
        /\ c.shown = off
    BY <2>1 DEF Invocation, Dispositions, Errors
  <2>4. CallInv(c)
    BY <1>1, <2>3 DEF CallInv
  <2>5. QED
    BY <2>2, <2>3, <2>4
<1>3. cmd \in [Procs -> Invocation] /\ \A p \in Procs : CallInv(cmd[p]) /\ cmd[p].at = "asked"
  BY <1>2 DEF CommandsInit
<1>4. \A p \in Procs : conn[p].at = "closed" /\ auth[p].at = "out"
  BY ClosedIsConnection, SameProcesses DEF CommandsInit, SchemaInit, TokenInit, NoLease, Steps
<1>5. QED
  BY <1>3, <1>4 DEF CommandsInv, HoldsInv

(* A result tells what the work returned or that something went wrong, and *)
(* the store is held only while it is opened and worked on.                *)
THEOREM CommandsInvariant == CommandsSpec => []CommandsInv
<1>1. SchemaInv /\ TokenInv => Typed
  BY SameProcesses DEF SchemaInv, TokenInv, Typed
<1>2. CommandsInv /\ Typed /\ [CommandsNext]_commandVars => CommandsInv'
  BY CommandsStep
<1>3. QED
  BY <1>1, <1>2, CommandsInitInv, CommandsRunSchema, CommandsRunToken, SchemaInvariant,
     TokenInvariant, PTL DEF CommandsSpec

(* Exit status 0 only for work that ran to its end and was displayed, with *)
(* no more left out than ordinary coverage.                                *)
THEOREM ZeroExitsAreDone == CommandsSpec => []ExitZeroMeansDone
<1>1. CommandsInv => ExitZeroMeansDone
  <2> SUFFICES ASSUME CommandsInv, NEW p \in Procs, CmdAt(p, "answered"), ExitCode(cmd[p]) = 0
               PROVE  /\ cmd[p].shown
                      /\ Kind(p) \in Mutates => cmd[p].effect = "all"
                      /\ cmd[p].left \subseteq Ordinary
                      /\ cmd[p].left # {} => CoverageShown(cmd[p]) # "complete"
    BY DEF ExitZeroMeansDone
  <2>1. CallInv(cmd[p]) /\ cmd[p].at = "answered" /\ cmd[p] \in Invocation
    BY DEF CommandsInv, CmdAt
  <2>2. ~Tells(cmd[p])
    <3> SUFFICES ASSUME Tells(cmd[p]) PROVE FALSE
      OBVIOUS
    <3>1. QED
      BY <2>1 DEF Tells, ExitCode, Errors, TellsApart, Invocation, Dispositions
  <2>3. Achieved(cmd[p]) /\ cmd[p].shown
    BY <2>1, <2>2 DEF CallInv
  <2>4. cmd[p].returned = "completed"
    BY <2>3 DEF Achieved, ExitCode, Errors
  <2>5. cmd[p].left \subseteq Ordinary /\ (Kind(p) \in Mutates => cmd[p].effect = "all")
    BY <2>3, <2>4 DEF Achieved, Kind
  <2>6. cmd[p].left # {} => CoverageShown(cmd[p]) # "complete"
    BY <2>5 DEF Ordinary, CoverageShown
  <2>7. QED
    BY <2>3, <2>5, <2>6
<1>2. QED
  BY <1>1, CommandsInvariant, PTL

(* The outcome of a mutation survives what its display does.               *)
THEOREM OutcomesOutliveDisplays == CommandsSpec => []OutcomeOutlivesDisplay
<1>1. CommandsInv => OutcomeOutlivesDisplay
  BY DEF CommandsInv, OutcomeOutlivesDisplay, CallInv, CmdAt, Kind, Tells, Achieved, Mutates, TellsApart, Errors
<1>2. QED
  BY <1>1, CommandsInvariant, PTL

(* Nobody waits for a human with the store open.                           *)
THEOREM WaitingHoldsNoStore == CommandsSpec => []WaitingHoldsNothing
<1>1. CommandsInv => WaitingHoldsNothing
  BY SameProcesses DEF CommandsInv, WaitingHoldsNothing, HoldsInv, AuthAt, OpenAt
<1>2. QED
  BY <1>1, CommandsInvariant, PTL

==============================================================================
