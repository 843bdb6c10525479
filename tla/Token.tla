-------------------------------- MODULE Token ---------------------------------
(***************************************************************************)
(* authenticate and build_gmail_service: from the token file to a Gmail    *)
(* client (auth.py).  A token is used as it is, refreshed, or obtained by  *)
(* consent; one that is new is in the token file before it is used.        *)
(* Several processes do so at once without a lock, each may fail or die at *)
(* any step, and access expires between any two.                           *)
(*                                                                         *)
(* Google's answers are nondeterministic.  A token is told apart by the    *)
(* access it grants, by its scopes being exactly the one DAM asks for or   *)
(* not, and by whether it can be refreshed.  Paths, modes and the contents *)
(* of the client file are left out: what is wrong with them is among the   *)
(* errors (AuthFails).  A temporary file left behind is never read.        *)
(***************************************************************************)
CONSTANTS
  Clients,     \* processes
  Grants,      \* access tokens Google may issue (bound)
  NoToken,     \* no token file; no credential in memory
  Garbled      \* a token file that is no JSON object

VARIABLES
  file,    \* what token.json holds
  grants,  \* whether Google issued a grant, and whether it expired
  stored,  \* history: grants that have been in the token file
  auth     \* each process's authenticate

tokenVars == <<file, grants, stored, auth>>

Credentials == [grant : Grants, exact : BOOLEAN, renewable : BOOLEAN]
TokenFiles  == Credentials \cup {NoToken, Garbled}

ASSUME TokenAssumption == NoToken \notin Credentials /\ Garbled \notin Credentials \cup {NoToken}

Sources     == {"existing", "refreshed", "new_authorization"}

AuthSteps   == {"out", "client", "token", "consent", "refresh", "write", "replace", "sync",
                "ready", "service", "denied"}

(* `held`: the credential in memory.                                       *)
Session == [at : AuthSteps, held : Credentials \cup {NoToken}, source : Sources]
NoLease == [at |-> "out", held |-> NoToken, source |-> "existing"]

AuthAt(p, step)   == auth[p].at = step
AuthGoes(p, step) == auth' = [auth EXCEPT ![p].at = step]
Leases(p, l)      == auth' = [auth EXCEPT ![p] = l]
Denies(p)         == Leases(p, [NoLease EXCEPT !.at = "denied"])

Live(c) == grants[c.grant] = "live"

------------------------------------------------------------------------------
StartAuth(p) ==
  /\ AuthAt(p, "out")
  /\ AuthGoes(p, "client")
  /\ UNCHANGED <<file, grants, stored>>

LoadClient(p) ==
  /\ AuthAt(p, "client")
  /\ AuthGoes(p, "token")
  /\ UNCHANGED <<file, grants, stored>>

(* A missing token asks for consent; one that is unreadable, has other     *)
(* scopes, or expired and cannot be refreshed, does not.                   *)
Refreshable(c) == c.exact /\ ~Live(c) /\ c.renewable

ReadToken(p) ==
  /\ AuthAt(p, "token")
  /\ \/ file = NoToken /\ AuthGoes(p, "consent")
     \/ file \in Credentials /\ file.exact /\ Live(file)
        /\ Leases(p, [at |-> "ready", held |-> file, source |-> "existing"])
     \/ file \in Credentials /\ Refreshable(file)
        /\ Leases(p, [at |-> "refresh", held |-> file, source |-> "refreshed"])
     \/ file = Garbled /\ Denies(p)
     \/ /\ file \in Credentials /\ ~(file.exact /\ Live(file)) /\ ~Refreshable(file)
        /\ Denies(p)
  /\ UNCHANGED <<file, grants, stored>>

(* Google grants access; scopes other than the exact one are refused       *)
(* before anything is stored.                                              *)
Receives(p, c, source) ==
  /\ grants[c.grant] = "unissued"
  /\ grants' = [grants EXCEPT ![c.grant] = "live"]
  /\ IF c.exact THEN Leases(p, [at |-> "write", held |-> c, source |-> source]) ELSE Denies(p)
  /\ UNCHANGED <<file, stored>>

Refresh(p, c) ==
  /\ AuthAt(p, "refresh")
  /\ c.renewable
  /\ Receives(p, c, "refreshed")

Authorize(p, c) ==
  /\ AuthAt(p, "consent")
  /\ Receives(p, c, "new_authorization")

(* _persist_token: a temporary file is written and synced, then it         *)
(* replaces the token file, then the directory is synced.                  *)
WriteTokenFaultInPlace(p) ==
  /\ AuthAt(p, "write")
  /\ AuthGoes(p, "replace")
  /\ file' = Garbled
  /\ UNCHANGED <<grants, stored>>
WriteTokenFaultBestEffort(p) ==
  /\ AuthAt(p, "write")
  /\ AuthGoes(p, "replace") \/ AuthGoes(p, "ready")
  /\ UNCHANGED <<file, grants, stored>>

WriteToken(p) ==
  /\ AuthAt(p, "write")
  /\ AuthGoes(p, "replace")
  /\ UNCHANGED <<file, grants, stored>>

ReplaceToken(p) ==
  /\ AuthAt(p, "replace")
  /\ file' = auth[p].held
  /\ stored' = stored \cup {auth[p].held.grant}
  /\ AuthGoes(p, "sync")
  /\ UNCHANGED grants

SyncFolder(p) ==
  /\ AuthAt(p, "sync")
  /\ AuthGoes(p, "ready")
  /\ UNCHANGED <<file, grants, stored>>

(* build_gmail_service validates the credential again.                     *)
BuildService(p) ==
  /\ AuthAt(p, "ready")
  /\ IF Live(auth[p].held) THEN AuthGoes(p, "service") ELSE Denies(p)
  /\ UNCHANGED <<file, grants, stored>>

(* Any AuthError: the temporary file is unlinked; a token that replaced    *)
(* the old one before the directory failed to sync stays.                  *)
AuthFails(p) ==
  /\ auth[p].at \notin {"out", "service", "denied"}
  /\ Denies(p)
  /\ UNCHANGED <<file, grants, stored>>

(* The command ends, or its process dies.                                  *)
DropAuth(p) ==
  /\ ~AuthAt(p, "out")
  /\ Leases(p, NoLease)
  /\ UNCHANGED <<file, grants, stored>>

Expire(g) ==
  /\ grants[g] = "live"
  /\ grants' = [grants EXCEPT ![g] = "expired"]
  /\ UNCHANGED <<file, stored, auth>>

------------------------------------------------------------------------------
(* Any token file may be found, with access that expired or not.           *)
TokenInit ==
  /\ file \in TokenFiles
  /\ stored = {g \in Grants : file \in Credentials /\ file.grant = g}
  /\ grants \in [Grants -> {"unissued", "live", "expired"}]
  /\ \A g \in Grants : grants[g] # "unissued" <=> g \in stored
  /\ auth = [p \in Clients |-> NoLease]

AuthStep(p) ==
  \/ LoadClient(p) \/ ReadToken(p) \/ WriteToken(p) \/ ReplaceToken(p) \/ SyncFolder(p)
  \/ BuildService(p) \/ \E c \in Credentials : Refresh(p, c) \/ Authorize(p, c)

TokenNext ==
  \/ \E p \in Clients : StartAuth(p) \/ AuthStep(p) \/ AuthFails(p) \/ DropAuth(p)
  \/ \E g \in Grants : Expire(g)

TokenSpec == TokenInit /\ [][TokenNext]_tokenVars

------------------------------------------------------------------------------
(* Whoever may read mail holds access with exactly the one scope, and it   *)
(* is or was in the token file: access DAM obtained is never used before   *)
(* it is stored, whatever failed while it was being stored.                *)
LeaseIsProven ==
  \A p \in Clients : auth[p].at \in {"ready", "service"} =>
    /\ auth[p].held \in Credentials /\ auth[p].held.exact
    /\ auth[p].held.grant \in stored

(* The token file never holds half a token or one with other scopes, and a *)
(* file DAM did not understand is left as it was: processes that obtain    *)
(* tokens at once only replace one whole token by another.                 *)
TokenFileStaysWhole ==
  [][file' # file =>
       /\ file # Garbled /\ (file \in Credentials => file.exact)
       /\ file' \in Credentials /\ file'.exact]_file
==============================================================================
