---------------------------- MODULE Repositories ----------------------------
(***************************************************************************)
(* A project, its repositories and their environment variables: requests   *)
(* that take one SQL statement per repository and may fail between two of   *)
(* them, variables that are encrypted on the way in and decrypted on the    *)
(* way out, and the .env files a launch writes from the list it read.       *)
(*                                                                         *)
(* A value is a text and the form it has: plain, or encrypted.  Whether a   *)
(* variable is secret does not change, and no plain text looks encrypted.   *)
(***************************************************************************)
EXTENDS Naturals, FiniteSets, Sequences, SequencesExt

CONSTANTS
    Repos,              \* repositories of the project, present or to come
    EnvKeys,            \* environment variables
    SecretKeys,         \* those with isSecret
    EnvTexts,           \* texts a client gives a variable
    MaxRepoRequests     \* bound: requests made

ASSUME RepositoriesConstants ==
    /\ IsFiniteSet(Repos) /\ SecretKeys \subseteq EnvKeys
    /\ MaxRepoRequests \in Nat

Unset == [form |-> "unset", text |-> "none"]
Forms == {"unset", "plain", "encrypted"}
Plain(text) == [form |-> "plain", text |-> text]
EnvLists == [EnvKeys -> [form : Forms, text : EnvTexts \cup {"none"}]]
NoVariables == [k \in EnvKeys |-> Unset]

VARIABLES
    project,        \* the project's row: none, active or deleted
    repoRow,        \* Repos -> absent, active or inactive
    envColumn,      \* Repos -> the variables as they are stored
    envFile,        \* Repos -> the variables in the workspace's .env
    repoRequests,   \* requests that are between two of their statements
    repoRequested,  \* requests so far
    given,          \* Repos -> the variables the client gave last (history)
    fileGiven,      \* Repos -> what they were when the .env's launch read (history)
    late            \* repositories activated since the first deletion read its list (history)

repoVars == <<project, repoRow, envColumn, envFile, repoRequests, repoRequested,
              given, fileGiven, late>>

RepoRequests == [kind : {"create", "delete", "launch"}, rest : Seq(Repos), all : SUBSET Repos,
                 read : [Repos -> EnvLists], wanted : [Repos -> EnvLists],
                 id : 0..MaxRepoRequests]

RepositoriesTypeOK ==
    /\ project \in {"none", "active", "deleted"}
    /\ repoRow \in [Repos -> {"absent", "active", "inactive"}]
    /\ {envColumn, envFile, given, fileGiven} \subseteq [Repos -> EnvLists]
    /\ repoRequested \in 0..MaxRepoRequests
    /\ repoRequests \subseteq RepoRequests
    /\ late \subseteq Repos

-----------------------------------------------------------------------------
(* CryptoService and EnvService. *)

(* Mutant of Encrypt: what is already encrypted is encrypted again. *)
Bug_EncryptsTwice(value) ==
    IF value.form = "encrypted" THEN [value EXCEPT !.text = "none"]
    ELSE IF value.form = "plain" THEN [value EXCEPT !.form = "encrypted"] ELSE value

(* CryptoService.encrypt: nothing, and what is already encrypted, stays. *)
Encrypt(value) == IF value.form = "plain" THEN [value EXCEPT !.form = "encrypted"] ELSE value

(* CryptoService.decrypt: what is not encrypted is returned as it is. *)
Decrypt(value) == IF value.form = "encrypted" THEN Plain(value.text) ELSE value

PrepareForStorage(list) ==
    [k \in EnvKeys |-> IF k \in SecretKeys THEN Encrypt(list[k]) ELSE list[k]]

(* getDecryptedEnvVariables *)
Decrypted(list) ==
    [k \in EnvKeys |-> IF k \in SecretKeys THEN Decrypt(list[k]) ELSE list[k]]

(* generateEnvFileContent *)
EnvFileContent(list) == Decrypted(list)

-----------------------------------------------------------------------------
(* Creating and deleting. *)

Replaced(old, new) == repoRequests' = (repoRequests \ {old}) \cup new

Asked(kind, rest) ==
    /\ repoRequested < MaxRepoRequests
    /\ repoRequested' = repoRequested + 1
    /\ repoRequests' = repoRequests \cup
          {[kind |-> kind, rest |-> rest, all |-> ToSet(rest), read |-> envColumn,
            wanted |-> given, id |-> repoRequested]}

(* One request of a single statement. *)
AskedOnce ==
    /\ repoRequested < MaxRepoRequests
    /\ repoRequested' = repoRequested + 1
    /\ UNCHANGED repoRequests

Inserted(x) ==
    /\ repoRow[x] = "absent"
    /\ repoRow' = [repoRow EXCEPT ![x] = "active"]
    /\ late' = late \cup {x}

(* POST /projects: the project's row is inserted. *)
CreateProject(list) ==
    /\ project = "none" /\ project' = "active"
    /\ Asked("create", list)
    /\ UNCHANGED <<repoRow, envColumn, envFile, given, fileGiven, late>>

(* ... then its repositories, one after the other ... *)
CreateNextRepository(r) ==
    /\ r.kind = "create" /\ r.rest # <<>>
    /\ Inserted(Head(r.rest))
    /\ Replaced(r, {[r EXCEPT !.rest = Tail(@)]})
    /\ UNCHANGED <<project, envColumn, envFile, repoRequested, given, fileGiven>>

(* ... and the request is answered with all of them. *)
CreateAnswered(r) ==
    /\ r.kind = "create" /\ r.rest = <<>>
    /\ Replaced(r, {})
    /\ UNCHANGED <<project, repoRow, envColumn, envFile, repoRequested, given, fileGiven, late>>

(* A statement throws: 500, and what was written stays. *)
StatementFails(r) ==
    /\ Replaced(r, {})
    /\ UNCHANGED <<project, repoRow, envColumn, envFile, repoRequested, given, fileGiven, late>>

(* POST /repositories/project/:id; findById does not ask for is_active. *)
AddRepository(x) ==
    /\ project # "none" /\ \A r \in repoRequests : r.kind = "create" => x \notin r.all
    /\ Inserted(x) /\ AskedOnce
    /\ UNCHANGED <<project, envColumn, envFile, given, fileGiven>>

(* DELETE /repositories/:id *)
DeleteRepository(x) ==
    /\ repoRow[x] # "absent"
    /\ repoRow' = [repoRow EXCEPT ![x] = "inactive"]
    /\ AskedOnce
    /\ UNCHANGED <<project, envColumn, envFile, given, fileGiven, late>>

ActiveRepos == SetToSeq({x \in Repos : repoRow[x] = "active"})

(* DELETE /projects/:id reads the active repositories ... *)
DeleteProject ==
    /\ project # "none" /\ ~ \E r \in repoRequests : r.kind = "delete"
    /\ Asked("delete", ActiveRepos)
    /\ late' = IF project = "active" THEN {} ELSE late
    /\ UNCHANGED <<project, repoRow, envColumn, envFile, given, fileGiven>>

(* ... deactivates each ... *)
DeleteNextRepository(r) ==
    /\ r.kind = "delete" /\ r.rest # <<>>
    /\ repoRow' = [repoRow EXCEPT ![Head(r.rest)] = "inactive"]
    /\ Replaced(r, {[r EXCEPT !.rest = Tail(@)]})
    /\ UNCHANGED <<project, envColumn, envFile, repoRequested, given, fileGiven, late>>

(* ... and the project last. *)
DeleteAnswered(r) ==
    /\ r.kind = "delete" /\ r.rest = <<>>
    /\ project' = "deleted"
    /\ Replaced(r, {})
    /\ UNCHANGED <<repoRow, envColumn, envFile, repoRequested, given, fileGiven, late>>

-----------------------------------------------------------------------------
(* The environment variables. *)

(* A client sends texts of its own, or values as GET /:id shows them raw. *)
Sendable(x, k) == {Unset, envColumn[x][k]} \cup {Plain(text) : text \in EnvTexts}
SentLists(x) == {list \in EnvLists : \A k \in EnvKeys : list[k] \in Sendable(x, k)}

Stored(x, list) ==
    /\ repoRow[x] # "absent"
    /\ envColumn' = [envColumn EXCEPT ![x] = list]
    /\ AskedOnce
    /\ UNCHANGED <<project, envFile, fileGiven>>

(* What the client means by the values it sends. *)
Meant(list) == [k \in EnvKeys |-> IF list[k].form = "encrypted" THEN Plain(list[k].text) ELSE list[k]]

(* PUT /repositories/:id/env *)
PutEnv(x, list) ==
    /\ Stored(x, PrepareForStorage(list))
    /\ given' = [given EXCEPT ![x] = Meant(list)]
    /\ UNCHANGED <<repoRow, late>>

(* DELETE /repositories/:id/env *)
ClearEnv(x) ==
    /\ Stored(x, NoVariables)
    /\ given' = [given EXCEPT ![x] = NoVariables]
    /\ UNCHANGED <<repoRow, late>>

(* PUT /repositories/:id: the columns that are sent, variables as they are. *)
UpdateRepository(x, list, row) ==
    /\ Stored(x, list)
    /\ given' = [given EXCEPT ![x] = Meant(list)]
    /\ repoRow' = [repoRow EXCEPT ![x] = row]
    /\ late' = IF row # repoRow[x] /\ row = "active" THEN late \cup {x} ELSE late

(* POST /tasks/:id/start reads the active repositories with their variables ... *)
LaunchReads ==
    /\ project # "none" /\ ~ \E r \in repoRequests : r.kind = "launch"
    /\ Asked("launch", ActiveRepos)
    /\ UNCHANGED <<project, repoRow, envColumn, envFile, given, fileGiven, late>>

(* ... and, once each is cloned, writes its .env, unless it has no variables. *)
LaunchWritesEnv(r) ==
    /\ r.kind = "launch" /\ r.rest # <<>>
    /\ LET x == Head(r.rest)
       IN IF r.read[x] = NoVariables THEN UNCHANGED <<envFile, fileGiven>>
          ELSE /\ envFile' = [envFile EXCEPT ![x] = EnvFileContent(r.read[x])]
               /\ fileGiven' = [fileGiven EXCEPT ![x] = r.wanted[x]]
    /\ Replaced(r, IF Tail(r.rest) = <<>> THEN {} ELSE {[r EXCEPT !.rest = Tail(@)]})
    /\ UNCHANGED <<project, repoRow, envColumn, repoRequested, given, late>>

-----------------------------------------------------------------------------
RepositoriesInit ==
    /\ project = "none"
    /\ repoRow = [x \in Repos |-> "absent"]
    /\ envColumn = [x \in Repos |-> NoVariables] /\ envFile = envColumn
    /\ repoRequests = {} /\ repoRequested = 0
    /\ given = envColumn /\ fileGiven = envColumn
    /\ late = {}

RepositoriesNext ==
    \/ \E xs \in SUBSET Repos : CreateProject(SetToSeq(xs))
    \/ \E r \in repoRequests :
          \/ CreateNextRepository(r) \/ CreateAnswered(r) \/ StatementFails(r)
          \/ DeleteNextRepository(r) \/ DeleteAnswered(r) \/ LaunchWritesEnv(r)
    \/ \E x \in Repos :
          \/ AddRepository(x) \/ DeleteRepository(x) \/ ClearEnv(x)
          \/ \E list \in SentLists(x) :
                \/ PutEnv(x, list)
                \/ \E row \in {"active", "inactive"} : UpdateRepository(x, list, row)
    \/ DeleteProject \/ LaunchReads

RepositoriesSpec == RepositoriesInit /\ [][RepositoriesNext]_repoVars

-----------------------------------------------------------------------------
(* GET /:id/env shows the texts the client gave last, whichever of the two
   PUT routes took them and however often they were sent back encrypted. *)
EnvRoundTrip == \A x \in Repos : Decrypted(envColumn[x]) = given[x]

(* The .env of a workspace holds, in plain text, what the client had given
   when the launch read its repositories. *)
EnvFileIsGiven == \A x \in Repos : envFile[x] = fileGiven[x]

(* A deleted project has no active repository but those activated after the
   deletion read its list, wherever a deletion stopped and was sent again. *)
NothingLeftActive ==
    project = "deleted" => \A x \in Repos : repoRow[x] = "active" => x \in late

(* Why: only secrets are encrypted in what is stored or was read of it, a
   launch writes what was given when it read ... *)
OnlySecretsEncrypted(list) == \A k \in EnvKeys \ SecretKeys : list[k].form # "encrypted"

ReadIsGiven ==
    /\ \A x \in Repos : OnlySecretsEncrypted(envColumn[x])
    /\ \A r \in repoRequests : \A x \in Repos : Decrypted(r.read[x]) = r.wanted[x]

(* ... and a deletion has ahead of it all that was active when it read. *)
DeletionReachesAll ==
    /\ \A r \in repoRequests : r.kind = "delete" =>
          \A x \in Repos : repoRow[x] = "active" => x \in late \cup ToSet(r.rest)
    /\ \A r, q \in repoRequests : r.kind = "delete" /\ q.kind = "delete" => r = q

(* Rows and files are what the clients asked for. *)
RepositoriesInv ==
    /\ RepositoriesTypeOK
    /\ EnvRoundTrip /\ EnvFileIsGiven /\ NothingLeftActive
    /\ ReadIsGiven /\ DeletionReachesAll
=============================================================================
