------------------------------- MODULE DrynnCLI -------------------------------
(***************************************************************************)
(* Runs of cmd/drynn by one user, who may have several terminals, against   *)
(* the games API of the servers there are, and runs of cmd/db init-config.  *)
(* A run reads the session once, finds out which server is meant            *)
(* (resolveServerURL in session.go), and sends it one request.              *)
(*                                                                          *)
(* A server (internal/handler/api.go, api_games.go) answers a request in    *)
(* as many steps as it makes statements, and a run that waits too long for  *)
(* the answer gives up while the server goes on.  What authorisation looks  *)
(* at is in Session; here a token is good at the server that issued it, and *)
(* may be refused there as well.                                            *)
(*                                                                          *)
(* Games have their id only.  health, version and the commands that         *)
(* generate worlds change nothing here.                                     *)
(***************************************************************************)
EXTENDS ServerConfig, Sequences

CONSTANT Workloads  \* bounds on what the runs do

(* named: game commands, too, may name a server; configs: init-config is run; *)
(* alone: a run is started when no other is under way.                       *)
Workload == [logins : 0..MaxLogins, games : Nat, named : BOOLEAN, configs : BOOLEAN,
             alone : BOOLEAN]

ASSUME WorkloadAssumption == Workloads \subseteq Workload

VARIABLES request,  \* the request of each run, and its handler
          issued,   \* the servers that issued the tokens, one after the other
          games,    \* of each server, the ids in table games
          nextval,  \* of each server, of the sequence behind games.id
          bound,    \* the workload
          told      \* history: the games of which a run has said "deleted"

server == <<issued, games, nextval, bound>>
cliVars == <<fileVars, request, server, told>>

GameID == 1..bound.games

NoRequest == [at |-> "none", cmd |-> "logout", id |-> 0, to |-> NoServer, token |-> NoToken]

(* What runs, requests and the tables of the servers can be.                 *)
CLITypeOK ==
    /\ FilesTypeOK
    /\ run \in [Runs -> [at : {"ended", "waiting", "saving", "opened", "written"},
                         cmd : Command, payload : Session \cup Config,
                         id : {0} \cup GameID, file : File \cup {NoFile}, force : BOOLEAN,
                         read : Session]]
    /\ request \in [Runs -> [at : {"none", "sent", "entitled", "found", "done", "failed"},
                             cmd : Command, id : {0} \cup GameID,
                             to : Server \cup {NoServer}, token : {NoToken} \cup Token]]
    /\ issued \in Seq(Server) /\ Len(issued) <= bound.logins
    /\ games \in [Server -> SUBSET GameID]
    /\ nextval \in [Server -> 1..(bound.games + 1)]
    /\ told \subseteq Server \X GameID

Init ==
    /\ FilesInit
    /\ request = [r \in Runs |-> NoRequest]
    /\ issued = <<>> /\ told = {}
    /\ games = [s \in Server |-> {}] /\ nextval = [s \in Server |-> 1]
    /\ bound \in Workloads
-----------------------------------------------------------------------------
(* The commands, up to the first thing another run can see.  The session is  *)
(* read once; when it is no JSON the command fails.                          *)
loadSession == Read("drynn.json")

Named(may) == {NoServer} \cup IF may THEN Server ELSE {}

(* --server or else DRYNN_SERVER_URL; the configuration; the session.        *)
resolveServerURL(flag, config, env) ==
    IF flag # NoServer THEN {flag}
    ELSE IF config THEN LoadPath(env)
    ELSE {loadSession.ServerURL} \ {NoServer}

Send(r, cmd, id, url) ==
    /\ run' = [run EXCEPT ![r] = [NoRun EXCEPT !.at = "waiting", !.cmd = cmd, !.id = id]]
    /\ request' = [request EXCEPT ![r] = [at |-> "sent", cmd |-> cmd, id |-> id, to |-> url,
           token |-> IF cmd = "login" THEN NoToken ELSE loadSession.AccessToken]]
    /\ UNCHANGED <<diskVars, server, told>>

(* Bound: a run is not started in the place of one whose request the server  *)
(* is still busy with.                                                       *)
CanStart(r) ==
    /\ run[r].at = "ended" /\ request[r].at = "none"
    /\ bound.alone => \A q \in Runs : run[q].at = "ended"
Started(r) == CanStart(r) /\ loadSession \in Session

(* With --config it is refused while there is a session to lose.             *)
Login(r) == \E config \in BOOLEAN, flag, env \in Named(TRUE) :
    /\ Started(r) /\ bound.logins > 0
    /\ config => loadSession.AccessToken = NoToken
    /\ \E url \in resolveServerURL(flag, config, env) : Send(r, "login", 0, url)

(* Mutant of clearTokens: nothing is left of the session.                    *)
ForgetSession(r) == run' = [run EXCEPT ![r] =
    [NoRun EXCEPT !.at = "saving", !.read = loadSession]]

(* What was read is saved without the tokens.                                *)
clearTokens(r) == run' = [run EXCEPT ![r] =
    [NoRun EXCEPT !.at = "saving", !.read = loadSession,
                  !.payload = [loadSession EXCEPT !.AccessToken = NoToken]]]

Logout(r) ==
    /\ Started(r) /\ bound.logins > 0
    /\ clearTokens(r)
    /\ UNCHANGED <<diskVars, request, server, told>>

GameCommand(r) == \E cmd \in Game, id \in {0} \cup GameID, config \in BOOLEAN,
                     flag, env \in Named(bound.named) :
    /\ Started(r) /\ bound.games > 0
    /\ loadSession.AccessToken # NoToken
    /\ cmd = "delete" <=> id # 0
    /\ \E url \in resolveServerURL(flag, config, env) : Send(r, cmd, id, url)

LoggingIn(r) == run[r].at = "waiting" /\ run[r].cmd \notin Game /\ request[r].at = "done"

(* Mutant of LoggedIn: only the tokens of the session are replaced.          *)
ReplaceTokens(r) ==
    /\ LoggingIn(r) /\ loadSession \in Session
    /\ run' = [run EXCEPT ![r] = [@ EXCEPT !.at = "saving",
           !.payload = [loadSession EXCEPT !.AccessToken = request[r].token]]]
    /\ request' = [request EXCEPT ![r] = NoRequest]
    /\ UNCHANGED <<diskVars, server, told>>

(* The answer to a login is saved; those to other commands are printed.      *)
LoggedIn(r) ==
    /\ LoggingIn(r)
    /\ run' = [run EXCEPT ![r] = [@ EXCEPT !.at = "saving",
           !.payload = [ServerURL |-> request[r].to, AccessToken |-> request[r].token]]]
    /\ request' = [request EXCEPT ![r] = NoRequest]
    /\ UNCHANGED <<diskVars, server, told>>

Answered(r) ==
    /\ run[r].at = "waiting"
    /\ \/ request[r].at = "failed"
       \/ request[r].at = "done" /\ run[r].cmd \in Game
    /\ told' = IF request[r].at = "done" /\ run[r].cmd = "delete"
               THEN told \cup {<<request[r].to, run[r].id>>} ELSE told
    /\ Ended(r)
    /\ request' = [request EXCEPT ![r] = NoRequest]
    /\ UNCHANGED <<diskVars, server>>

(* Killed at any point, or tired of waiting: the server is not told.         *)
Quit(r) ==
    /\ run[r].at # "ended"
    /\ Ended(r)
    /\ UNCHANGED <<diskVars, request, server, told>>

AnswerIsLost(r) ==
    /\ run[r].at = "ended" /\ request[r].at \in {"done", "failed"}
    /\ request' = [request EXCEPT ![r] = NoRequest]
    /\ UNCHANGED <<fileVars, server, told>>

InitConfig(r) ==
    /\ CanStart(r) /\ bound.configs
    /\ \E url \in Server, force \in BOOLEAN : WritePath(r, url, force)
    /\ UNCHANGED <<request, server, told>>
-----------------------------------------------------------------------------
(* The server, on the request of r.                                          *)
Goes(r, at) == request' = [request EXCEPT ![r].at = at]
Handles(r, cmd) == request[r].at = "entitled" /\ request[r].cmd = cmd

Authenticate(r) ==
    /\ request[r].at = "sent" /\ request[r].cmd \notin Game
    /\ Len(issued) < bound.logins
    /\ issued' = Append(issued, request[r].to)
    /\ request' = [request EXCEPT ![r].at = "done", ![r].token = Len(issued) + 1]
    /\ UNCHANGED <<fileVars, games, nextval, bound, told>>

RequireAuth(r) ==
    /\ request[r].at = "sent" /\ request[r].cmd \in Game
    /\ issued[request[r].token] = request[r].to
    /\ Goes(r, "entitled")
    /\ UNCHANGED <<fileVars, server, told>>

(* A request may fail at any statement; one without effect fails at once:    *)
(* bad credentials, a token that is refused, no such game, no such name, and *)
(* an update, which is not implemented.                                      *)
Fail(r) ==
    /\ request[r].at \in {"sent", "entitled", "found"}
    /\ Goes(r, "failed")
    /\ UNCHANGED <<fileVars, server, told>>

(* Mutant of NewID: the next id is one behind the last game there is.        *)
BehindLast(s) == CHOOSE id \in 1..(bound.games + 1) :
    /\ \A g \in games[s] : g < id
    /\ id = 1 \/ id - 1 \in games[s]

(* BIGSERIAL.                                                                *)
NewID(s) == nextval[s]

CreateGame(r) ==
    /\ Handles(r, "create")
    /\ LET s == request[r].to IN
          /\ NewID(s) \in GameID
          /\ games' = [games EXCEPT ![s] = @ \cup {NewID(s)}]
          /\ nextval' = [nextval EXCEPT ![s] = NewID(s) + 1]
    /\ Goes(r, "done")
    /\ UNCHANGED <<fileVars, issued, bound, told>>

(* ListGames, and GetGame of a game that is there.                           *)
GetGame(r) ==
    /\ Handles(r, "look")
    /\ Goes(r, "done")
    /\ UNCHANGED <<fileVars, server, told>>

(* DeleteGame reads the row and then deletes it, with no transaction around: *)
(* it says so even if another request has deleted it meanwhile.              *)
FindGame(r) ==
    /\ Handles(r, "delete") /\ request[r].id \in games[request[r].to]
    /\ Goes(r, "found")
    /\ UNCHANGED <<fileVars, server, told>>

DeleteGame(r) ==
    /\ request[r].at = "found"
    /\ games' = [games EXCEPT ![request[r].to] = @ \ {request[r].id}]
    /\ Goes(r, "done")
    /\ UNCHANGED <<fileVars, issued, nextval, bound, told>>

Next ==
    \E r \in Runs :
       \/ Login(r) \/ Logout(r) \/ GameCommand(r) \/ InitConfig(r)
       \/ LoggedIn(r) \/ Answered(r) \/ Quit(r) \/ AnswerIsLost(r)
       \/ Save(r) /\ UNCHANGED <<request, server, told>>
       \/ Authenticate(r) \/ RequireAuth(r) \/ Fail(r)
       \/ CreateGame(r) \/ GetGame(r) \/ FindGame(r) \/ DeleteGame(r)

Spec == Init /\ [][Next]_cliVars
-----------------------------------------------------------------------------
(* runs of cmd/drynn: whichever of them save at once, or are killed, a       *)
(* session that can be read holds a token of the very server it names.       *)
(* (Where a command takes the token is its own affair: --server and --config *)
(* name any other.)                                                          *)
TokenIsOfItsServer ==
    /\ CLITypeOK
    /\ loadSession \in Session /\ loadSession.AccessToken # NoToken =>
          loadSession.ServerURL = issued[loadSession.AccessToken]

(* cmd/drynn/USAGE.md, of logout: "The session file is preserved with the    *)
(* server_url intact so subsequent logins can reuse it".  When it saves, the *)
(* session loses its tokens and nothing else, unless another run has saved   *)
(* since the logout read it, or two saved at once.                           *)
LogoutKeepsServer == [][\A r \in Runs :
    /\ run[r].cmd = "logout" /\ run[r].at = "written" /\ run'[r].at = "ended"
    /\ name'["drynn.json"] # name["drynn.json"]
    /\ ~overlapped["drynn.json"] /\ loadSession = run[r].read
    => loadSession' = [loadSession EXCEPT !.AccessToken = NoToken]
    ]_fileVars

(* A game of which a run has said "deleted" is gone, and nothing that is     *)
(* created later goes by its id: neither the deletion of a game that is gone *)
(* nor the answer that is late concerns another game.                        *)
DeletedIsGone == \A g \in told : g[2] \notin games[g[1]]
=============================================================================
