---------------------------- MODULE ServerConfig ----------------------------
(***************************************************************************)
(* The configuration of the server (internal/config/config.go): cmd/db      *)
(* init-config writes it (WritePath), the server, cmd/db and a login with   *)
(* --config load it (LoadPath), and the environment goes over it.           *)
(***************************************************************************)
EXTENDS SavedFiles

(* mergeFileConfig: the base URL in the file, or none without a file; an      *)
(* empty file is an error, and nothing is the result.                         *)
mergeFileConfig ==
    IF Read("server.json") = Truncated THEN {}
    ELSE IF Read("server.json") = Empty THEN {NoServer}
    ELSE {Read("server.json").base_url}

(* env: DRYNN_BASE_URL, if it is set.                                         *)
applyEnvOverrides(env, url) == IF env # NoServer THEN env ELSE url

(* One has to be given (and a database URL, which goes along here).           *)
LoadPath(env) == {applyEnvOverrides(env, url) : url \in mergeFileConfig} \ {NoServer}

Begun(r, url, force) ==
    /\ run[r].at = "ended"
    /\ run' = [run EXCEPT ![r] = [NoRun EXCEPT !.at = "saving", !.cmd = "init-config",
                                     !.payload = [base_url |-> url], !.force = force]]
    /\ overlapped' = [overlapped EXCEPT !["server.json"] = @ \/
                        \E q \in Runs : run[q].cmd = "init-config"]
    /\ UNCHANGED <<name, content, saved>>

(* Mutant of WritePath: it looks for the temporary file.                      *)
WriteUnlessTmp(r, url, force) ==
    /\ force \/ name["server.json"]["tmp"] = NoFile
    /\ Begun(r, url, force)

(* Without --force it is refused when there is a file, whatever is in it.     *)
WritePath(r, url, force) ==
    /\ force \/ name["server.json"]["path"] = NoFile
    /\ Begun(r, url, force)
-----------------------------------------------------------------------------
(* cmd/db init-config, "--force  overwrite an existing config file": nothing  *)
(* else does, unless two of its runs were at work at once.  (Two that see no  *)
(* file both write one; and one can fill the file that another renamed, and   *)
(* then fail, since there is nothing left to rename.)                         *)
ForceAloneReplaces == [][
    /\ name["server.json"]["path"] # NoFile
    /\ Read("server.json")' # Read("server.json")
    /\ ~overlapped["server.json"]
    => \E r \in Runs : run[r].cmd = "init-config" /\ run[r].at = "written" /\ run[r].force
    ]_fileVars
=============================================================================
