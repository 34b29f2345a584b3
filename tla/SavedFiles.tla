----------------------------- MODULE SavedFiles -----------------------------
(***************************************************************************)
(* How the programs replace a file: saveSession (cmd/drynn/session.go) does *)
(* it with the session drynn.json, WritePath (internal/config/config.go)    *)
(* with the configuration server.json.  Both write a temporary file beside  *)
(* it, whose name is always the same, and rename it.  The file system is    *)
(* modelled with its names, the files behind the names, and the runs that   *)
(* hold a file open; a run may be killed at any point.                      *)
(*                                                                          *)
(* A session is its server and its access token, a configuration its base   *)
(* URL; what else is in them goes along.                                    *)
(***************************************************************************)
EXTENDS Integers, FiniteSets

CONSTANTS Runs,       \* at most one run of a program per element at a time
          Server,     \* the URLs of servers
          NoServer,
          MaxLogins   \* bound on the tokens the servers issue

ASSUME RunAssumption == IsFiniteSet(Runs)
ASSUME ServerAssumption == NoServer \notin Server
ASSUME LoginAssumption == MaxLogins \in Nat

Token == 1..MaxLogins
NoToken == 0
Session == [ServerURL : Server \cup {NoServer}, AccessToken : {NoToken} \cup Token]
Empty == [ServerURL |-> NoServer, AccessToken |-> NoToken]
Config == [base_url : Server]

(* What a file holds: one of these, nothing yet, or a session and behind it  *)
(* the end of a longer one, which is no JSON.                                *)
Truncated == [lost |-> "all"]
Broken == [lost |-> "end"]
Content == Session \cup Config \cup {Truncated, Broken}

Path == {"drynn.json", "server.json"}

(* A file is what open files refer to; a name refers to a file or to none.   *)
File == 1..(Cardinality(Runs) + 4)
NoFile == 0

Game == {"create", "look", "delete"}  \* look: list, show or update
Command == {"login", "logout", "init-config"} \cup Game

VARIABLES name,     \* of each path, the file of that name and of its ".tmp"
          content,  \* of each file
          run,      \* the locals of each run
          \* History:
          saved,      \* what was renamed to each path last
          overlapped  \* of each path, whether two runs were at it at once

diskVars == <<name, content, saved, overlapped>>
fileVars == <<diskVars, run>>

(* read: history, the session that a logout has read.                        *)
NoRun == [at |-> "ended", cmd |-> "logout", payload |-> Empty, id |-> 0, file |-> NoFile,
          force |-> FALSE, read |-> Empty]

(* The run has opened the temporary file and not renamed it yet.             *)
Saving(r) == run[r].file # NoFile
PathOf(r) == IF run[r].cmd = "init-config" THEN "server.json" ELSE "drynn.json"

(* What names, files and runs can be; a path and its temporary name are      *)
(* never one file, and a run holds a file open only while it saves.          *)
FilesTypeOK ==
    /\ name \in [Path -> [{"path", "tmp"} -> File \cup {NoFile}]]
    /\ content \in [File -> Content]
    /\ \A p \in Path : name[p]["path"] = name[p]["tmp"] => name[p]["tmp"] = NoFile
    /\ \A r \in Runs : Saving(r) <=> run[r].at \in {"opened", "written"}
    /\ saved \in [Path -> Session \cup Config]
    /\ overlapped \in [Path -> BOOLEAN]

FilesInit ==
    /\ name = [p \in Path |-> [n \in {"path", "tmp"} |-> NoFile]]
    /\ content = [f \in File |-> Truncated]
    /\ run = [r \in Runs |-> NoRun]
    /\ saved = [p \in Path |-> Empty]
    /\ overlapped = [p \in Path |-> FALSE]
-----------------------------------------------------------------------------
(* A path that is not there reads as Empty.                                  *)
Read(p) == IF name[p]["path"] = NoFile THEN Empty ELSE content[name[p]["path"]]

(* A file without a name that no run holds open.                             *)
NewFile == CHOOSE f \in File :
    /\ \A p \in Path : f \notin {name[p]["path"], name[p]["tmp"]}
    /\ \A q \in Runs : f # run[q].file

Ended(r) == run' = [run EXCEPT ![r] = NoRun]
At(r, at) == run' = [run EXCEPT ![r].at = at]

(* Mutant of Target: the file itself is written.                             *)
InPlace == "path"

(* os.WriteFile(tmp): the name is opened, and what it names loses its        *)
(* content.                                                                  *)
Target == "tmp"

OpenTmp(r) ==
    /\ run[r].at = "saving"
    /\ LET p == PathOf(r)
           f == IF name[p][Target] = NoFile THEN NewFile ELSE name[p][Target] IN
          /\ name' = [name EXCEPT ![p][Target] = f]
          /\ content' = [content EXCEPT ![f] = Truncated]
          /\ run' = [run EXCEPT ![r].at = "opened", ![r].file = f]
          /\ overlapped' = [overlapped EXCEPT ![p] = @ \/
                                  \E q \in Runs \ {r} : Saving(q) /\ PathOf(q) = p]
    /\ UNCHANGED saved

(* The payload is written over the beginning of the file.  A session with a  *)
(* token is longer than one without; otherwise two may differ in length.  Of *)
(* a configuration, all that follows the first JSON value is never decoded.  *)
Overwritten(old, new) ==
    IF new \in Config \/ old \in {Truncated, new} THEN {new}
    ELSE IF old # Broken /\ old.AccessToken = NoToken /\ new.AccessToken # NoToken THEN {new}
    ELSE IF old # Broken /\ old.AccessToken # NoToken /\ new.AccessToken = NoToken THEN {Broken}
    ELSE {new, Broken}

WriteTmp(r) ==
    /\ run[r].at = "opened"
    /\ \E c \in Overwritten(content[run[r].file], run[r].payload) :
          content' = [content EXCEPT ![run[r].file] = c]
    /\ At(r, "written")
    /\ UNCHANGED <<name, saved, overlapped>>

(* os.Rename; without the name it fails, and the command with it.  (What     *)
(* WritePath reads back after that decides what it prints.)                  *)
RenameTmp(r) ==
    LET p == PathOf(r) IN
    /\ run[r].at = "written" /\ name[p]["tmp"] # NoFile
    /\ name' = [name EXCEPT ![p] = [path |-> name[p]["tmp"], tmp |-> NoFile]]
    /\ content' = [f \in File |-> IF f = name[p]["path"] THEN Truncated ELSE content[f]]
    /\ saved' = [saved EXCEPT ![p] = run[r].payload]
    /\ Ended(r)
    /\ UNCHANGED overlapped

RenameFails(r) ==
    /\ run[r].at = "written" /\ name[PathOf(r)]["tmp"] = NoFile
    /\ Ended(r)
    /\ UNCHANGED diskVars

Save(r) == OpenTmp(r) \/ WriteTmp(r) \/ RenameTmp(r) \/ RenameFails(r)
-----------------------------------------------------------------------------
(* saveSession, WritePath: unless two runs were at a path at once, it holds   *)
(* what was saved there last, whole, whatever runs were killed half way.      *)
(* (Two at once write to one temporary file, and can leave a session file     *)
(* that no command reads any more, or an empty configuration.)                *)
FilesAreLastSaved == \A p \in Path : ~overlapped[p] => Read(p) = saved[p]
=============================================================================
