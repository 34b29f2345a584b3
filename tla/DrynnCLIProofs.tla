--------------------------- MODULE DrynnCLIProofs ---------------------------
(***************************************************************************)
(* Theorems about DrynnCLI, and so about SavedFiles and ServerConfig, for  *)
(* any number of runs, servers and games: what files are left when runs    *)
(* are killed or overlap, that the session's token and server belong to    *)
(* each other and a logout leaves the server, and that a game said to be   *)
(* deleted is gone for good.                                               *)
(***************************************************************************)
EXTENDS DrynnCLI, FiniteSetTheorems, TLAPS

USE ServerAssumption, LoginAssumption DEF NoFile, NoToken

RunRecord == [at : {"ended", "waiting", "saving", "opened", "written"},
              cmd : Command, payload : Session \cup Config,
              id : {0} \cup GameID, file : File \cup {NoFile}, force : BOOLEAN,
              read : Session]

RequestRecord == [at : {"none", "sent", "entitled", "found", "done", "failed"},
                  cmd : Command, id : {0} \cup GameID,
                  to : Server \cup {NoServer}, token : {NoToken} \cup Token]

(* No file has two names, and what a run holds open is no file of the      *)
(* other path, nor held open by a run that saves to the other path.        *)
FilesApart ==
    /\ \A p, q \in Path, m, n \in {"path", "tmp"} :
          name[p][m] = name[q][n] /\ name[p][m] # NoFile => p = q /\ m = n
    /\ \A r \in Runs, p \in Path : Saving(r) /\ p # PathOf(r) =>
          run[r].file # name[p]["path"] /\ run[r].file # name[p]["tmp"]
    /\ \A r, q \in Runs : Saving(r) /\ Saving(q) /\ PathOf(r) # PathOf(q) =>
          run[r].file # run[q].file

(* One run at most saves to p; what it has open is the temporary file, and *)
(* nobody else has written to it.                                          *)
SavesAlone(p) ==
    /\ \A r, q \in Runs : Saving(r) /\ Saving(q) /\ PathOf(r) = p /\ PathOf(q) = p => r = q
    /\ \A r \in Runs : Saving(r) /\ PathOf(r) = p =>
          /\ run[r].file = name[p]["tmp"]
          /\ run[r].at = "opened" => content[run[r].file] = Truncated
          /\ run[r].at = "written" => content[run[r].file] = run[r].payload
    /\ Read(p) = saved[p]

Undisturbed == \A p \in Path : ~overlapped[p] => SavesAlone(p)

(* Unless two runs of init-config were at work at once, there is no        *)
(* configuration while one is at work that was not forced.                 *)
Unforced == ~overlapped["server.json"] =>
    /\ \A r, q \in Runs : run[r].cmd = "init-config" /\ run[q].cmd = "init-config" => r = q
    /\ \A r \in Runs : run[r].cmd = "init-config" /\ ~run[r].force =>
          name["server.json"]["path"] = NoFile

(* A session without a token, or with one of the server it names.          *)
GoodSession(c, tokens) ==
    /\ c \in Session
    /\ c.AccessToken # NoToken => /\ c.AccessToken \in 1..Len(tokens)
                                  /\ c.ServerURL = tokens[c.AccessToken]
    /\ c # Empty => c.ServerURL \in Server

Fits(p, c, tokens) ==
    \/ c = Truncated
    \/ p = "server.json" /\ c \in Config
    \/ p = "drynn.json" /\ (c = Broken \/ GoodSession(c, tokens))

(* What the files of each path hold, and what runs are about to write.     *)
ContentsFit == \A p \in Path, n \in {"path", "tmp"} :
    name[p][n] # NoFile => Fits(p, content[name[p][n]], issued)

Busy(r) == run[r].at \in {"saving", "opened", "written"}

PayloadsFit == \A r \in Runs :
    /\ run[r].cmd = "init-config" => Busy(r) /\ run[r].payload \in Config
    /\ Busy(r) /\ run[r].cmd # "init-config" => GoodSession(run[r].payload, issued)

FilesInv ==
    /\ FilesTypeOK
    /\ run \in [Runs -> RunRecord]
    /\ FilesApart
    /\ Undisturbed
    /\ Unforced
    /\ ContentsFit
    /\ PayloadsFit

(* A game that was there and is there no more: its id is not given again.  *)
Gone(s, id, next, there) == id \in Nat \ {0} /\ id < next[s] /\ id \notin there[s]

RequestShape == \A r \in Runs :
    /\ request[r].at # "none" => request[r].to \in Server
    /\ request[r].at = "done" /\ request[r].cmd \notin Game =>
          /\ request[r].token \in 1..Len(issued)
          /\ issued[request[r].token] = request[r].to
    /\ request[r].at = "found" => /\ request[r].cmd = "delete"
                                  /\ request[r].id \in GameID
                                  /\ request[r].id < nextval[request[r].to]
    /\ request[r].at = "done" /\ request[r].cmd = "delete" =>
          Gone(request[r].to, request[r].id, nextval, games)

GameShape ==
    /\ \A s \in Server : \A id \in games[s] : id < nextval[s]
    /\ \A g \in told : Gone(g[1], g[2], nextval, games)

ServerInv ==
    /\ bound \in Workload
    /\ request \in [Runs -> RequestRecord]
    /\ issued \in Seq(Server) /\ Len(issued) <= bound.logins
    /\ games \in [Server -> SUBSET GameID]
    /\ nextval \in [Server -> 1..(bound.games + 1)]
    /\ told \subseteq Server \X GameID
    /\ RequestShape
    /\ GameShape

(* A run that waits for an answer waits for that of its own request.       *)
OwnRequest == \A r \in Runs : run[r].at = "waiting" =>
    request[r].at # "none" /\ request[r].cmd = run[r].cmd /\ request[r].id = run[r].id

IInv == FilesInv /\ ServerInv /\ OwnRequest

-----------------------------------------------------------------------------
(* Sessions, configurations and damaged files are told apart.              *)
LEMMA Kinds ==
    /\ \A c \in Session : c \notin Config /\ c # Truncated /\ c # Broken
    /\ \A c \in Config : c # Truncated /\ c # Broken
    /\ Truncated # Broken
    /\ Empty \in Session
<1>1. \A c \in Session : DOMAIN c = {"ServerURL", "AccessToken"}
  BY DEF Session
<1>2. \A c \in Config : DOMAIN c = {"base_url"}
  BY DEF Config
<1>3. DOMAIN Truncated = {"lost"} /\ DOMAIN Broken = {"lost"}
  BY DEF Truncated, Broken
<1>4. Truncated # Broken
  BY DEF Truncated, Broken
<1>5. Empty \in Session
  BY DEF Empty, Session
<1>6. "base_url" # "ServerURL" /\ "lost" # "ServerURL" /\ "lost" # "base_url"
  OBVIOUS
<1>7. /\ "ServerURL" \notin {"base_url"} /\ "ServerURL" \notin {"lost"}
      /\ "base_url" \notin {"lost"} /\ "ServerURL" \in {"ServerURL", "AccessToken"}
      /\ "base_url" \in {"base_url"}
  BY <1>6
<1>8. ASSUME NEW c \in Session
      PROVE  c \notin Config /\ c # Truncated /\ c # Broken
  BY <1>1, <1>2, <1>3, <1>7
<1>9. ASSUME NEW c \in Config
      PROVE  c # Truncated /\ c # Broken
  BY <1>2, <1>3, <1>7
<1>10. QED
  BY <1>4, <1>5, <1>8, <1>9

LEMMA FileNumbers ==
    /\ Cardinality(Runs) \in Nat
    /\ File \subseteq Nat /\ 0 \notin File
    /\ IsFiniteSet(File) /\ Cardinality(File) = Cardinality(Runs) + 4
<1>1. Cardinality(Runs) \in Nat
  BY RunAssumption, FS_CardinalityType
<1>2. IsFiniteSet(File) /\ Cardinality(File) = Cardinality(Runs) + 4
  BY <1>1, FS_Interval, SMTT(30) DEF File
<1>3. QED
  BY <1>1, <1>2 DEF File

LEMMA OneMore ==
    ASSUME NEW S, NEW x, NEW n \in Nat, IsFiniteSet(S), Cardinality(S) <= n
    PROVE  IsFiniteSet(S \cup {x}) /\ Cardinality(S \cup {x}) <= n + 1
<1>1. Cardinality(S) \in Nat
  BY FS_CardinalityType
<1>2. /\ IsFiniteSet(S \cup {x})
      /\ Cardinality(S \cup {x}) \in {Cardinality(S), Cardinality(S) + 1}
  BY FS_AddElement
<1>3. QED
  BY <1>1, <1>2

(* The names and the open files are too few to be all files: three names,  *)
(* since the temporary one is free, and one file per run.                  *)
LEMMA NewFileIsNew ==
    ASSUME FilesInv, NEW p \in Path, name[p]["tmp"] = NoFile
    PROVE  /\ NewFile \in File
           /\ \A q \in Path : NewFile # name[q]["path"] /\ NewFile # name[q]["tmp"]
           /\ \A q \in Runs : NewFile # run[q].file
<1> DEFINE a == name["drynn.json"]["path"]
           b == name["drynn.json"]["tmp"]
           c == name["server.json"]["path"]
           d == name["server.json"]["tmp"]
           open == {run[q].file : q \in Runs}
           used == (((open \cup {a}) \cup {b}) \cup {c}) \cup {d}
           Free(f) == /\ \A q \in Path : f \notin {name[q]["path"], name[q]["tmp"]}
                      /\ \A q \in Runs : f # run[q].file
<1>1. IsFiniteSet(open) /\ Cardinality(open) <= Cardinality(Runs)
  <2> DEFINE h == [q \in Runs |-> run[q].file]
  <2>1. h \in Surjection(Runs, open)
    BY DEF Surjection
  <2>2. QED
    BY <2>1, RunAssumption, FS_Surjection
<1>2. IsFiniteSet(used) /\ Cardinality(used) <= Cardinality(Runs) + 4
  <2> DEFINE n == Cardinality(Runs)
             one == open \cup {a}
             two == one \cup {b}
             three == two \cup {c}
             four == three \cup {d}
  <2>0. n \in Nat /\ n + 1 \in Nat /\ n + 2 \in Nat /\ n + 3 \in Nat
    BY FileNumbers
  <2>1. IsFiniteSet(open) /\ Cardinality(open) <= n
    BY <1>1
  <2> HIDE DEF n, open, a, b, c, d
  <2>2. IsFiniteSet(one) /\ Cardinality(one) <= n + 1
    BY <2>0, <2>1, OneMore
  <2> HIDE DEF one
  <2>3. IsFiniteSet(two) /\ Cardinality(two) <= (n + 1) + 1
    BY <2>0, <2>2, OneMore
  <2>4. IsFiniteSet(two) /\ Cardinality(two) <= n + 2
    BY <2>0, <2>3, FS_CardinalityType
  <2> HIDE DEF two
  <2>5. IsFiniteSet(three) /\ Cardinality(three) <= (n + 2) + 1
    BY <2>0, <2>4, OneMore
  <2>6. IsFiniteSet(three) /\ Cardinality(three) <= n + 3
    BY <2>0, <2>5, FS_CardinalityType
  <2> HIDE DEF three
  <2>7. IsFiniteSet(four) /\ Cardinality(four) <= (n + 3) + 1
    BY <2>0, <2>6, OneMore
  <2>8. IsFiniteSet(four) /\ Cardinality(four) <= n + 4
    BY <2>0, <2>7, FS_CardinalityType
  <2>9. QED
    BY <2>8 DEF n, one, two, three
<1>3. \E f \in File : f \notin used
  <2> SUFFICES ASSUME File \subseteq used
               PROVE  FALSE
    OBVIOUS
  <2>1. 0 \in used
    BY DEF Path
  <2>2. /\ IsFiniteSet(File \cup {0})
        /\ Cardinality(File \cup {0}) = Cardinality(Runs) + 5
    BY FileNumbers, FS_AddElement
  <2>3. File \cup {0} \in SUBSET used
    BY <2>1
  <2>4. Cardinality(File \cup {0}) <= Cardinality(used) /\ Cardinality(used) \in Nat
    BY <1>2, <2>3, FS_Subset, FS_CardinalityType
  <2>5. QED
    BY <1>2, <2>2, <2>4, FileNumbers
<1>4. \E f \in File : Free(f)
  BY <1>3 DEF Path
<1>5. NewFile = CHOOSE f \in File : Free(f)
  BY DEF NewFile
<1>6. NewFile \in File /\ Free(NewFile)
  BY <1>4, <1>5
<1>7. QED
  BY <1>6

-----------------------------------------------------------------------------
(* Tokens are only ever added.                                             *)
IssuedGrows ==
    /\ Len(issued) \in Nat /\ Len(issued') \in Nat /\ Len(issued) <= Len(issued')
    /\ \A i \in 1..Len(issued) : issued'[i] = issued[i]

LEMMA GoodKept ==
    ASSUME IssuedGrows, NEW c, GoodSession(c, issued)
    PROVE  GoodSession(c, issued')
BY DEF IssuedGrows, GoodSession

LEMMA FitsKept ==
    ASSUME IssuedGrows, NEW p, NEW c, Fits(p, c, issued)
    PROVE  Fits(p, c, issued')
BY GoodKept DEF Fits

LEMMA FilesKept ==
    ASSUME FilesInv, UNCHANGED <<fileVars, bound>>, IssuedGrows
    PROVE  FilesInv'
<1> USE DEF fileVars, diskVars
<1>1. FilesTypeOK' /\ FilesApart'
  BY DEF FilesInv, FilesTypeOK, FilesApart, Saving, PathOf
<1>2. run' \in [Runs -> RunRecord']
  BY DEF FilesInv, RunRecord, GameID
<1>3. Undisturbed' /\ Unforced'
  BY DEF FilesInv, Undisturbed, SavesAlone, Unforced, Saving, PathOf, Read
<1>4. ContentsFit'
  BY FitsKept DEF FilesInv, ContentsFit
<1>5. PayloadsFit'
  BY GoodKept DEF FilesInv, PayloadsFit, Busy
<1>6. QED
  BY <1>1, <1>2, <1>3, <1>4, <1>5 DEF FilesInv

(* A run that starts, ends or has its answer has no file open.             *)
LEMMA CommandFiles ==
    ASSUME FilesInv, NEW r \in Runs, NEW new \in RunRecord,
           run' = [run EXCEPT ![r] = new],
           new.file = NoFile, new.at \in {"ended", "waiting", "saving"},
           UNCHANGED <<name, content, saved, bound, issued>>, Len(issued) \in Nat,
           new.at = "saving" /\ new.cmd # "init-config" => GoodSession(new.payload, issued),
           \/ overlapped' = overlapped /\ new.cmd # "init-config"
           \/ /\ new.at = "saving" /\ new.cmd = "init-config" /\ new.payload \in Config
              /\ new.force \/ name["server.json"]["path"] = NoFile
              /\ overlapped' = [overlapped EXCEPT !["server.json"] = @ \/
                                   \E q \in Runs : run[q].cmd = "init-config"]
    PROVE  FilesInv'
<1>1. run' \in [Runs -> RunRecord] /\ RunRecord' = RunRecord
  BY DEF FilesInv, RunRecord, GameID
<1>2. run'[r] = new /\ \A q \in Runs \ {r} : run'[q] = run[q]
  BY DEF FilesInv
<1>3. \A q \in Runs : Saving(q)' => q # r /\ Saving(q) /\ run'[q] = run[q]
  BY <1>2 DEF Saving
<1>4. /\ overlapped' \in [Path -> BOOLEAN]
      /\ \A p \in Path : ~overlapped'[p] => ~overlapped[p]
  BY DEF FilesInv, FilesTypeOK, Path
<1>5. FilesTypeOK'
  <2>1. \A q \in Runs : Saving(q)' <=> run'[q].at \in {"opened", "written"}
    BY <1>2 DEF FilesInv, FilesTypeOK, Saving
  <2>2. QED
    BY <1>4, <2>1 DEF FilesInv, FilesTypeOK
<1>6. FilesApart'
  BY <1>3 DEF FilesInv, FilesApart, PathOf
<1>7. Undisturbed'
  <2> SUFFICES ASSUME NEW p \in Path, ~overlapped'[p]
               PROVE  SavesAlone(p)'
    BY DEF Undisturbed
  <2>1. SavesAlone(p)
    BY <1>4 DEF FilesInv, Undisturbed
  <2>2. QED
    BY <1>3, <2>1 DEF SavesAlone, PathOf, Read
<1>8. Unforced'
  <2> SUFFICES ASSUME ~overlapped'["server.json"]
               PROVE  /\ \A p, q \in Runs : run'[p].cmd = "init-config"
                               /\ run'[q].cmd = "init-config" => p = q
                      /\ \A q \in Runs : run'[q].cmd = "init-config" /\ ~run'[q].force
                            => name["server.json"]["path"] = NoFile
    BY DEF Unforced
  <2>1. ~overlapped["server.json"]
    BY <1>4 DEF Path
  <2>2. CASE new.cmd = "init-config"
    <3>1. \A q \in Runs : run[q].cmd # "init-config"
      BY <2>1, <2>2 DEF FilesInv, FilesTypeOK, Path
    <3>2. QED
      BY <1>2, <2>2, <3>1
  <2>3. CASE new.cmd # "init-config"
    BY <1>2, <2>1, <2>3 DEF FilesInv, Unforced
  <2>4. QED
    BY <2>2, <2>3
<1>9. IssuedGrows
  BY DEF IssuedGrows
<1>10. ContentsFit'
  BY <1>9, FitsKept DEF FilesInv, ContentsFit
<1>11. PayloadsFit'
  <2> SUFFICES ASSUME NEW q \in Runs
               PROVE  /\ run'[q].cmd = "init-config" => Busy(q)' /\ run'[q].payload \in Config
                      /\ Busy(q)' /\ run'[q].cmd # "init-config" => GoodSession(run'[q].payload, issued')
    BY DEF PayloadsFit
  <2>1. CASE q = r
    BY <1>2, <1>9, <2>1, GoodKept DEF Busy
  <2>2. CASE q # r
    BY <1>2, <1>9, <2>2, GoodKept DEF FilesInv, PayloadsFit, Busy
  <2>3. QED
    BY <2>1, <2>2
<1>12. QED
  BY <1>1, <1>5, <1>6, <1>7, <1>8, <1>10, <1>11 DEF FilesInv

(* A step of saving sets the run's statement and the file it has open.     *)
LEMMA SavingShape ==
    ASSUME FilesInv, NEW r \in Runs, NEW a \in {"opened", "written"}, NEW f \in File,
           run' = [run EXCEPT ![r].at = a, ![r].file = f]
    PROVE  /\ run' \in [Runs -> RunRecord]
           /\ run'[r].at = a /\ run'[r].file = f /\ run'[r].cmd = run[r].cmd
           /\ run'[r].payload = run[r].payload /\ run'[r].force = run[r].force
           /\ \A q \in Runs \ {r} : run'[q] = run[q]
<1>1. run[r] \in RunRecord
  BY DEF FilesInv
<1>2. QED
  BY <1>1 DEF FilesInv, RunRecord

LEMMA NoRunType == NoRun \in RunRecord /\ NoRun.file = NoFile /\ NoRun.at = "ended"
                   /\ NoRun.cmd = "logout"
BY Kinds DEF NoRun, RunRecord, Command, Game

(* The temporary file is opened: it is no file of the other path, and no   *)
(* other run has it open unless the two were at it at once.                *)
LEMMA OpenTmpInv ==
    ASSUME FilesInv, NEW r \in Runs, OpenTmp(r), UNCHANGED <<bound, issued>>,
           Len(issued) \in Nat
    PROVE  FilesInv'
<1> DEFINE p == PathOf(r)
           f == IF name[p]["tmp"] = NoFile THEN NewFile ELSE name[p]["tmp"]
<1>1. /\ run[r].at = "saving"
      /\ name' = [name EXCEPT ![p]["tmp"] = f]
      /\ content' = [content EXCEPT ![f] = Truncated]
      /\ run' = [run EXCEPT ![r].at = "opened", ![r].file = f]
      /\ overlapped' = [overlapped EXCEPT ![p] = @ \/
                            \E q \in Runs \ {r} : Saving(q) /\ PathOf(q) = p]
      /\ UNCHANGED saved
  BY DEF OpenTmp, Target
<1>2. p \in Path
  BY DEF PathOf, Path
<1>3. /\ f \in File
      /\ \A q \in Path : f # name[q]["path"] /\ (q # p => f # name[q]["tmp"])
      /\ \A q \in Runs : Saving(q) /\ PathOf(q) # p => f # run[q].file
  <2>1. CASE name[p]["tmp"] = NoFile
    BY <1>2, <2>1, NewFileIsNew
  <2>2. CASE name[p]["tmp"] # NoFile
    BY <1>2, <2>2 DEF FilesInv, FilesTypeOK, FilesApart
  <2>3. QED
    BY <2>1, <2>2
<1>4. f # NoFile /\ ~Saving(r)
  BY <1>1, <1>3, FileNumbers DEF FilesInv, FilesTypeOK
<1> HIDE DEF p, f
<1>5. /\ run' \in [Runs -> RunRecord]
      /\ run'[r].at = "opened" /\ run'[r].file = f /\ run'[r].cmd = run[r].cmd
      /\ run'[r].payload = run[r].payload /\ run'[r].force = run[r].force
      /\ \A q \in Runs \ {r} : run'[q] = run[q]
  BY <1>1, <1>3, SavingShape
<1>6. /\ name' \in [Path -> [{"path", "tmp"} -> File \cup {NoFile}]]
      /\ name'[p]["tmp"] = f /\ name'[p]["path"] = name[p]["path"]
      /\ \A q \in Path \ {p} : name'[q] = name[q]
  BY <1>1, <1>2, <1>3 DEF FilesInv, FilesTypeOK
<1>7. /\ content' \in [File -> Content]
      /\ content'[f] = Truncated
      /\ \A g \in File \ {f} : content'[g] = content[g]
  BY <1>1, <1>3 DEF FilesInv, FilesTypeOK, Content
<1>8. /\ overlapped' \in [Path -> BOOLEAN]
      /\ \A q \in Path : ~overlapped'[q] => ~overlapped[q]
      /\ ~overlapped'[p] => \A q \in Runs \ {r} : Saving(q) => PathOf(q) # p
  BY <1>1, <1>2 DEF FilesInv, FilesTypeOK
<1>9. /\ Saving(r)' /\ PathOf(r)' = p
      /\ \A q \in Runs \ {r} : (Saving(q)' <=> Saving(q)) /\ PathOf(q)' = PathOf(q)
  BY <1>4, <1>5 DEF Saving, PathOf, p
<1>10. FilesApart'
  <2>1. \A q, s \in Path, m, n \in {"path", "tmp"} :
           name'[q][m] = name'[s][n] /\ name'[q][m] # NoFile => q = s /\ m = n
    BY <1>2, <1>3, <1>6 DEF FilesInv, FilesApart
  <2>2. \A q \in Runs, s \in Path : Saving(q)' /\ s # PathOf(q)' =>
           run'[q].file # name'[s]["path"] /\ run'[q].file # name'[s]["tmp"]
    BY <1>2, <1>3, <1>5, <1>6, <1>9 DEF FilesInv, FilesApart
  <2>3. \A q, s \in Runs : Saving(q)' /\ Saving(s)' /\ PathOf(q)' # PathOf(s)' =>
           run'[q].file # run'[s].file
    BY <1>3, <1>5, <1>9 DEF FilesInv, FilesApart
  <2>4. QED
    BY <2>1, <2>2, <2>3 DEF FilesApart
<1>11. FilesTypeOK'
  <2>1. \A q \in Path : name'[q]["path"] = name'[q]["tmp"] => name'[q]["tmp"] = NoFile
    BY <1>3, <1>6 DEF FilesInv, FilesTypeOK
  <2>2. \A q \in Runs : Saving(q)' <=> run'[q].at \in {"opened", "written"}
    BY <1>5, <1>9 DEF FilesInv, FilesTypeOK
  <2>3. QED
    BY <1>1, <1>6, <1>7, <1>8, <2>1, <2>2 DEF FilesInv, FilesTypeOK
<1>12. Undisturbed'
  <2> SUFFICES ASSUME NEW q \in Path, ~overlapped'[q]
               PROVE  SavesAlone(q)'
    BY DEF Undisturbed
  <2>1. SavesAlone(q)
    BY <1>8 DEF FilesInv, Undisturbed
  <2>2. name'[q]["path"] = name[q]["path"]
    BY <1>2, <1>6
  <2>3. Read(q)' = saved'[q]
    BY <1>1, <1>3, <1>7, <2>1, <2>2 DEF SavesAlone, Read, FilesInv, FilesTypeOK
  <2>4. CASE q = p
    BY <1>5, <1>6, <1>7, <1>8, <1>9, <2>3, <2>4 DEF SavesAlone
  <2>5. CASE q # p
    <3>1. \A s \in Runs : Saving(s) /\ PathOf(s) = q => run[s].file \in File \ {f}
      BY <1>3, <2>5 DEF FilesInv, RunRecord, Saving
    <3>2. QED
      BY <1>5, <1>6, <1>7, <1>9, <2>1, <2>3, <2>5, <3>1 DEF SavesAlone
  <2>6. QED
    BY <2>4, <2>5
<1>13. Unforced'
  BY <1>2, <1>5, <1>6, <1>8 DEF FilesInv, Unforced, Path
<1>14. IssuedGrows
  BY DEF IssuedGrows
<1>15. ContentsFit'
  <2> SUFFICES ASSUME NEW q \in Path, NEW m \in {"path", "tmp"}, name'[q][m] # NoFile
               PROVE  Fits(q, content'[name'[q][m]], issued')
    BY DEF ContentsFit
  <2>1. CASE name'[q][m] = f
    <3>1. content'[name'[q][m]] = Truncated
      BY <1>7, <2>1
    <3>2. QED
      BY <3>1 DEF Fits
  <2>2. CASE name'[q][m] # f
    <3>1. name'[q][m] = name[q][m] /\ name[q][m] \in File
      BY <1>2, <1>6, <2>2 DEF FilesInv, FilesTypeOK
    <3>2. content'[name'[q][m]] = content[name[q][m]]
      BY <1>7, <2>2, <3>1
    <3>3. Fits(q, content[name[q][m]], issued)
      BY <3>1 DEF FilesInv, ContentsFit
    <3>4. QED
      BY <1>14, <3>2, <3>3, FitsKept
  <2>3. QED
    BY <2>1, <2>2
<1>16. PayloadsFit'
  <2> SUFFICES ASSUME NEW q \in Runs
               PROVE  /\ run'[q].cmd = "init-config" => Busy(q)' /\ run'[q].payload \in Config
                      /\ Busy(q)' /\ run'[q].cmd # "init-config" => GoodSession(run'[q].payload, issued')
    BY DEF PayloadsFit
  <2>1. run'[q].cmd = run[q].cmd /\ run'[q].payload = run[q].payload /\ Busy(q)' = Busy(q)
    BY <1>1, <1>5 DEF Busy
  <2>2. QED
    BY <1>14, <2>1, GoodKept DEF FilesInv, PayloadsFit
<1>17. RunRecord' = RunRecord
  BY DEF RunRecord, GameID
<1>18. QED
  BY <1>5, <1>10, <1>11, <1>12, <1>13, <1>15, <1>16, <1>17 DEF FilesInv

(* What is written leaves the other path alone; and where one run is at    *)
(* work, it finds the file empty and leaves its payload.                   *)
LEMMA WriteTmpInv ==
    ASSUME FilesInv, NEW r \in Runs, WriteTmp(r), UNCHANGED <<bound, issued>>,
           Len(issued) \in Nat
    PROVE  FilesInv'
<1> DEFINE f == run[r].file
           pay == run[r].payload
<1>1. PICK c \in Overwritten(content[f], pay) : content' = [content EXCEPT ![f] = c]
  BY DEF WriteTmp
<1>2. /\ run[r].at = "opened" /\ UNCHANGED <<name, saved, overlapped>>
      /\ run' = [run EXCEPT ![r].at = "written"]
  BY DEF WriteTmp, At
<1>3. f \in File /\ Saving(r)
  BY <1>2 DEF FilesInv, FilesTypeOK, RunRecord, Saving
<1>4. /\ run[r].cmd = "init-config" => pay \in Config
      /\ run[r].cmd # "init-config" => GoodSession(pay, issued)
  BY <1>2 DEF FilesInv, PayloadsFit, Busy
<1>5. /\ c = pay \/ c = Broken
      /\ pay \in Config => c = pay
      /\ content[f] = Truncated => c = pay
  BY <1>1 DEF Overwritten
<1> HIDE DEF f, pay
<1>6. /\ run' \in [Runs -> RunRecord]
      /\ run'[r].at = "written" /\ run'[r].file = f /\ run'[r].cmd = run[r].cmd
      /\ run'[r].payload = run[r].payload /\ run'[r].force = run[r].force
      /\ \A q \in Runs \ {r} : run'[q] = run[q]
  <2>1. run' = [run EXCEPT ![r].at = "written", ![r].file = f]
    BY <1>2 DEF FilesInv, RunRecord, f
  <2>2. QED
    BY <1>3, <2>1, SavingShape
<1>7. /\ content' \in [File -> Content]
      /\ content'[f] = c
      /\ \A g \in File \ {f} : content'[g] = content[g]
  <2>1. c \in Content
    BY <1>4, <1>5 DEF Content, GoodSession
  <2>2. QED
    BY <1>1, <1>3, <2>1 DEF FilesInv, FilesTypeOK
<1>8. \A q \in Runs : (Saving(q)' <=> Saving(q)) /\ PathOf(q)' = PathOf(q)
                      /\ run'[q].file = run[q].file
  BY <1>6 DEF Saving, PathOf, f
<1>9. FilesApart'
  BY <1>2, <1>8 DEF FilesInv, FilesApart
<1>10. FilesTypeOK'
  <2>1. \A q \in Runs : Saving(q)' <=> run'[q].at \in {"opened", "written"}
    BY <1>2, <1>6, <1>8 DEF FilesInv, FilesTypeOK
  <2>2. QED
    BY <1>2, <1>7, <2>1 DEF FilesInv, FilesTypeOK
<1>11. Undisturbed'
  <2> SUFFICES ASSUME NEW q \in Path, ~overlapped'[q]
               PROVE  SavesAlone(q)'
    BY DEF Undisturbed
  <2>1. SavesAlone(q)
    BY <1>2 DEF FilesInv, Undisturbed
  <2>2. CASE q = PathOf(r)
    <3>1. f = name[q]["tmp"] /\ content[f] = Truncated
      BY <1>2, <1>3, <2>1, <2>2 DEF SavesAlone, f
    <3>2. name[q]["path"] # f
      BY <1>3, <3>1, FileNumbers DEF FilesInv, FilesTypeOK
    <3>3. Read(q)' = Read(q)
      BY <1>2, <1>7, <3>2 DEF Read, FilesInv, FilesTypeOK
    <3>4. content'[f] = pay
      BY <1>5, <1>7, <3>1
    <3>5. \A s \in Runs : Saving(s) /\ PathOf(s) = q => s = r
      BY <1>3, <2>1, <2>2 DEF SavesAlone
    <3>6. QED
      BY <1>2, <1>6, <1>8, <2>1, <3>1, <3>3, <3>4, <3>5 DEF SavesAlone, pay
  <2>3. CASE q # PathOf(r)
    <3>1. f # name[q]["path"] /\ f # name[q]["tmp"]
      BY <1>3, <2>3 DEF FilesInv, FilesApart, f
    <3>2. Read(q)' = Read(q)
      BY <1>2, <1>7, <3>1 DEF Read, FilesInv, FilesTypeOK
    <3>3. \A s \in Runs : Saving(s) /\ PathOf(s) = q => run[s].file \in File \ {f} /\ s # r
      BY <1>3, <2>3 DEF FilesInv, FilesApart, RunRecord, Saving, f
    <3>4. QED
      BY <1>2, <1>6, <1>7, <1>8, <2>1, <3>2, <3>3 DEF SavesAlone
  <2>4. QED
    BY <2>2, <2>3
<1>12. Unforced'
  BY <1>2, <1>6 DEF FilesInv, Unforced
<1>13. IssuedGrows
  BY DEF IssuedGrows
<1>14. ContentsFit'
  <2> SUFFICES ASSUME NEW q \in Path, NEW m \in {"path", "tmp"}, name[q][m] # NoFile
               PROVE  Fits(q, content'[name[q][m]], issued')
    BY <1>2 DEF ContentsFit
  <2>1. CASE name[q][m] = f
    <3>1. q = PathOf(r)
      BY <1>3, <2>1 DEF FilesInv, FilesApart, f
    <3>2. Fits(q, c, issued)
      <4>1. CASE run[r].cmd = "init-config"
        <5>1. q = "server.json" /\ c \in Config
          BY <1>4, <1>5, <3>1, <4>1 DEF PathOf
        <5>2. QED
          BY <5>1 DEF Fits
      <4>2. CASE run[r].cmd # "init-config"
        <5>1. q = "drynn.json" /\ (c = Broken \/ GoodSession(c, issued))
          BY <1>4, <1>5, <3>1, <4>2 DEF PathOf
        <5>2. QED
          BY <5>1 DEF Fits
      <4>3. QED
        BY <4>1, <4>2
    <3>3. QED
      BY <1>7, <1>13, <2>1, <3>2, FitsKept
  <2>2. CASE name[q][m] # f
    <3>1. name[q][m] \in File \ {f}
      BY <2>2 DEF FilesInv, FilesTypeOK
    <3>2. content'[name[q][m]] = content[name[q][m]] /\ Fits(q, content[name[q][m]], issued)
      BY <1>7, <3>1 DEF FilesInv, ContentsFit
    <3>3. QED
      BY <1>13, <3>2, FitsKept
  <2>3. QED
    BY <2>1, <2>2
<1>15. PayloadsFit'
  <2> SUFFICES ASSUME NEW q \in Runs
               PROVE  /\ run'[q].cmd = "init-config" => Busy(q)' /\ run'[q].payload \in Config
                      /\ Busy(q)' /\ run'[q].cmd # "init-config" => GoodSession(run'[q].payload, issued')
    BY DEF PayloadsFit
  <2>1. run'[q].cmd = run[q].cmd /\ run'[q].payload = run[q].payload /\ Busy(q)' = Busy(q)
    BY <1>2, <1>6 DEF Busy
  <2>2. QED
    BY <1>13, <2>1, GoodKept DEF FilesInv, PayloadsFit
<1>16. RunRecord' = RunRecord
  BY DEF RunRecord, GameID
<1>17. QED
  BY <1>6, <1>9, <1>10, <1>11, <1>12, <1>14, <1>15, <1>16 DEF FilesInv

(* What is renamed is a file of the same path, and where one run is at     *)
(* work, the one it has just written.                                      *)
LEMMA RenameTmpInv ==
    ASSUME FilesInv, NEW r \in Runs, RenameTmp(r), UNCHANGED <<bound, issued>>,
           Len(issued) \in Nat
    PROVE  FilesInv'
<1> DEFINE p == PathOf(r)
           f == name[p]["tmp"]
<1>1. /\ run[r].at = "written" /\ f # NoFile
      /\ name' = [name EXCEPT ![p] = [path |-> f, tmp |-> NoFile]]
      /\ content' = [g \in File |-> IF g = name[p]["path"] THEN Truncated ELSE content[g]]
      /\ saved' = [saved EXCEPT ![p] = run[r].payload]
      /\ run' = [run EXCEPT ![r] = NoRun]
      /\ UNCHANGED overlapped
  BY DEF RenameTmp, Ended
<1>2. p \in Path /\ PathOf(r) = p
  BY DEF PathOf, Path
<1>3. /\ f \in File /\ f # name[p]["path"] /\ Saving(r)
      /\ \A q \in Path \ {p}, m \in {"path", "tmp"} :
            name[q][m] # NoFile => name[q][m] # f /\ name[q][m] # name[p]["path"]
  BY <1>1, <1>2 DEF FilesInv, FilesTypeOK, FilesApart
<1>4. /\ run[r].cmd = "init-config" => run[r].payload \in Config
      /\ run[r].cmd # "init-config" => GoodSession(run[r].payload, issued)
  BY <1>1 DEF FilesInv, PayloadsFit, Busy
<1> HIDE DEF p, f
<1>5. /\ run' \in [Runs -> RunRecord] /\ run'[r] = NoRun
      /\ \A q \in Runs \ {r} : run'[q] = run[q]
  BY <1>1, NoRunType DEF FilesInv
<1>6. /\ name' \in [Path -> [{"path", "tmp"} -> File \cup {NoFile}]]
      /\ name'[p]["path"] = f /\ name'[p]["tmp"] = NoFile
      /\ \A q \in Path \ {p} : name'[q] = name[q]
  BY <1>1, <1>2, <1>3 DEF FilesInv, FilesTypeOK
<1>7. /\ content' \in [File -> Content]
      /\ \A g \in File : g # name[p]["path"] => content'[g] = content[g]
  BY <1>1, <1>2 DEF FilesInv, FilesTypeOK, Content
<1>8. /\ saved' \in [Path -> Session \cup Config]
      /\ saved'[p] = run[r].payload
      /\ \A q \in Path \ {p} : saved'[q] = saved[q]
  BY <1>1, <1>2, <1>4 DEF FilesInv, FilesTypeOK, GoodSession
<1>9. \A q \in Runs : Saving(q)' => q # r /\ Saving(q) /\ run'[q] = run[q] /\ PathOf(q)' = PathOf(q)
  BY <1>5, NoRunType DEF Saving, PathOf
<1>10. FilesApart'
  <2>1. \A q, s \in Path, m, n \in {"path", "tmp"} :
           name'[q][m] = name'[s][n] /\ name'[q][m] # NoFile => q = s /\ m = n
    BY <1>2, <1>3, <1>6 DEF FilesInv, FilesApart
  <2>2. \A q \in Runs, s \in Path : Saving(q)' /\ s # PathOf(q)' =>
           run'[q].file # name'[s]["path"] /\ run'[q].file # name'[s]["tmp"]
    BY <1>2, <1>6, <1>9 DEF FilesInv, FilesApart, Saving, f
  <2>3. \A q, s \in Runs : Saving(q)' /\ Saving(s)' /\ PathOf(q)' # PathOf(s)' =>
           run'[q].file # run'[s].file
    BY <1>9 DEF FilesInv, FilesApart
  <2>4. QED
    BY <2>1, <2>2, <2>3 DEF FilesApart
<1>11. FilesTypeOK'
  <2>1. \A q \in Path : name'[q]["path"] = name'[q]["tmp"] => name'[q]["tmp"] = NoFile
    BY <1>6 DEF FilesInv, FilesTypeOK
  <2>2. \A q \in Runs : Saving(q)' <=> run'[q].at \in {"opened", "written"}
    BY <1>5, NoRunType DEF FilesInv, FilesTypeOK, Saving
  <2>3. QED
    BY <1>1, <1>6, <1>7, <1>8, <2>1, <2>2 DEF FilesInv, FilesTypeOK
<1>12. Undisturbed'
  <2> SUFFICES ASSUME NEW q \in Path, ~overlapped'[q]
               PROVE  SavesAlone(q)'
    BY DEF Undisturbed
  <2>1. SavesAlone(q)
    BY <1>1 DEF FilesInv, Undisturbed
  <2>2. CASE q = p
    <3>1. run[r].file = f /\ content[f] = run[r].payload
      BY <1>1, <1>2, <1>3, <2>1, <2>2 DEF SavesAlone, f
    <3>2. Read(q)' = run[r].payload
      BY <1>1, <1>3, <1>6, <1>7, <2>2, <3>1 DEF Read
    <3>3. \A s \in Runs : Saving(s)' => PathOf(s)' # q
      BY <1>2, <1>3, <1>9, <2>1, <2>2 DEF SavesAlone
    <3>4. saved'[q] = run[r].payload
      BY <1>8, <2>2
    <3>5. QED
      BY <3>2, <3>3, <3>4 DEF SavesAlone
  <2>3. CASE q # p
    <3>1. Read(q)' = Read(q)
      BY <1>3, <1>6, <1>7, <2>3 DEF Read, FilesInv, FilesTypeOK
    <3>2. \A s \in Runs : Saving(s) /\ PathOf(s) = q => run[s].file \in File /\ run[s].file # name[p]["path"]
      BY <1>2, <2>3 DEF FilesInv, FilesApart, RunRecord, Saving
    <3>3. QED
      BY <1>6, <1>7, <1>8, <1>9, <2>1, <2>3, <3>1, <3>2 DEF SavesAlone
  <2>4. QED
    BY <2>2, <2>3
<1>13. Unforced'
  <2> SUFFICES ASSUME ~overlapped'["server.json"]
               PROVE  /\ \A q, s \in Runs : run'[q].cmd = "init-config"
                               /\ run'[s].cmd = "init-config" => q = s
                      /\ \A q \in Runs : run'[q].cmd = "init-config" /\ ~run'[q].force
                            => name'["server.json"]["path"] = NoFile
    BY DEF Unforced
  <2>1. ~overlapped["server.json"] /\ Unforced
    BY <1>1 DEF FilesInv
  <2>2. \A q \in Runs : run'[q].cmd = "init-config" => q # r /\ run'[q] = run[q]
    BY <1>5, NoRunType
  <2>3. CASE p = "server.json"
    <3>1. \A q \in Runs : run'[q].cmd # "init-config"
      BY <2>1, <2>2, <2>3 DEF Unforced, PathOf, p
    <3>2. QED
      BY <3>1
  <2>4. CASE p # "server.json"
    <3>1. name'["server.json"] = name["server.json"]
      BY <1>6, <2>4 DEF Path
    <3>2. QED
      BY <2>1, <2>2, <3>1 DEF Unforced
  <2>5. QED
    BY <2>3, <2>4
<1>14. IssuedGrows
  BY DEF IssuedGrows
<1>15. ContentsFit'
  <2> SUFFICES ASSUME NEW q \in Path, NEW m \in {"path", "tmp"}, name'[q][m] # NoFile
               PROVE  Fits(q, content'[name'[q][m]], issued')
    BY DEF ContentsFit
  <2>1. \E n \in {"path", "tmp"} : name'[q][m] = name[q][n] /\ name[q][n] # name[p]["path"]
    BY <1>2, <1>3, <1>6 DEF f
  <2>2. PICK n \in {"path", "tmp"} : name'[q][m] = name[q][n] /\ name[q][n] # name[p]["path"]
    BY <2>1
  <2>3. name[q][n] \in File
    BY <2>2 DEF FilesInv, FilesTypeOK
  <2>4. content'[name'[q][m]] = content[name[q][n]] /\ Fits(q, content[name[q][n]], issued)
    BY <1>7, <2>2, <2>3 DEF FilesInv, ContentsFit
  <2>5. QED
    BY <1>14, <2>4, FitsKept
<1>16. PayloadsFit'
  <2> SUFFICES ASSUME NEW q \in Runs
               PROVE  /\ run'[q].cmd = "init-config" => Busy(q)' /\ run'[q].payload \in Config
                      /\ Busy(q)' /\ run'[q].cmd # "init-config" => GoodSession(run'[q].payload, issued')
    BY DEF PayloadsFit
  <2>1. CASE q = r
    BY <1>5, <2>1, NoRunType DEF Busy
  <2>2. CASE q # r
    BY <1>5, <1>14, <2>2, GoodKept DEF FilesInv, PayloadsFit, Busy
  <2>3. QED
    BY <2>1, <2>2
<1>17. RunRecord' = RunRecord
  BY DEF RunRecord, GameID
<1>18. QED
  BY <1>5, <1>10, <1>11, <1>12, <1>13, <1>15, <1>16, <1>17 DEF FilesInv

LEMMA SaveInv ==
    ASSUME FilesInv, NEW r \in Runs, Save(r), UNCHANGED <<bound, issued>>,
           Len(issued) \in Nat
    PROVE  FilesInv'
<1>1. CASE RenameFails(r)
  <2>1. UNCHANGED <<name, content, saved, overlapped>> /\ run' = [run EXCEPT ![r] = NoRun]
    BY <1>1 DEF RenameFails, Ended, diskVars
  <2>2. QED
    BY <2>1, NoRunType, CommandFiles
<1>2. QED
  BY <1>1, OpenTmpInv, WriteTmpInv, RenameTmpInv DEF Save

-----------------------------------------------------------------------------
(* The session and the configuration, when they can be read, name servers. *)
LEMMA SessionIsGood ==
    ASSUME FilesInv, loadSession \in Session
    PROVE  GoodSession(loadSession, issued)
<1>1. CASE name["drynn.json"]["path"] = NoFile
  BY <1>1, Kinds DEF loadSession, Read, GoodSession, Empty
<1>2. CASE name["drynn.json"]["path"] # NoFile
  <2>1. Fits("drynn.json", loadSession, issued)
    BY <1>2 DEF FilesInv, ContentsFit, loadSession, Read, Path
  <2>2. "drynn.json" # "server.json"
    OBVIOUS
  <2>3. QED
    BY <2>1, <2>2, Kinds DEF Fits
<1>3. QED
  BY <1>1, <1>2

LEMMA UrlIsServer ==
    ASSUME FilesInv, loadSession \in Session,
           NEW flag \in Server \cup {NoServer}, NEW env \in Server \cup {NoServer},
           NEW config \in BOOLEAN, NEW url \in resolveServerURL(flag, config, env)
    PROVE  url \in Server
<1>1. CASE flag # NoServer
  BY <1>1 DEF resolveServerURL
<1>2. CASE flag = NoServer /\ config
  <2>1. mergeFileConfig \subseteq Server \cup {NoServer}
    <3>1. CASE name["server.json"]["path"] = NoFile
      BY <3>1 DEF mergeFileConfig, Read
    <3>2. CASE name["server.json"]["path"] # NoFile
      <4>1. Fits("server.json", Read("server.json"), issued)
        BY <3>2 DEF FilesInv, ContentsFit, Read, Path
      <4>2. Read("server.json") = Truncated \/ Read("server.json") \in Config
        BY <4>1 DEF Fits
      <4>3. QED
        BY <4>2 DEF mergeFileConfig, Config
    <3>3. QED
      BY <3>1, <3>2
  <2>2. url \in LoadPath(env)
    BY <1>2 DEF resolveServerURL
  <2>3. QED
    BY <2>1, <2>2 DEF LoadPath, applyEnvOverrides
<1>3. CASE flag = NoServer /\ ~config
  BY <1>3 DEF resolveServerURL, Session
<1>4. QED
  BY <1>1, <1>2, <1>3

-----------------------------------------------------------------------------
LEMMA ServerKept ==
    ASSUME ServerInv, UNCHANGED <<request, server, told>>
    PROVE  ServerInv'
BY DEF ServerInv, RequestRecord, RequestShape, GameShape, GameID, Gone, server

(* A request is replaced, or its run is told.                              *)
LEMMA RequestStep ==
    ASSUME ServerInv, NEW r \in Runs, NEW new \in RequestRecord,
           request' = [request EXCEPT ![r] = new], UNCHANGED server,
           new.at # "none" => new.to \in Server,
           new.at = "done" /\ new.cmd \notin Game =>
              new.token \in 1..Len(issued) /\ issued[new.token] = new.to,
           new.at = "found" => new.cmd = "delete" /\ new.id \in GameID /\ new.id < nextval[new.to],
           new.at = "done" /\ new.cmd = "delete" => Gone(new.to, new.id, nextval, games),
           told' \subseteq Server \X GameID,
           \A g \in told' : Gone(g[1], g[2], nextval, games)
    PROVE  ServerInv'
<1>1. GameID' = GameID /\ RequestRecord' = RequestRecord
  BY DEF RequestRecord, GameID, server
<1>2. request' \in [Runs -> RequestRecord]
  BY DEF ServerInv
<1>3. request'[r] = new /\ \A q \in Runs \ {r} : request'[q] = request[q]
  BY DEF ServerInv
<1>4. RequestShape'
  <2> SUFFICES ASSUME NEW q \in Runs
               PROVE  /\ request'[q].at # "none" => request'[q].to \in Server
                      /\ request'[q].at = "done" /\ request'[q].cmd \notin Game =>
                            /\ request'[q].token \in 1..Len(issued)
                            /\ issued[request'[q].token] = request'[q].to
                      /\ request'[q].at = "found" =>
                            /\ request'[q].cmd = "delete" /\ request'[q].id \in GameID
                            /\ request'[q].id < nextval[request'[q].to]
                      /\ request'[q].at = "done" /\ request'[q].cmd = "delete" =>
                            Gone(request'[q].to, request'[q].id, nextval, games)
    BY <1>1 DEF RequestShape, Gone, server
  <2>1. CASE q = r
    BY <1>3, <2>1
  <2>2. CASE q # r
    BY <1>3, <2>2 DEF ServerInv, RequestShape
  <2>3. QED
    BY <2>1, <2>2
<1>5. GameShape'
  BY <1>1 DEF ServerInv, GameShape, Gone, server
<1>6. QED
  BY <1>1, <1>2, <1>4, <1>5 DEF ServerInv, server

LEMMA NoRequestType == NoRequest \in RequestRecord /\ NoRequest.at = "none"
BY DEF NoRequest, RequestRecord, Command, Game

(* The request of r goes on to the statement a.                            *)
LEMMA GoesShape ==
    ASSUME ServerInv, NEW r \in Runs,
           NEW a \in {"entitled", "found", "done", "failed"}, Goes(r, a)
    PROVE  LET new == request'[r] IN
           /\ new \in RequestRecord /\ request' = [request EXCEPT ![r] = new]
           /\ new.at = a /\ new.cmd = request[r].cmd /\ new.id = request[r].id
           /\ new.to = request[r].to /\ new.token = request[r].token
<1>1. request[r] \in RequestRecord
  BY DEF ServerInv
<1>2. request' = [request EXCEPT ![r].at = a]
  BY DEF Goes
<1>3. QED
  BY <1>1, <1>2 DEF ServerInv, RequestRecord

LEMMA CommandSends ==
    ASSUME IInv, NEW r \in Runs, NEW cmd \in {"login"} \cup Game,
           NEW id \in {0} \cup GameID, NEW url \in Server, loadSession \in Session,
           Send(r, cmd, id, url)
    PROVE  IInv'
<1> DEFINE new == [NoRun EXCEPT !.at = "waiting", !.cmd = cmd, !.id = id]
           req == [at |-> "sent", cmd |-> cmd, id |-> id, to |-> url,
                   token |-> IF cmd = "login" THEN NoToken ELSE loadSession.AccessToken]
<1>1. /\ run' = [run EXCEPT ![r] = new] /\ request' = [request EXCEPT ![r] = req]
      /\ UNCHANGED <<diskVars, server, told>>
  BY DEF Send
<1>2. cmd \in Command /\ cmd # "init-config"
  BY DEF Command, Game
<1>3. /\ new \in RunRecord /\ new.file = NoFile /\ new.at = "waiting" /\ new.cmd = cmd
      /\ new.id = id
  BY <1>2, Kinds DEF NoRun, RunRecord
<1>4. loadSession.AccessToken \in {NoToken} \cup Token
  BY DEF Session
<1>5. req \in RequestRecord /\ req.at = "sent" /\ req.to \in Server /\ req.cmd = cmd /\ req.id = id
  BY <1>2, <1>4 DEF RequestRecord
<1> HIDE DEF new, req
<1>6. Len(issued) \in Nat
  BY DEF IInv, ServerInv
<1>7. FilesInv'
  BY <1>1, <1>2, <1>3, <1>6, CommandFiles DEF IInv, diskVars, server
<1>8. ServerInv'
  <2>1. told' \subseteq Server \X GameID /\ \A g \in told' : Gone(g[1], g[2], nextval, games)
    BY <1>1 DEF IInv, ServerInv, GameShape
  <2>2. QED
    BY <1>1, <1>5, <2>1, RequestStep DEF IInv
<1>9. OwnRequest'
  BY <1>1, <1>3, <1>5 DEF IInv, OwnRequest, FilesInv, ServerInv
<1>10. QED
  BY <1>7, <1>8, <1>9 DEF IInv

LEMMA LoginInv ==
    ASSUME IInv, NEW r \in Runs, Login(r)
    PROVE  IInv'
<1>1. PICK config \in BOOLEAN, flag \in Named(TRUE), env \in Named(TRUE) :
         /\ loadSession \in Session
         /\ \E url \in resolveServerURL(flag, config, env) : Send(r, "login", 0, url)
  BY DEF Login, Started
<1>2. Named(TRUE) = Server \cup {NoServer}
  BY DEF Named
<1>3. QED
  BY <1>1, <1>2, UrlIsServer, CommandSends DEF IInv

LEMMA GameCommandInv ==
    ASSUME IInv, NEW r \in Runs, GameCommand(r)
    PROVE  IInv'
<1>1. PICK cmd \in Game, id \in {0} \cup GameID, config \in BOOLEAN,
           flag \in Named(bound.named), env \in Named(bound.named) :
         /\ loadSession \in Session
         /\ \E url \in resolveServerURL(flag, config, env) : Send(r, cmd, id, url)
  BY DEF GameCommand, Started
<1>2. Named(bound.named) \subseteq Server \cup {NoServer}
  BY DEF Named
<1>3. QED
  BY <1>1, <1>2, UrlIsServer, CommandSends DEF IInv

(* A run that starts to save: its payload is a good session.               *)
LEMMA LogoutInv ==
    ASSUME IInv, NEW r \in Runs, Logout(r)
    PROVE  IInv'
<1> DEFINE pay == [loadSession EXCEPT !.AccessToken = NoToken]
           new == [NoRun EXCEPT !.at = "saving", !.read = loadSession, !.payload = pay]
<1>1. /\ run' = [run EXCEPT ![r] = new] /\ UNCHANGED <<diskVars, request, server, told>>
      /\ loadSession \in Session
  BY DEF Logout, clearTokens, Started
<1>2. GoodSession(loadSession, issued)
  BY <1>1, SessionIsGood DEF IInv
<1>3. pay \in Session /\ pay.AccessToken = NoToken /\ pay.ServerURL = loadSession.ServerURL
  BY <1>1 DEF Session
<1>4. GoodSession(pay, issued)
  BY <1>2, <1>3 DEF GoodSession, Empty
<1> HIDE DEF pay
<1>5. /\ new \in RunRecord /\ new.file = NoFile /\ new.at = "saving" /\ new.cmd = "logout"
      /\ new.payload = pay
  BY <1>1, <1>3, Kinds DEF NoRun, RunRecord, Command
<1> HIDE DEF new
<1>6. Len(issued) \in Nat
  BY DEF IInv, ServerInv
<1>7. FilesInv'
  BY <1>1, <1>4, <1>5, <1>6, CommandFiles DEF IInv, diskVars, server
<1>8. ServerInv'
  BY <1>1, ServerKept DEF IInv
<1>9. OwnRequest'
  BY <1>1, <1>5 DEF IInv, OwnRequest, FilesInv
<1>10. QED
  BY <1>7, <1>8, <1>9 DEF IInv

LEMMA InitConfigInv ==
    ASSUME IInv, NEW r \in Runs, InitConfig(r)
    PROVE  IInv'
<1>1. PICK url \in Server, force \in BOOLEAN : WritePath(r, url, force)
  BY DEF InitConfig
<1> DEFINE new == [NoRun EXCEPT !.at = "saving", !.cmd = "init-config",
                                !.payload = [base_url |-> url], !.force = force]
<1>2. /\ force \/ name["server.json"]["path"] = NoFile
      /\ run' = [run EXCEPT ![r] = new]
      /\ overlapped' = [overlapped EXCEPT !["server.json"] = @ \/
                           \E q \in Runs : run[q].cmd = "init-config"]
      /\ UNCHANGED <<name, content, saved, request, server, told>>
  BY <1>1 DEF WritePath, Begun, InitConfig
<1>3. [base_url |-> url] \in Config
  BY DEF Config
<1>4. /\ new \in RunRecord /\ new.file = NoFile /\ new.at = "saving"
      /\ new.cmd = "init-config" /\ new.payload \in Config /\ new.force = force
  BY <1>3, Kinds DEF NoRun, RunRecord, Command
<1> HIDE DEF new
<1>5. Len(issued) \in Nat
  BY DEF IInv, ServerInv
<1>6. FilesInv'
  BY <1>2, <1>4, <1>5, CommandFiles DEF IInv, server
<1>7. ServerInv'
  BY <1>2, ServerKept DEF IInv
<1>8. OwnRequest'
  BY <1>2, <1>4 DEF IInv, OwnRequest, FilesInv
<1>9. QED
  BY <1>6, <1>7, <1>8 DEF IInv

(* The answer to a login brings a token of the server that was asked.      *)
LEMMA LoggedInInv ==
    ASSUME IInv, NEW r \in Runs, LoggedIn(r)
    PROVE  IInv'
<1> DEFINE pay == [ServerURL |-> request[r].to, AccessToken |-> request[r].token]
           new == [run[r] EXCEPT !.at = "saving", !.payload = pay]
<1>1. /\ run' = [run EXCEPT ![r] = new] /\ request' = [request EXCEPT ![r] = NoRequest]
      /\ UNCHANGED <<diskVars, server, told>>
      /\ run[r].at = "waiting" /\ run[r].cmd \notin Game /\ request[r].at = "done"
  BY DEF LoggedIn, LoggingIn
<1>2. request[r].cmd = run[r].cmd /\ request[r] \in RequestRecord /\ run[r] \in RunRecord
  BY <1>1 DEF IInv, OwnRequest, ServerInv, FilesInv
<1>3. /\ request[r].to \in Server /\ request[r].token \in 1..Len(issued)
      /\ issued[request[r].token] = request[r].to
  BY <1>1, <1>2 DEF IInv, ServerInv, RequestShape
<1>4. pay \in Session
  BY <1>2, <1>3 DEF Session, RequestRecord
<1>5. GoodSession(pay, issued)
  BY <1>3, <1>4 DEF GoodSession
<1> HIDE DEF pay
<1>6. run[r].cmd # "init-config" /\ run[r].file = NoFile
  BY <1>1 DEF IInv, FilesInv, FilesTypeOK, PayloadsFit, Busy, Saving
<1>7. /\ new \in RunRecord /\ new.file = NoFile /\ new.at = "saving"
      /\ new.cmd # "init-config" /\ new.payload = pay
  BY <1>2, <1>4, <1>6 DEF RunRecord
<1> HIDE DEF new
<1>8. Len(issued) \in Nat
  BY DEF IInv, ServerInv
<1>9. FilesInv'
  BY <1>1, <1>5, <1>7, <1>8, CommandFiles DEF IInv, diskVars, server
<1>10. ServerInv'
  <2>1. told' \subseteq Server \X GameID /\ \A g \in told' : Gone(g[1], g[2], nextval, games)
    BY <1>1 DEF IInv, ServerInv, GameShape
  <2>2. QED
    BY <1>1, <2>1, RequestStep, NoRequestType DEF IInv
<1>11. OwnRequest'
  BY <1>1, <1>7 DEF IInv, OwnRequest, FilesInv, ServerInv
<1>12. QED
  BY <1>9, <1>10, <1>11 DEF IInv

(* A run that says "deleted" has had the answer to its own request.        *)
LEMMA AnsweredInv ==
    ASSUME IInv, NEW r \in Runs, Answered(r)
    PROVE  IInv'
<1>1. /\ run' = [run EXCEPT ![r] = NoRun] /\ request' = [request EXCEPT ![r] = NoRequest]
      /\ UNCHANGED <<diskVars, server>>
      /\ run[r].at = "waiting"
      /\ told' = IF request[r].at = "done" /\ run[r].cmd = "delete"
                 THEN told \cup {<<request[r].to, run[r].id>>} ELSE told
  BY DEF Answered, Ended
<1>2. request[r].cmd = run[r].cmd /\ request[r].id = run[r].id
  BY <1>1 DEF IInv, OwnRequest
<1>3. told \subseteq Server \X GameID /\ \A g \in told : Gone(g[1], g[2], nextval, games)
  BY DEF IInv, ServerInv, GameShape
<1>4. told' \subseteq Server \X GameID /\ \A g \in told' : Gone(g[1], g[2], nextval, games)
  <2>1. CASE request[r].at = "done" /\ run[r].cmd = "delete"
    <3>1. request[r].to \in Server /\ Gone(request[r].to, run[r].id, nextval, games)
      BY <1>2, <2>1 DEF IInv, ServerInv, RequestShape
    <3>2. <<request[r].to, run[r].id>> \in Server \X GameID
      BY <1>2, <3>1 DEF Gone, IInv, ServerInv, RequestRecord
    <3>3. QED
      BY <1>1, <1>3, <2>1, <3>1, <3>2
  <2>2. QED
    BY <1>1, <1>3, <2>1
<1>5. Len(issued) \in Nat
  BY DEF IInv, ServerInv
<1>6. FilesInv'
  BY <1>1, <1>5, NoRunType, CommandFiles DEF IInv, diskVars, server
<1>7. ServerInv'
  BY <1>1, <1>4, RequestStep, NoRequestType DEF IInv
<1>8. OwnRequest'
  BY <1>1, NoRunType DEF IInv, OwnRequest, FilesInv, ServerInv
<1>9. QED
  BY <1>6, <1>7, <1>8 DEF IInv

LEMMA QuitInv ==
    ASSUME IInv, NEW r \in Runs, Quit(r)
    PROVE  IInv'
<1>1. run' = [run EXCEPT ![r] = NoRun] /\ UNCHANGED <<diskVars, request, server, told>>
  BY DEF Quit, Ended
<1>2. Len(issued) \in Nat
  BY DEF IInv, ServerInv
<1>3. FilesInv'
  BY <1>1, <1>2, NoRunType, CommandFiles DEF IInv, diskVars, server
<1>4. ServerInv'
  BY <1>1, ServerKept DEF IInv
<1>5. OwnRequest'
  BY <1>1, NoRunType DEF IInv, OwnRequest, FilesInv
<1>6. QED
  BY <1>3, <1>4, <1>5 DEF IInv

LEMMA AnswerIsLostInv ==
    ASSUME IInv, NEW r \in Runs, AnswerIsLost(r)
    PROVE  IInv'
<1>1. /\ request' = [request EXCEPT ![r] = NoRequest] /\ run[r].at = "ended"
      /\ UNCHANGED <<fileVars, server, told>>
  BY DEF AnswerIsLost
<1>2. FilesInv'
  BY <1>1, FilesKept DEF IInv, ServerInv, IssuedGrows, server
<1>3. ServerInv'
  <2>1. told' \subseteq Server \X GameID /\ \A g \in told' : Gone(g[1], g[2], nextval, games)
    BY <1>1 DEF IInv, ServerInv, GameShape
  <2>2. QED
    BY <1>1, <2>1, RequestStep, NoRequestType DEF IInv
<1>4. OwnRequest'
  BY <1>1 DEF IInv, OwnRequest, ServerInv, fileVars
<1>5. QED
  BY <1>2, <1>3, <1>4 DEF IInv

-----------------------------------------------------------------------------
(* What the server does with a request leaves the files alone, and the     *)
(* request that of its run.                                                *)
LEMMA HandlerStep ==
    ASSUME IInv, NEW r \in Runs, UNCHANGED <<fileVars, bound>>, IssuedGrows, ServerInv',
           NEW new, request' = [request EXCEPT ![r] = new],
           new.at # "none", new.cmd = request[r].cmd, new.id = request[r].id
    PROVE  IInv'
<1>1. FilesInv'
  BY FilesKept DEF IInv
<1>2. request'[r] = new /\ \A q \in Runs \ {r} : request'[q] = request[q]
  BY DEF IInv, ServerInv
<1>3. OwnRequest'
  <2> SUFFICES ASSUME NEW q \in Runs, run'[q].at = "waiting"
               PROVE  /\ request'[q].at # "none" /\ request'[q].cmd = run'[q].cmd
                      /\ request'[q].id = run'[q].id
    BY DEF OwnRequest
  <2>1. run' = run /\ request[q].at # "none" /\ request[q].cmd = run[q].cmd
        /\ request[q].id = run[q].id
    BY DEF IInv, OwnRequest, fileVars
  <2>2. QED
    BY <1>2, <2>1
<1>4. QED
  BY <1>1, <1>3 DEF IInv

LEMMA AuthenticateInv ==
    ASSUME IInv, NEW r \in Runs, Authenticate(r)
    PROVE  IInv'
<1> DEFINE new == [request[r] EXCEPT !.at = "done", !.token = Len(issued) + 1]
<1>1. /\ request[r].at = "sent" /\ request[r].cmd \notin Game
      /\ Len(issued) < bound.logins
      /\ issued' = Append(issued, request[r].to)
      /\ UNCHANGED <<fileVars, games, nextval, bound, told>>
  BY DEF Authenticate
<1>2. request[r] \in RequestRecord /\ request[r].to \in Server /\ issued \in Seq(Server)
  BY <1>1 DEF IInv, ServerInv, RequestShape
<1>3. request' = [request EXCEPT ![r] = new]
  BY <1>2 DEF Authenticate, RequestRecord, IInv, ServerInv
<1>4. /\ issued' \in Seq(Server) /\ Len(issued') = Len(issued) + 1
      /\ \A i \in 1..Len(issued) : issued'[i] = issued[i]
      /\ issued'[Len(issued) + 1] = request[r].to
      /\ Len(issued) \in Nat
  BY <1>1, <1>2
<1>5. Len(issued') <= bound.logins /\ Len(issued) + 1 \in Token
  BY <1>1, <1>4 DEF IInv, ServerInv, Workload, Token
<1>6. /\ new \in RequestRecord /\ new.at = "done" /\ new.token = Len(issued) + 1
      /\ new.cmd = request[r].cmd /\ new.to = request[r].to /\ new.id = request[r].id
  BY <1>2, <1>5 DEF RequestRecord
<1> HIDE DEF new
<1>7. request'[r] = new /\ \A q \in Runs \ {r} : request'[q] = request[q]
  BY <1>3 DEF IInv, ServerInv
<1>8. GameID' = GameID /\ RequestRecord' = RequestRecord
  BY <1>1 DEF RequestRecord, GameID
<1>9. RequestShape'
  <2> SUFFICES ASSUME NEW q \in Runs
               PROVE  /\ request'[q].at # "none" => request'[q].to \in Server
                      /\ request'[q].at = "done" /\ request'[q].cmd \notin Game =>
                            /\ request'[q].token \in 1..Len(issued')
                            /\ issued'[request'[q].token] = request'[q].to
                      /\ request'[q].at = "found" =>
                            /\ request'[q].cmd = "delete" /\ request'[q].id \in GameID
                            /\ request'[q].id < nextval[request'[q].to]
                      /\ request'[q].at = "done" /\ request'[q].cmd = "delete" =>
                            Gone(request'[q].to, request'[q].id, nextval, games)
    BY <1>1, <1>8 DEF RequestShape, Gone
  <2>1. CASE q = r
    BY <1>1, <1>2, <1>4, <1>6, <1>7, <2>1 DEF Game
  <2>2. CASE q # r
    <3>1. request'[q] = request[q]
      BY <1>7, <2>2
    <3>2. /\ request[q].at # "none" => request[q].to \in Server
          /\ request[q].at = "done" /\ request[q].cmd \notin Game =>
                /\ request[q].token \in 1..Len(issued)
                /\ issued[request[q].token] = request[q].to
          /\ request[q].at = "found" =>
                /\ request[q].cmd = "delete" /\ request[q].id \in GameID
                /\ request[q].id < nextval[request[q].to]
          /\ request[q].at = "done" /\ request[q].cmd = "delete" =>
                Gone(request[q].to, request[q].id, nextval, games)
      BY DEF IInv, ServerInv, RequestShape
    <3>3. \A i \in 1..Len(issued) : i \in 1..Len(issued') /\ issued'[i] = issued[i]
      BY <1>4
    <3>4. QED
      BY <3>1, <3>2, <3>3
  <2>3. QED
    BY <2>1, <2>2
<1>10. GameShape'
  BY <1>1, <1>8 DEF IInv, ServerInv, GameShape, Gone
<1>11. ServerInv'
  BY <1>1, <1>3, <1>4, <1>5, <1>6, <1>8, <1>9, <1>10 DEF IInv, ServerInv
<1>12. IssuedGrows
  BY <1>4 DEF IssuedGrows
<1>13. QED
  BY <1>1, <1>3, <1>6, <1>11, <1>12, HandlerStep

(* The steps of a handler that only say how far it is.                     *)
LEMMA GoesInv ==
    ASSUME IInv, NEW r \in Runs, NEW a \in {"entitled", "found", "done", "failed"}, Goes(r, a),
           UNCHANGED <<fileVars, server, told>>, request[r].at # "none",
           a = "found" => /\ request[r].cmd = "delete"
                          /\ request[r].id \in games[request[r].to],
           a = "done" => request[r].cmd = "look"
    PROVE  IInv'
<1> DEFINE new == request'[r]
<1>1. /\ new \in RequestRecord /\ request' = [request EXCEPT ![r] = new]
      /\ new.at = a /\ new.cmd = request[r].cmd /\ new.id = request[r].id
      /\ new.to = request[r].to /\ new.token = request[r].token
  BY GoesShape DEF IInv
<1> HIDE DEF new
<1>2. request[r].to \in Server
  BY DEF IInv, ServerInv, RequestShape
<1>3. a = "found" => request[r].id \in GameID /\ request[r].id < nextval[request[r].to]
  BY <1>2 DEF IInv, ServerInv, GameShape
<1>4. told' \subseteq Server \X GameID /\ \A g \in told' : Gone(g[1], g[2], nextval, games)
  BY DEF IInv, ServerInv, GameShape
<1>5. ServerInv'
  BY <1>1, <1>2, <1>3, <1>4, RequestStep DEF IInv, Game
<1>6. IssuedGrows /\ bound' = bound
  BY DEF IInv, ServerInv, IssuedGrows, server
<1>7. QED
  BY <1>1, <1>5, <1>6, HandlerStep

(* A new game has an id above every other, and the sequence goes on.       *)
LEMMA CreateGameInv ==
    ASSUME IInv, NEW r \in Runs, CreateGame(r)
    PROVE  IInv'
<1> DEFINE s == request[r].to
           n == nextval[s]
           new == request'[r]
<1>1. /\ request[r].at = "entitled" /\ request[r].cmd = "create"
      /\ n \in GameID
      /\ games' = [games EXCEPT ![s] = @ \cup {n}]
      /\ nextval' = [nextval EXCEPT ![s] = n + 1]
      /\ Goes(r, "done")
      /\ UNCHANGED <<fileVars, issued, bound, told>>
  BY DEF CreateGame, Handles, NewID
<1>2. /\ new \in RequestRecord /\ request' = [request EXCEPT ![r] = new]
      /\ new.at = "done" /\ new.cmd = "create" /\ new.id = request[r].id
  BY <1>1, GoesShape DEF IInv
<1>3. /\ s \in Server /\ bound.games \in Nat
      /\ games \in [Server -> SUBSET GameID] /\ nextval \in [Server -> 1..(bound.games + 1)]
  BY <1>1 DEF IInv, ServerInv, RequestShape, Workload
<1> HIDE DEF s, n, new
<1>4. GameID' = GameID /\ RequestRecord' = RequestRecord
  BY <1>1 DEF RequestRecord, GameID
<1>5. /\ games' \in [Server -> SUBSET GameID]
      /\ nextval' \in [Server -> 1..(bound.games + 1)]
      /\ games'[s] = games[s] \cup {n} /\ nextval'[s] = n + 1
      /\ \A t \in Server \ {s} : games'[t] = games[t] /\ nextval'[t] = nextval[t]
  BY <1>1, <1>3 DEF GameID
<1>6. /\ \A t \in Server : nextval[t] \in Nat /\ nextval'[t] \in Nat /\ nextval[t] <= nextval'[t]
      /\ \A t \in Server : \A id \in games'[t] : id \in games[t] \/ (t = s /\ id = n)
      /\ n = nextval[s]
  <2>1. n = nextval[s]
    BY DEF n
  <2>2. \A t \in Server : nextval[t] \in Nat /\ nextval'[t] \in Nat
    BY <1>3, <1>5
  <2>3. \A t \in Server : nextval[t] <= nextval'[t]
    BY <1>3, <1>5, <2>1, <2>2
  <2>4. ASSUME NEW t \in Server, NEW id \in games'[t]
        PROVE  id \in games[t] \/ (t = s /\ id = n)
    <3>1. CASE t = s
      BY <1>5, <2>4, <3>1
    <3>2. CASE t # s
      BY <1>5, <2>4, <3>2
    <3>3. QED
      BY <3>1, <3>2
  <2>5. QED
    BY <2>1, <2>2, <2>3, <2>4
<1>7. ASSUME NEW t \in Server, NEW id, Gone(t, id, nextval, games)
      PROVE  Gone(t, id, nextval', games')
  <2>1. id \in Nat \ {0} /\ id < nextval[t] /\ id \notin games[t]
    BY <1>7 DEF Gone
  <2>2. id < nextval'[t] /\ id \notin games'[t]
    BY <1>6, <2>1
  <2>3. QED
    BY <2>1, <2>2 DEF Gone
<1>8. request'[r] = new /\ \A q \in Runs \ {r} : request'[q] = request[q]
  BY <1>2 DEF IInv, ServerInv
<1>9. RequestShape'
  <2> SUFFICES ASSUME NEW q \in Runs
               PROVE  /\ request'[q].at # "none" => request'[q].to \in Server
                      /\ request'[q].at = "done" /\ request'[q].cmd \notin Game =>
                            /\ request'[q].token \in 1..Len(issued)
                            /\ issued[request'[q].token] = request'[q].to
                      /\ request'[q].at = "found" =>
                            /\ request'[q].cmd = "delete" /\ request'[q].id \in GameID
                            /\ request'[q].id < nextval'[request'[q].to]
                      /\ request'[q].at = "done" /\ request'[q].cmd = "delete" =>
                            Gone(request'[q].to, request'[q].id, nextval', games')
    BY <1>1, <1>4 DEF RequestShape
  <2>1. CASE q = r
    <3>1. new.to = s
      BY <1>1, GoesShape DEF IInv, new, s
    <3>2. QED
      BY <1>2, <1>3, <1>8, <2>1, <3>1 DEF Game
  <2>2. CASE q # r
    <3>1. request'[q] = request[q]
      BY <1>8, <2>2
    <3>2. /\ request[q].at # "none" => request[q].to \in Server
          /\ request[q].at = "done" /\ request[q].cmd \notin Game =>
                /\ request[q].token \in 1..Len(issued)
                /\ issued[request[q].token] = request[q].to
          /\ request[q].at = "found" =>
                /\ request[q].cmd = "delete" /\ request[q].id \in GameID
                /\ request[q].id < nextval[request[q].to]
          /\ request[q].at = "done" /\ request[q].cmd = "delete" =>
                Gone(request[q].to, request[q].id, nextval, games)
      BY DEF IInv, ServerInv, RequestShape
    <3>3. request[q].at = "found" => request[q].id < nextval'[request[q].to]
      BY <1>6, <3>2 DEF GameID
    <3>4. request[q].at = "done" /\ request[q].cmd = "delete" =>
                Gone(request[q].to, request[q].id, nextval', games')
      BY <1>7, <3>2
    <3>5. QED
      BY <3>1, <3>2, <3>3, <3>4
  <2>3. QED
    BY <2>1, <2>2
<1>10. GameShape'
  <2>1. \A t \in Server : \A id \in games'[t] : id < nextval'[t]
    <3> SUFFICES ASSUME NEW t \in Server, NEW id \in games'[t]
                 PROVE  id < nextval'[t]
      OBVIOUS
    <3>1. id \in GameID /\ id \in Nat
      BY <1>5 DEF GameID
    <3>2. CASE t = s /\ id = n
      BY <1>5, <3>1, <3>2
    <3>3. CASE id \in games[t]
      <4>1. id < nextval[t]
        BY <3>3 DEF IInv, ServerInv, GameShape
      <4>2. QED
        BY <1>6, <3>1, <4>1
    <3>4. QED
      BY <1>6, <3>2, <3>3
  <2>2. \A g \in told' : Gone(g[1], g[2], nextval', games')
    <3>1. \A g \in told' : g[1] \in Server /\ Gone(g[1], g[2], nextval, games)
      BY <1>1 DEF IInv, ServerInv, GameShape
    <3>2. QED
      BY <1>7, <3>1
  <2>3. QED
    BY <2>1, <2>2 DEF GameShape
<1>11. ServerInv'
  BY <1>1, <1>2, <1>4, <1>5, <1>9, <1>10 DEF IInv, ServerInv
<1>12. IssuedGrows
  BY <1>1 DEF IssuedGrows, IInv, ServerInv
<1>13. QED
  BY <1>1, <1>2, <1>11, <1>12, HandlerStep

(* A deleted game is gone, and games that were gone still are.             *)
LEMMA DeleteGameInv ==
    ASSUME IInv, NEW r \in Runs, DeleteGame(r)
    PROVE  IInv'
<1> DEFINE s == request[r].to
           d == request[r].id
           new == request'[r]
<1>1. /\ request[r].at = "found"
      /\ games' = [games EXCEPT ![s] = @ \ {d}]
      /\ Goes(r, "done")
      /\ UNCHANGED <<fileVars, issued, nextval, bound, told>>
  BY DEF DeleteGame
<1>2. /\ new \in RequestRecord /\ request' = [request EXCEPT ![r] = new]
      /\ new.at = "done" /\ new.cmd = request[r].cmd /\ new.id = d /\ new.to = s
  BY <1>1, GoesShape DEF IInv
<1>3. /\ s \in Server /\ request[r].cmd = "delete" /\ d \in GameID /\ d < nextval[s]
      /\ games \in [Server -> SUBSET GameID]
  BY <1>1 DEF IInv, ServerInv, RequestShape
<1> HIDE DEF s, d, new
<1>4. GameID' = GameID /\ RequestRecord' = RequestRecord
  BY <1>1 DEF RequestRecord, GameID
<1>5. /\ games' \in [Server -> SUBSET GameID] /\ d \notin games'[s]
      /\ \A t \in Server : games'[t] \subseteq games[t]
  BY <1>1, <1>3
<1>6. \A t \in Server : \A id : Gone(t, id, nextval, games) => Gone(t, id, nextval', games')
  BY <1>1, <1>5 DEF Gone
<1>7. request'[r] = new /\ \A q \in Runs \ {r} : request'[q] = request[q]
  BY <1>2 DEF IInv, ServerInv
<1>8. Gone(s, d, nextval', games')
  BY <1>1, <1>3, <1>5 DEF Gone, GameID
<1>9. RequestShape'
  <2> SUFFICES ASSUME NEW q \in Runs
               PROVE  /\ request'[q].at # "none" => request'[q].to \in Server
                      /\ request'[q].at = "done" /\ request'[q].cmd \notin Game =>
                            /\ request'[q].token \in 1..Len(issued)
                            /\ issued[request'[q].token] = request'[q].to
                      /\ request'[q].at = "found" =>
                            /\ request'[q].cmd = "delete" /\ request'[q].id \in GameID
                            /\ request'[q].id < nextval[request'[q].to]
                      /\ request'[q].at = "done" /\ request'[q].cmd = "delete" =>
                            Gone(request'[q].to, request'[q].id, nextval', games')
    BY <1>1, <1>4 DEF RequestShape
  <2>1. CASE q = r
    BY <1>2, <1>3, <1>7, <1>8, <2>1 DEF Game
  <2>2. CASE q # r
    <3>1. request'[q] = request[q]
      BY <1>7, <2>2
    <3>2. /\ request[q].at # "none" => request[q].to \in Server
          /\ request[q].at = "done" /\ request[q].cmd \notin Game =>
                /\ request[q].token \in 1..Len(issued)
                /\ issued[request[q].token] = request[q].to
          /\ request[q].at = "found" =>
                /\ request[q].cmd = "delete" /\ request[q].id \in GameID
                /\ request[q].id < nextval[request[q].to]
          /\ request[q].at = "done" /\ request[q].cmd = "delete" =>
                Gone(request[q].to, request[q].id, nextval, games)
      BY DEF IInv, ServerInv, RequestShape
    <3>3. request[q].at = "done" /\ request[q].cmd = "delete" =>
                Gone(request[q].to, request[q].id, nextval', games')
      BY <1>6, <3>2
    <3>4. QED
      BY <3>1, <3>2, <3>3
  <2>3. QED
    BY <2>1, <2>2
<1>10. GameShape'
  <2>1. \A g \in told' : Gone(g[1], g[2], nextval', games')
    <3>1. \A g \in told' : g[1] \in Server /\ g[2] \in GameID /\ Gone(g[1], g[2], nextval, games)
      BY <1>1 DEF IInv, ServerInv, GameShape
    <3>2. QED
      BY <1>6, <3>1
  <2>2. \A t \in Server : \A id \in games'[t] : id < nextval'[t]
    BY <1>1, <1>5 DEF IInv, ServerInv, GameShape
  <2>3. QED
    BY <2>1, <2>2 DEF GameShape
<1>11. ServerInv'
  BY <1>1, <1>2, <1>4, <1>5, <1>9, <1>10 DEF IInv, ServerInv
<1>12. IssuedGrows
  BY <1>1 DEF IssuedGrows, IInv, ServerInv
<1>13. QED
  BY <1>1, <1>2, <1>11, <1>12, HandlerStep DEF d

-----------------------------------------------------------------------------
LEMMA InitInv == Init => IInv
<1> SUFFICES ASSUME Init PROVE IInv
  OBVIOUS
<1>1. bound \in Workload
  BY WorkloadAssumption DEF Init
<1>2. bound.games \in Nat /\ bound.logins \in Nat
  BY <1>1 DEF Workload
<1>3. /\ name = [p \in Path |-> [n \in {"path", "tmp"} |-> NoFile]]
      /\ content = [f \in File |-> Truncated]
      /\ run = [r \in Runs |-> NoRun]
      /\ saved = [p \in Path |-> Empty]
      /\ overlapped = [p \in Path |-> FALSE]
  BY DEF Init, FilesInit
<1>4. FilesTypeOK
  BY <1>3, Kinds, NoRunType DEF FilesTypeOK, Content, Saving
<1>5. FilesApart /\ ContentsFit
  BY <1>3, NoRunType DEF FilesApart, ContentsFit, Saving
<1>6. Undisturbed /\ Unforced /\ PayloadsFit
  BY <1>3, NoRunType DEF Undisturbed, SavesAlone, Read, Unforced, PayloadsFit, Busy, Saving
<1>7. FilesInv
  BY <1>3, <1>4, <1>5, <1>6, NoRunType DEF FilesInv
<1>8. /\ request = [r \in Runs |-> NoRequest]
      /\ issued = <<>> /\ told = {}
      /\ games = [s \in Server |-> {}] /\ nextval = [s \in Server |-> 1]
  BY DEF Init
<1>9. issued \in Seq(Server) /\ Len(issued) <= bound.logins
  BY <1>2, <1>8
<1>10. RequestShape /\ GameShape
  BY <1>8, NoRequestType DEF RequestShape, GameShape
<1>11. ServerInv
  BY <1>1, <1>2, <1>8, <1>9, <1>10, NoRequestType DEF ServerInv
<1>12. OwnRequest
  BY <1>3, NoRunType DEF OwnRequest
<1>13. QED
  BY <1>7, <1>11, <1>12 DEF IInv

LEMMA NextInv == IInv /\ [Next]_cliVars => IInv'
<1> SUFFICES ASSUME IInv, [Next]_cliVars PROVE IInv'
  OBVIOUS
<1>1. ASSUME NEW r \in Runs, Save(r), UNCHANGED <<request, server, told>>
      PROVE  IInv'
  <2>1. FilesInv'
    BY <1>1, SaveInv DEF IInv, ServerInv, server
  <2>2. ServerInv'
    BY <1>1, ServerKept DEF IInv
  <2>3. \A q \in Runs : run'[q].at = "waiting" => run'[q] = run[q]
    BY <1>1, NoRunType DEF Save, OpenTmp, WriteTmp, RenameTmp, RenameFails, At, Ended,
       IInv, FilesInv, RunRecord
  <2>4. OwnRequest'
    BY <1>1, <2>3 DEF IInv, OwnRequest
  <2>5. QED
    BY <2>1, <2>2, <2>4 DEF IInv
<1>2. ASSUME NEW r \in Runs, RequireAuth(r) \/ Fail(r) \/ GetGame(r) \/ FindGame(r)
      PROVE  IInv'
  <2>1. CASE RequireAuth(r)
    BY <2>1, GoesInv DEF RequireAuth
  <2>2. CASE Fail(r)
    BY <2>2, GoesInv DEF Fail
  <2>3. CASE GetGame(r)
    BY <2>3, GoesInv DEF GetGame, Handles
  <2>4. CASE FindGame(r)
    BY <2>4, GoesInv DEF FindGame, Handles
  <2>5. QED
    BY <1>2, <2>1, <2>2, <2>3, <2>4
<1>3. CASE UNCHANGED cliVars
  <2>1. IssuedGrows /\ UNCHANGED <<fileVars, bound, request, server, told>>
    BY <1>3 DEF cliVars, server, IssuedGrows, IInv, ServerInv
  <2>2. QED
    BY <2>1, FilesKept, ServerKept DEF IInv, OwnRequest, fileVars
<1>4. QED
  BY <1>1, <1>2, <1>3, LoginInv, LogoutInv, GameCommandInv, InitConfigInv, LoggedInInv,
     AnsweredInv, QuitInv, AnswerIsLostInv, AuthenticateInv, CreateGameInv, DeleteGameInv
     DEF Next

(* The inductive invariant of the command line programs and the games      *)
(* servers they talk to.                                                   *)
THEOREM Invariance == Spec => []IInv
BY InitInv, NextInv, PTL DEF Spec

(* Whichever runs save at once or are killed, a session that can be read   *)
(* holds a token of the very server it names.                              *)
THEOREM TokensStayHome == Spec => []TokenIsOfItsServer
<1>1. IInv => TokenIsOfItsServer
  <2> SUFFICES ASSUME IInv PROVE TokenIsOfItsServer
    OBVIOUS
  <2>1. CLITypeOK
    BY DEF IInv, FilesInv, ServerInv, CLITypeOK, RunRecord, RequestRecord
  <2>2. loadSession \in Session => GoodSession(loadSession, issued)
    BY SessionIsGood DEF IInv
  <2>3. QED
    BY <2>1, <2>2 DEF TokenIsOfItsServer, GoodSession
<1>2. QED
  BY <1>1, Invariance, PTL

(* Unless two runs of saveSession or of WritePath were at a file at once,  *)
(* it holds what was saved there last, whole, whatever runs were killed    *)
(* half way.                                                               *)
THEOREM LastSaveIsRead == Spec => []FilesAreLastSaved
<1>1. IInv => FilesAreLastSaved
  BY DEF IInv, FilesInv, Undisturbed, SavesAlone, FilesAreLastSaved
<1>2. QED
  BY <1>1, Invariance, PTL

(* What a logout is about to save is what it has read, without the token.  *)
LogoutShape == \A r \in Runs : run[r].cmd = "logout" =>
    \/ run[r].at = "ended"
    \/ /\ run[r].at # "waiting"
       /\ run[r].payload = [run[r].read EXCEPT !.AccessToken = NoToken]

(* No command disturbs it: another one sends its request, and only login   *)
(* saves what comes back.                                                  *)
LEMMA LogoutStep == IInv /\ LogoutShape /\ [Next]_cliVars => LogoutShape'
<1> SUFFICES ASSUME IInv, LogoutShape, [Next]_cliVars PROVE LogoutShape'
  OBVIOUS
<1>1. ASSUME NEW r \in Runs, NEW new, run' = [run EXCEPT ![r] = new],
             new.cmd = "logout" =>
                \/ new.at = "ended"
                \/ /\ new.at # "waiting"
                   /\ new.payload = [new.read EXCEPT !.AccessToken = NoToken]
      PROVE  LogoutShape'
  BY <1>1 DEF LogoutShape, IInv, FilesInv
<1>2. ASSUME NEW r \in Runs, run' = [run EXCEPT ![r] = NoRun]
      PROVE  LogoutShape'
  BY <1>1, <1>2, NoRunType
<1>3. ASSUME NEW r \in Runs, Login(r) \/ GameCommand(r)
      PROVE  LogoutShape'
  <2>1. PICK cmd, id :
           /\ cmd \in {"login"} \cup Game
           /\ run' = [run EXCEPT ![r] = [NoRun EXCEPT !.at = "waiting", !.cmd = cmd, !.id = id]]
    BY <1>3 DEF Login, GameCommand, Send
  <2> DEFINE new == [NoRun EXCEPT !.at = "waiting", !.cmd = cmd, !.id = id]
  <2>2. new.cmd # "logout"
    BY <2>1 DEF NoRun, Game
  <2> HIDE DEF new
  <2>3. QED
    BY <1>1, <2>1, <2>2 DEF new
<1>4. ASSUME NEW r \in Runs, Logout(r)
      PROVE  LogoutShape'
  <2> DEFINE new == [NoRun EXCEPT !.at = "saving", !.read = loadSession,
                        !.payload = [loadSession EXCEPT !.AccessToken = NoToken]]
  <2>1. run' = [run EXCEPT ![r] = new]
    BY <1>4 DEF Logout, clearTokens
  <2>2. /\ new.at = "saving" /\ new.read = loadSession
        /\ new.payload = [loadSession EXCEPT !.AccessToken = NoToken]
    BY DEF NoRun
  <2> HIDE DEF new
  <2>3. QED
    BY <1>1, <2>1, <2>2
<1>5. ASSUME NEW r \in Runs, InitConfig(r)
      PROVE  LogoutShape'
  <2>1. PICK url, force : Begun(r, url, force)
    BY <1>5 DEF InitConfig, WritePath
  <2> DEFINE new == [NoRun EXCEPT !.at = "saving", !.cmd = "init-config",
                        !.payload = [base_url |-> url], !.force = force]
  <2>2. run' = [run EXCEPT ![r] = new]
    BY <2>1 DEF Begun
  <2>3. new.cmd # "logout"
    BY DEF NoRun
  <2> HIDE DEF new
  <2>4. QED
    BY <1>1, <2>2, <2>3
<1>6. ASSUME NEW r \in Runs, LoggedIn(r)
      PROVE  LogoutShape'
  <2> DEFINE new == run'[r]
  <2>1. run[r] \in RunRecord /\ run[r].cmd # "logout"
    BY <1>6 DEF LoggedIn, LoggingIn, LogoutShape, IInv, FilesInv
  <2>2. run' = [run EXCEPT ![r] = new] /\ new.cmd = run[r].cmd
    BY <1>6, <2>1 DEF LoggedIn, IInv, FilesInv, RunRecord
  <2> HIDE DEF new
  <2>3. QED
    BY <1>1, <2>1, <2>2
<1>7. ASSUME NEW r \in Runs, OpenTmp(r) \/ WriteTmp(r)
      PROVE  LogoutShape'
  <2> DEFINE new == run'[r]
  <2>1. run[r] \in RunRecord /\ run[r].at \in {"saving", "opened"}
    BY <1>7 DEF OpenTmp, WriteTmp, IInv, FilesInv
  <2>2. /\ run' = [run EXCEPT ![r] = new] /\ new.at \in {"opened", "written"}
        /\ new.cmd = run[r].cmd /\ new.payload = run[r].payload /\ new.read = run[r].read
    BY <1>7, <2>1 DEF OpenTmp, WriteTmp, At, IInv, FilesInv, RunRecord
  <2> HIDE DEF new
  <2>3. QED
    BY <1>1, <2>1, <2>2 DEF LogoutShape
<1>8. ASSUME NEW r \in Runs,
             \/ RenameTmp(r) \/ RenameFails(r) \/ Answered(r) \/ Quit(r)
      PROVE  LogoutShape'
  BY <1>2, <1>8 DEF RenameTmp, RenameFails, Answered, Quit, Ended
<1>9. ASSUME UNCHANGED run
      PROVE  LogoutShape'
  BY <1>9 DEF LogoutShape
<1>10. ASSUME NEW r \in Runs, \/ AnswerIsLost(r) \/ Authenticate(r) \/ RequireAuth(r)
                              \/ Fail(r) \/ CreateGame(r) \/ GetGame(r) \/ FindGame(r)
                              \/ DeleteGame(r)
      PROVE  LogoutShape'
  BY <1>9, <1>10 DEF AnswerIsLost, Authenticate, RequireAuth, Fail, CreateGame, GetGame,
     FindGame, DeleteGame, fileVars
<1>11. QED
  BY <1>3, <1>4, <1>5, <1>6, <1>7, <1>8, <1>9, <1>10 DEF Next, Save, cliVars, fileVars

(* A logout leaves the server that the session names, unless other runs    *)
(* save while it does.                                                     *)
THEOREM LogoutsKeepServers == Spec => LogoutKeepsServer
<1> DEFINE p == "drynn.json"
           Kept == \A r \in Runs :
              /\ run[r].cmd = "logout" /\ run[r].at = "written" /\ run'[r].at = "ended"
              /\ name'[p] # name[p]
              /\ ~overlapped[p] /\ loadSession = run[r].read
              => loadSession' = [loadSession EXCEPT !.AccessToken = NoToken]
<1>1. ASSUME IInv, IInv', LogoutShape, Next, NEW r \in Runs,
             run[r].cmd = "logout", run[r].at = "written", run'[r].at = "ended",
             name'[p] # name[p], ~overlapped[p], loadSession = run[r].read
      PROVE  loadSession' = [loadSession EXCEPT !.AccessToken = NoToken]
  <2>1. PICK q \in Runs : OpenTmp(q) \/ RenameTmp(q)
    <3>1. ASSUME NEW q \in Runs, \/ Login(q) \/ GameCommand(q) \/ Logout(q) \/ InitConfig(q)
                                 \/ LoggedIn(q) \/ Answered(q) \/ Quit(q) \/ AnswerIsLost(q)
                                 \/ WriteTmp(q) \/ RenameFails(q)
          PROVE  UNCHANGED name
      BY <3>1 DEF Login, GameCommand, Send, Logout, InitConfig, WritePath, Begun, LoggedIn,
         Answered, Quit, AnswerIsLost, WriteTmp, RenameFails, diskVars, fileVars
    <3>2. ASSUME NEW q \in Runs, \/ Authenticate(q) \/ RequireAuth(q) \/ Fail(q)
                                 \/ CreateGame(q) \/ GetGame(q) \/ FindGame(q) \/ DeleteGame(q)
          PROVE  UNCHANGED name
      BY <3>2 DEF Authenticate, RequireAuth, Fail, CreateGame, GetGame, FindGame, DeleteGame,
         diskVars, fileVars
    <3>3. QED
      BY <1>1, <3>1, <3>2 DEF Next, Save
  <2>2. run \in [Runs -> RunRecord] /\ p \in Path
    BY <1>1 DEF IInv, FilesInv, Path
  <2>3. RenameTmp(r)
    <3>1. CASE OpenTmp(q)
      <4>1. run'[r].at \in {"opened", "written"}
        BY <1>1, <2>2, <3>1 DEF OpenTmp, RunRecord
      <4>2. QED
        BY <1>1, <4>1
    <3>2. CASE RenameTmp(q) /\ q # r
      <4>1. run'[r] = run[r]
        BY <2>2, <3>2 DEF RenameTmp, Ended
      <4>2. QED
        BY <1>1, <4>1
    <3>3. QED
      BY <2>1, <3>1, <3>2
  <2>4. saved'[p] = run[r].payload /\ ~overlapped'[p]
    <3>1. PathOf(r) = p
      BY <1>1 DEF PathOf
    <3>2. QED
      BY <1>1, <2>2, <2>3, <3>1 DEF RenameTmp, IInv, FilesInv, FilesTypeOK
  <2>5. loadSession' = saved'[p]
    BY <1>1, <2>2, <2>4 DEF IInv, FilesInv, Undisturbed, SavesAlone, loadSession
  <2>6. run[r].payload = [run[r].read EXCEPT !.AccessToken = NoToken]
    BY <1>1 DEF LogoutShape
  <2>7. QED
    BY <1>1, <2>4, <2>5, <2>6
<1>2. IInv /\ IInv' /\ LogoutShape /\ [Next]_cliVars => [Kept]_fileVars
  BY <1>1 DEF cliVars
<1>3. Init => LogoutShape
  BY NoRunType DEF Init, FilesInit, LogoutShape
<1>4. QED
  BY <1>2, <1>3, LogoutStep, Invariance, PTL DEF Spec, LogoutKeepsServer

(* A game that a run has been told is deleted does not come back, and no   *)
(* other game is ever created with its id.                                 *)
THEOREM DeletedGamesStayGone == Spec => []DeletedIsGone
<1>1. IInv => DeletedIsGone
  BY DEF IInv, ServerInv, GameShape, Gone, DeletedIsGone
<1>2. QED
  BY <1>1, Invariance, PTL

(* A configuration that is there is replaced by a forced init-config only, *)
(* unless two runs of init-config were at work at once.                    *)
THEOREM OnlyForceReplaces == Spec => ForceAloneReplaces
<1> DEFINE Forced ==
       /\ name["server.json"]["path"] # NoFile
       /\ Read("server.json")' # Read("server.json")
       /\ ~overlapped["server.json"]
       => \E r \in Runs : run[r].cmd = "init-config" /\ run[r].at = "written" /\ run[r].force
<1>1. ASSUME IInv, Next, name["server.json"]["path"] # NoFile,
             Read("server.json")' # Read("server.json"), ~overlapped["server.json"]
      PROVE  \E r \in Runs : run[r].cmd = "init-config" /\ run[r].at = "written" /\ run[r].force
  <2> DEFINE c == name["server.json"]["path"]
  <2>0. "server.json" \in Path /\ c \in File /\ "server.json" # "drynn.json"
    BY <1>1 DEF IInv, FilesInv, FilesTypeOK, Path
  <2>1. PICK r \in Runs : Save(r)
    <3>1. ASSUME NEW r \in Runs, Login(r) \/ GameCommand(r)
          PROVE  UNCHANGED <<name, content>>
      BY <3>1 DEF Login, GameCommand, Send, diskVars
    <3>2. ASSUME NEW r \in Runs, Logout(r) \/ InitConfig(r) \/ LoggedIn(r) \/ Answered(r)
                                \/ Quit(r) \/ AnswerIsLost(r)
          PROVE  UNCHANGED <<name, content>>
      BY <3>2 DEF Logout, InitConfig, WritePath, Begun, LoggedIn, Answered, Quit,
         AnswerIsLost, diskVars, fileVars
    <3>3. ASSUME NEW r \in Runs, Authenticate(r) \/ RequireAuth(r) \/ Fail(r)
                                \/ CreateGame(r) \/ GetGame(r) \/ FindGame(r) \/ DeleteGame(r)
          PROVE  UNCHANGED <<name, content>>
      BY <3>3 DEF Authenticate, RequireAuth, Fail, CreateGame, GetGame, FindGame, DeleteGame,
         diskVars, fileVars
    <3>4. ~ UNCHANGED <<name, content>>
      BY <1>1 DEF Read
    <3>5. QED
      BY <1>1, <3>1, <3>2, <3>3, <3>4 DEF Next
  <2>2. CASE OpenTmp(r)
    <3>1. \E p \in Path, f \in File :
             /\ name' = [name EXCEPT ![p]["tmp"] = f]
             /\ content' = [content EXCEPT ![f] = Truncated]
             /\ f # c
      <4> DEFINE p == PathOf(r)
                 f == IF name[p]["tmp"] = NoFile THEN NewFile ELSE name[p]["tmp"]
      <4>1. p \in Path
        BY DEF PathOf, Path
      <4>2. f \in File /\ f # c
        BY <1>1, <2>0, <4>1, NewFileIsNew DEF IInv, FilesInv, FilesTypeOK, FilesApart
      <4>3. name' = [name EXCEPT ![p]["tmp"] = f] /\ content' = [content EXCEPT ![f] = Truncated]
        BY <2>2 DEF OpenTmp, Target
      <4> HIDE DEF p, f
      <4>4. QED
        BY <4>1, <4>2, <4>3
    <3>2. name'["server.json"]["path"] = c /\ content'[c] = content[c]
      BY <1>1, <2>0, <3>1 DEF IInv, FilesInv, FilesTypeOK
    <3>3. QED
      BY <1>1, <3>2 DEF Read
  <2>3. CASE WriteTmp(r)
    <3>1. run[r].file # c
      <4>1. Saving(r)
        BY <1>1, <2>3 DEF WriteTmp, IInv, FilesInv, FilesTypeOK
      <4>2. CASE PathOf(r) = "server.json"
        <5>1. run[r].file = name["server.json"]["tmp"]
          BY <1>1, <2>0, <4>1, <4>2 DEF IInv, FilesInv, Undisturbed, SavesAlone
        <5>2. QED
          BY <1>1, <2>0, <5>1 DEF IInv, FilesInv, FilesTypeOK
      <4>3. CASE PathOf(r) # "server.json"
        BY <1>1, <2>0, <4>1, <4>3 DEF IInv, FilesInv, FilesApart
      <4>4. QED
        BY <4>2, <4>3
    <3>2. name' = name /\ content'[c] = content[c]
      BY <1>1, <2>0, <2>3, <3>1 DEF WriteTmp, IInv, FilesInv, FilesTypeOK
    <3>3. QED
      BY <1>1, <3>2 DEF Read
  <2>4. CASE RenameTmp(r)
    <3>1. CASE run[r].cmd = "init-config"
      BY <1>1, <2>4, <3>1 DEF RenameTmp, IInv, FilesInv, Unforced
    <3>2. CASE run[r].cmd # "init-config"
      <4>1. PathOf(r) = "drynn.json" /\ "drynn.json" \in Path
        BY <3>2 DEF PathOf, Path
      <4>2. name["drynn.json"]["path"] # c
        BY <1>1, <2>0, <4>1 DEF IInv, FilesInv, FilesApart
      <4>3. name'["server.json"] = name["server.json"] /\ content'[c] = content[c]
        BY <1>1, <2>0, <2>4, <4>1, <4>2 DEF RenameTmp, IInv, FilesInv, FilesTypeOK
      <4>4. QED
        BY <1>1, <4>3 DEF Read
    <3>3. QED
      BY <3>1, <3>2
  <2>5. CASE RenameFails(r)
    BY <1>1, <2>5 DEF RenameFails, diskVars, Read
  <2>6. QED
    BY <2>1, <2>2, <2>3, <2>4, <2>5 DEF Save
<1>2. IInv /\ [Next]_cliVars => [Forced]_fileVars
  BY <1>1 DEF cliVars
<1>3. QED
  BY <1>2, Invariance, PTL DEF Spec, ForceAloneReplaces
=============================================================================
