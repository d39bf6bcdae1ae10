------------------------------- MODULE WGConf -------------------------------
(***************************************************************************)
(* endpoint.apply on a wg-quick file: UpdateWGConf finds the peer, replaces *)
(* or inserts its Endpoint line, writes a backup and then the file.  The   *)
(* file is written in place, so the process can die with it cut short; the *)
(* backup of every update has a name of its own.                           *)
(*                                                                         *)
(* A line is what the code makes of it: a header, a key and its value, or  *)
(* anything else.  nl tells whether the last line ends in a newline.       *)
(***************************************************************************)
EXTENDS Integers, Sequences, FiniteSetsExt, SequencesExt

CONSTANTS Key, Address,   \* public keys; endpoints, as strings
          Start,          \* contents the file may have at the start
          MaxCrashes      \* bound on crashes

Line == [kind : {"peer", "section", "key", "endpoint", "other"}, value : STRING]

ASSUME WGConfAssumption ==
  /\ Key \cup Address \subseteq STRING
  /\ Start \subseteq [lines : Seq(Line), nl : BOOLEAN]
  /\ MaxCrashes \in Nat

VARIABLES
  file,      \* what is in the configuration file
  backups,   \* what is in the backup files
  step,      \* "idle" or "crashed" (between updates), "prepared" (the new
             \* contents are in memory), "backed" or "opened"
  job,       \* the update under way or done last: peer, endpoint, new contents
  crashes

vars == <<file, backups, step, job, crashes>>

PeerHeader    == [kind |-> "peer", value |-> ""]
OtherHeader   == [kind |-> "section", value |-> ""]
OtherLine     == [kind |-> "other", value |-> ""]
PublicKey(k)  == [kind |-> "key", value |-> k]
Endpoint(e)   == [kind |-> "endpoint", value |-> e]

(***************************************************************************)
(* The scan.                                                               *)
(***************************************************************************)
Headers(ls)  == {i \in DOMAIN ls : ls[i].kind \in {"peer", "section"}}

\* The first line after the section whose header is line p.
After(ls, p) == Min({i \in Headers(ls) : i > p} \cup {Len(ls) + 1})
Body(ls, p)  == (p + 1) .. (After(ls, p) - 1)

KeyLines(ls, p, k) == {i \in Body(ls, p) : ls[i] = PublicKey(k)}

\* Headers of the sections of peer k: the scan stops at the end of the first.
Sections(ls, k) == {p \in Headers(ls) : ls[p].kind = "peer" /\ KeyLines(ls, p, k) # {}}

\* Mutant of EndpointLines: the end of the section is not noticed.
EndpointLinesBelow(ls, p, k) ==
  {i \in p .. Len(ls) : ls[i].kind = "endpoint" /\ \E j \in KeyLines(ls, p, k) : j < i}

\* Endpoint lines that follow the key: the last of them is replaced.
EndpointLines(ls, p, k) ==
  {i \in Body(ls, p) : ls[i].kind = "endpoint" /\ \E j \in KeyLines(ls, p, k) : j < i}

\* Mutant of Put: the new line goes right behind the header.
PutFirst(f, p, k, e) ==
  [f EXCEPT !.lines = InsertAt(f.lines, p + 1, Endpoint(e))]

\* A line put at the end continues the last line when that has no newline.
Put(f, p, k, e) ==
  LET ls == f.lines
      es == EndpointLines(ls, p, k)
  IN
  IF es # {} THEN [lines |-> [ls EXCEPT ![Max(es)] = Endpoint(e)],
                   nl |-> f.nl \/ Max(es) = Len(ls)]
  ELSE IF f.nl \/ After(ls, p) <= Len(ls)
    THEN [f EXCEPT !.lines = InsertAt(ls, After(ls, p), Endpoint(e))]
  ELSE [lines |-> [ls EXCEPT ![Len(ls)].value = @ \o "Endpoint = " \o e], nl |-> TRUE]

UpToDate(f, p, k, e) ==
  LET es == EndpointLines(f.lines, p, k) IN
  es # {} /\ f.lines[Max(es)] = Endpoint(e)

\* "endpoint already up to date"
InPlace(f, k, e) ==
  Sections(f.lines, k) # {} /\ UpToDate(f, Min(Sections(f.lines, k)), k, e)

(***************************************************************************)
(* The update, one write at a time.                                        *)
(***************************************************************************)
Blank == [lines |-> <<>>, nl |-> TRUE]
NoJob == [key |-> "", endpoint |-> "", old |-> Blank, new |-> Blank]

Init ==
  /\ file \in Start
  /\ backups = {}
  /\ step = "idle"
  /\ job = NoJob
  /\ crashes = 0

\* The file is read and scanned.  A missing peer is an error, an endpoint that
\* is in place needs no write: the file stays as it is.
UpdateWGConf(k, e) ==
  /\ step \in {"idle", "crashed"}
  /\ Sections(file.lines, k) # {}
  /\ LET p == Min(Sections(file.lines, k)) IN
     /\ ~UpToDate(file, p, k, e)
     /\ job' = [key |-> k, endpoint |-> e, old |-> file, new |-> Put(file, p, k, e)]
  /\ step' = "prepared"
  /\ UNCHANGED <<file, backups, crashes>>

\* Mutant of WriteBackup: the new contents are backed up.
WriteBackupOfNew ==
  /\ step = "prepared"
  /\ step' = "backed"
  /\ backups' = backups \cup {job.new}
  /\ UNCHANGED <<file, job, crashes>>

WriteBackup ==
  /\ step = "prepared"
  /\ step' = "backed"
  /\ backups' = backups \cup {job.old}
  /\ UNCHANGED <<file, job, crashes>>

\* os.WriteFile truncates the file before it writes.
OpenFile ==
  /\ step = "backed"
  /\ step' = "opened"
  /\ file' = Blank
  /\ UNCHANGED <<backups, job, crashes>>

WriteFile ==
  /\ step = "opened"
  /\ step' = "idle"
  /\ file' = job.new
  /\ UNCHANGED <<backups, job, crashes>>

\* The agent dies; of a write under way any number of whole lines may be in the
\* file.
Crash ==
  /\ step \in {"prepared", "backed", "opened"}
  /\ crashes < MaxCrashes
  /\ crashes' = crashes + 1
  /\ step' = "crashed"
  /\ \/ UNCHANGED file
     \/ step = "opened" /\ \E i \in 1 .. Len(job.new.lines) :
          file' = [lines |-> SubSeq(job.new.lines, 1, i), nl |-> TRUE]
  /\ UNCHANGED <<backups, job>>

Next ==
  \/ \E k \in Key, e \in Address : UpdateWGConf(k, e)
  \/ WriteBackup \/ OpenFile \/ WriteFile \/ Crash

Spec == Init /\ [][Next]_vars
-----------------------------------------------------------------------------
(***************************************************************************)
(* Properties.                                                             *)
(***************************************************************************)

\* What WireGuard reads (external) of the section whose header is line p: its keys
\* and its last endpoint.
KeysAt(ls, p)        == {ls[i].value : i \in {j \in Body(ls, p) : ls[j].kind = "key"}}
EndpointsAt(ls, p)   == {i \in Body(ls, p) : ls[i].kind = "endpoint"}
EndpointOf(ls, p)    == IF EndpointsAt(ls, p) = {} THEN "none"
                        ELSE ls[Max(EndpointsAt(ls, p))].value

\* Where line i is after lines were put in at line at.
Moved(i, at, more) == IF i < at THEN i ELSE i + more

\* From old to new, one endpoint line has changed or has come in; every other line
\* is kept, and no section but the first of peer k reads differently.
ChangesEndpoint(old, new, k, e, at) ==
  LET place(i) == Moved(i, at, Len(new) - Len(old)) IN
  /\ new[at] = Endpoint(e)
  /\ \/ Len(new) = Len(old) + 1
     \/ Len(new) = Len(old) /\ old[at].kind = "endpoint"
  /\ \A i \in DOMAIN old : place(i) # at => new[place(i)] = old[i]
  /\ \A p \in Headers(old) : old[p].kind = "peer" =>
       /\ KeysAt(new, place(p)) = KeysAt(old, p)
       /\ EndpointOf(new, place(p)) =
            IF p = Min(Sections(old, k)) THEN e ELSE EndpointOf(old, p)

\* An update changes the endpoint of the first section of its peer, and nothing
\* else of what WireGuard reads (UpdateWGConf).
EndpointTakesEffect ==
  [][WriteFile => \E at \in DOMAIN file'.lines :
       ChangesEndpoint(job.old.lines, file'.lines, job.key, job.endpoint, at)]_vars

\* A second endpoint.apply with the same endpoint finds it in place: the agent
\* does not pile up lines or backups when the mapping has not changed.
RepeatChangesNothing ==
  step = "idle" /\ job.key # "" => InPlace(file, job.key, job.endpoint)

\* Whenever the agent dies, the configuration from before the update is in the
\* file or in a backup (UpdateWGConf).
OldIsKept == job.key # "" => job.old \in backups \cup {file}
=============================================================================
