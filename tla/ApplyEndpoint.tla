---------------------------- MODULE ApplyEndpoint ----------------------------
(***************************************************************************)
(* endpoint.apply as a whole: ApplyEndpoint stores the endpoint with one of *)
(* three back ends -- the wg-quick file (WGConf), OpenWrt's UCI, or the     *)
(* running interface -- and then reloads the interface.  Every external    *)
(* command is one step; each can fail, and the agent can die between two.  *)
(*                                                                         *)
(* External: UCI keeps changes staged until somebody commits, and a commit *)
(* takes all of them; the interface runs on what it read when it came up,  *)
(* and on what was set while it was up.                                    *)
(***************************************************************************)
EXTENDS WGConf

CONSTANT UciStart   \* what UCI may have at the start: sequences of sections

Section == [key : Key, host : Address, port : Address]

ASSUME ApplyAssumption ==
  \A ss \in UciStart :
    /\ ss \in Seq(Section)
    /\ \A i \in DOMAIN ss : ss[i].host = ss[i].port

VARIABLES
  link,    \* config_type of the commands, and whether they have a reload method
  uci,     \* peer sections: committed, and staged as "uci show" prints them
  live,    \* the interface: up, what it came up with, endpoints set since
  req,     \* the command being applied, or applied last, and where it is
  failed   \* history: peers whose last endpoint.apply was cut short

applyVars == <<vars, link, uci, live, req, failed>>

Unset  == [k \in Key |-> "none"]
Stored == IF link.type = "wg_conf" THEN file ELSE uci.committed
Over   == req.step \in {"idle", "ok", "failed"}
NoReq  == [step |-> "idle", key |-> "", endpoint |-> "", section |-> 0]

ApplyInit ==
  /\ \/ /\ link \in [type : {"wg_conf"}, reload : BOOLEAN]
        /\ Init
        /\ uci = [committed |-> <<>>, staged |-> <<>>]
     \/ /\ link \in [type : {"openwrt_uci", "runtime"}, reload : BOOLEAN]
        /\ Init /\ file = Blank
        /\ \E ss \in UciStart : uci = [committed |-> ss, staged |-> ss]
  /\ live = [up |-> TRUE, base |-> Stored, set |-> Unset]
  /\ req = NoReq
  /\ failed = {}

\* Mutant of AfterStore: an endpoint that was in place needs no reload.
AfterChange(changed) == IF link.reload /\ changed THEN "reload" ELSE "ok"

\* ReloadMethod is looked at whatever the back end reported.
AfterStore(changed) == IF link.reload THEN "reload" ELSE "ok"

\* Where a command goes next: "ok" and "failed" are what is reported of it.
Goes(r) ==
  /\ req' = r
  /\ failed' = CASE r.step = "ok"     -> failed \ {r.key}
                 [] r.step = "failed" -> failed \cup {r.key}
                 [] OTHER             -> failed

Go(s) == Goes([req EXCEPT !.step = s])

Begin(t, k, e, s, i) ==
  /\ link.type = t /\ Over
  /\ Goes([step |-> s, key |-> k, endpoint |-> e, section |-> i])
  /\ UNCHANGED <<link, uci>>

\* An error before anything was changed.
Refuse(t) ==
  /\ link.type = t /\ Over
  /\ req' = NoReq
  /\ UNCHANGED <<link, uci, failed>>

(***************************************************************************)
(* The wg-quick file.                                                      *)
(***************************************************************************)
ApplyWGConf(k, e) ==
  /\ \/ UpdateWGConf(k, e) /\ Begin("wg_conf", k, e, "store", 0)
     \/ /\ InPlace(file, k, e)
        /\ Begin("wg_conf", k, e, AfterStore(FALSE), 0)
        /\ UNCHANGED vars
     \/ /\ Sections(file.lines, k) = {}
        /\ Refuse("wg_conf")
        /\ UNCHANGED vars
  /\ UNCHANGED live

Store ==
  /\ req.step = "store"
  /\ \/ (WriteBackup \/ OpenFile) /\ UNCHANGED <<req, failed>>
     \/ WriteFile /\ Go(AfterStore(TRUE))
     \/ Crash /\ Go("failed")
  /\ UNCHANGED <<link, uci, live>>

(***************************************************************************)
(* UCI: the first section of the peer that "uci show" prints.              *)
(***************************************************************************)
\* Mutant of FindPeerSections: sections are counted from zero.
FindPeerSectionsFromZero(ss, k) == {i - 1 : i \in {j \in DOMAIN ss : ss[j].key = k}}

FindPeerSections(ss, k) == {i \in DOMAIN ss : ss[i].key = k}

UpdateOpenWrtUCI(k, e) ==
  /\ LET is == FindPeerSections(uci.staged, k) IN
     IF is # {} THEN Begin("openwrt_uci", k, e, "host", Min(is))
                ELSE Refuse("openwrt_uci")
  /\ UNCHANGED <<vars, live>>

\* Mutant of NextUci: the host is committed before the port is set.
NextUciCommit ==
  [host |-> "commit", commit |-> "port", port |-> AfterStore(TRUE)]

NextUci == [host |-> "port", port |-> "commit", commit |-> AfterStore(TRUE)]

RunUci ==
  /\ req.step \in {"host", "port", "commit"}
  /\ uci' = CASE req.step = "host" -> [uci EXCEPT !.staged[req.section].host = req.endpoint]
              [] req.step = "port" -> [uci EXCEPT !.staged[req.section].port = req.endpoint]
              [] OTHER             -> [uci EXCEPT !.committed = uci.staged]
  /\ Go(NextUci[req.step])
  /\ UNCHANGED <<vars, link, live>>

(***************************************************************************)
(* The running interface, and its reload.                                  *)
(***************************************************************************)
WGSetEndpoint(k, e) ==
  /\ \/ live.up /\ Begin("runtime", k, e, AfterStore(TRUE), 0)
        /\ live' = [live EXCEPT !.set[k] = e]
     \/ ~live.up /\ Refuse("runtime") /\ UNCHANGED live
  /\ UNCHANGED vars

ReloadInterface ==
  /\ req.step = "reload"
  /\ live' = [up |-> TRUE, base |-> Stored, set |-> Unset]
  /\ Go("ok")
  /\ UNCHANGED <<vars, link, uci>>

(***************************************************************************)
(* A command fails, or the agent dies before it runs it; a reload may have *)
(* taken the interface down by then.  To die after a command is to die     *)
(* before the next.                                                        *)
(***************************************************************************)
Fail ==
  /\ req.step \in {"host", "port", "commit", "reload"}
  /\ crashes < MaxCrashes
  /\ crashes' = crashes + 1
  /\ live' \in {live} \cup
       (IF req.step = "reload" THEN {[live EXCEPT !.up = FALSE, !.set = Unset]} ELSE {})
  /\ Go("failed")
  /\ UNCHANGED <<file, backups, step, job, link, uci>>

\* The machine restarts: what was staged is gone, the interface reads its
\* configuration.
Reboot ==
  /\ Over
  /\ crashes < MaxCrashes
  /\ crashes' = crashes + 1
  /\ uci' = [uci EXCEPT !.staged = uci.committed]
  /\ live' = [up |-> TRUE, base |-> Stored, set |-> Unset]
  /\ req' = NoReq
  /\ UNCHANGED <<file, backups, step, job, link, failed>>

ApplyNext ==
  \/ \E k \in Key, e \in Address :
       ApplyWGConf(k, e) \/ UpdateOpenWrtUCI(k, e) \/ WGSetEndpoint(k, e)
  \/ Store \/ RunUci \/ ReloadInterface \/ Fail \/ Reboot

ApplySpec == ApplyInit /\ [][ApplyNext]_applyVars
-----------------------------------------------------------------------------
(***************************************************************************)
(* Properties.                                                             *)
(***************************************************************************)

\* Types; an "uci set" names a section that exists.
TypeOK ==
  /\ link \in [type : {"wg_conf", "openwrt_uci", "runtime"}, reload : BOOLEAN]
  /\ uci \in [committed : Seq(Section), staged : Seq(Section)]
  /\ live = [up |-> live.up, base |-> live.base, set |-> live.set]
  /\ live.up \in BOOLEAN /\ live.set \in [Key -> Address \cup {"none"}]
  /\ req \in [step : {"idle", "ok", "failed", "store", "host", "port", "commit", "reload"},
              key : Key \cup {""}, endpoint : Address \cup {""}, section : Nat]
  /\ ~Over => req.key \in Key /\ req.endpoint \in Address
  /\ req.step \in {"host", "port", "commit"} => req.section \in DOMAIN uci.staged
  /\ failed \subseteq Key
  /\ crashes \in Nat

\* What a successful endpoint.apply stored.
Kept(k, e) ==
  CASE link.type = "wg_conf" -> InPlace(file, k, e)
    [] link.type = "openwrt_uci" ->
         \E i \in FindPeerSections(uci.committed, k) :
           /\ \A j \in FindPeerSections(uci.committed, k) : i <= j
           /\ uci.committed[i].host = e /\ uci.committed[i].port = e
    [] OTHER -> live.set[k] = e

\* An endpoint.apply that reports success has stored the endpoint, and the
\* interface is up and runs on it -- also when an earlier attempt stored it and
\* died, or failed to reload (ApplyEndpoint).  A "runtime" endpoint does not
\* outlive a reload: for that combination nothing is claimed.
AppliedIsInEffect ==
  req.step = "ok" /\ ~(link.type = "runtime" /\ link.reload) =>
    /\ Kept(req.key, req.endpoint)
    /\ link.reload => live.up /\ live.base = Stored

\* Host and port of a committed section come from one endpoint.apply, unless the
\* last endpoint.apply of that peer was cut short: an attempt that ends between
\* the two "uci set" leaves one staged for the commit of another peer, and the
\* next success of its own repairs it (UpdateOpenWrtUCI).
HalvesAreFailures ==
  \A i \in DOMAIN uci.committed :
    uci.committed[i].host = uci.committed[i].port \/ uci.committed[i].key \in failed
=============================================================================
