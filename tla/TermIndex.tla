------------------------------ MODULE TermIndex ------------------------------
(* What the control room shows of a vignoble's sessions: buildIndex and        *)
(* resolveIssueURL of internal/webterm/gateway.go, aoc webterm-doctor          *)
(* (cmd_webterm.go), which says why a session is or is not shown, and of the   *)
(* responder the listing, the interrupt subject and the output pump.           *)
(* A pinard-agents record is [key, name, vignoble, seen, standalone,           *)
(* parcelle, issue]; seen: its lastSeen is "none", "bad" (does not parse),     *)
(* "stale" (over agentLivenessThreshold) or "fresh"; a deleted key that Keys   *)
(* still lists reads as no record.                                             *)
EXTENDS Naturals, FiniteSets

CONSTANTS MaxBuf, MaxPerTick, MaxMsg, MarkLen   \* of the pump, in bytes

(* Mutant of FromKV: a record of a session that runs here is listed as well.   *)
FromKVAll(v, sessions, rec) ==
    rec.vignoble = v /\ rec.name # "" /\ rec.seen = "fresh"

(* The records buildIndex adds to the sessions tmux lists.                     *)
FromKV(v, sessions, rec) ==
    /\ rec.vignoble = v
    /\ rec.name # "" /\ rec.name \notin sessions
    /\ rec.seen = "fresh"

(* The workers shown: of tmux, all but the conductor; of the bucket, the       *)
(* records above, "remote" if standalone and "unreachable" if not.             *)
Vendangeurs(v, sessions, kv) ==
    {[name |-> s, from |-> "tmux", remote |-> FALSE] : s \in sessions \ {"conductor"}}
        \cup {[name |-> r.name, from |-> r.key, remote |-> r.standalone] :
                r \in {r \in kv : FromKV(v, sessions, r)}}

(* The conductor's windows: the first that is window 0 or is named so is the   *)
(* regisseur, all others are maitres.                                          *)
Regisseur(windows) ==
    LET reg == {w \in windows : w.index = 0 \/ w.named} IN
    {w \in reg : \A u \in reg : w.index <= u.index}
Maitres(windows) == windows \ Regisseur(windows)

(* webtermDoctorCmd, record by record.                                         *)
Verdict(v, sessions, rec) ==
    CASE rec.vignoble # v -> "EXCLUDE"
      [] rec.name = "" -> "EXCLUDE"
      [] rec.name \in sessions -> "LOCAL"
      [] rec.seen # "fresh" -> "EXCLUDE"
      [] OTHER -> "INCLUDE"

(* resolveIssueURL: the record under that key if it has an issue, else the     *)
(* first, in the order Keys gives them, of that name.                          *)
IssueURLs(kv, target) ==
    LET direct == {r \in kv : r.key = target /\ r.issue # ""}
        named == {r \in kv : r.name = target} IN
    IF direct # {} THEN {r.issue : r \in direct}
    ELSE IF named = {} THEN {""} ELSE {r.issue : r \in named}

(* resolveInterruptSubject: any record of that name that has a parcelle, of    *)
(* whatever vignoble.                                                          *)
InterruptParcelles(kv, session) ==
    LET found == {r \in kv : r.name = session /\ r.parcelle # ""} IN
    IF found = {} THEN {""} ELSE {r.parcelle : r \in found}

-----------------------------------------------------------------------------
(* pump: bytes read and not yet published, whether some were dropped since the *)
(* last flush, and the history of dropped bytes and marks.                     *)
EmptyPump == [pending |-> 0, dropped |-> FALSE, lost |-> 0, marks |-> 0]

(* Mutant of PumpRead: old output goes without a word.                         *)
PumpReadSilently(b, n) ==
    IF b.pending + n <= MaxBuf THEN [b EXCEPT !.pending = @ + n]
    ELSE [b EXCEPT !.pending = MaxBuf, !.lost = @ + b.pending + n - MaxBuf]

PumpRead(b, n) ==
    IF b.pending + n <= MaxBuf THEN [b EXCEPT !.pending = @ + n]
    ELSE [b EXCEPT !.pending = MaxBuf, !.dropped = TRUE,
                   !.lost = @ + b.pending + n - MaxBuf]

PumpFlush(b) ==
    LET all == b.pending + IF b.dropped THEN MarkLen ELSE 0 IN
    [b EXCEPT !.pending = IF all > MaxPerTick THEN all - MaxPerTick ELSE 0,
              !.dropped = FALSE,
              !.marks = @ + IF b.dropped THEN 1 ELSE 0]

(* The messages one flush publishes.                                           *)
PumpChunks(b) ==
    LET all == b.pending + IF b.dropped THEN MarkLen ELSE 0
        take == IF all > MaxPerTick THEN MaxPerTick ELSE all IN
    [n \in 1..((take + MaxMsg - 1) \div MaxMsg) |->
        IF n * MaxMsg <= take THEN MaxMsg ELSE take - (n - 1) * MaxMsg]
=============================================================================
