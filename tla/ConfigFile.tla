----------------------------- MODULE ConfigFile -----------------------------
(***************************************************************************)
(* The client's configuration file and SaveServerURL, which rewrites it    *)
(* when the server announces a new URL (internal/config/config.go).  The   *)
(* file is read, truncated and written line by line at the writer's own    *)
(* offset, without a lock: a step is one of these system calls.  Lines are *)
(* of one length, so that an offset is a line number.                      *)
(***************************************************************************)
EXTENDS Naturals, Sequences

CONSTANTS
  Savers,    \* the goroutines that may call SaveServerURL
  Original   \* the file as it was installed, with the lines "url" and "token"

Lines == {"url", "new url", "token", "comment", "hole"}
Steps == {"none", "read", "truncate", "write"}

ASSUME FileAssumption == Original \in Seq(Lines \ {"hole", "new url"})

VARIABLES
  file,    \* its lines
  saving,  \* where each saver is in SaveServerURL
  copy,    \* the lines it is to write
  written  \* how many of them it has written

fileVars == <<file, saving, copy, written>>

FileTypeOK ==
  /\ file \in Seq(Lines) /\ saving \in [Savers -> Steps]
  /\ copy \in [Savers -> Seq(Lines)] /\ written \in [Savers -> Nat]

FileInit ==
  /\ file = Original
  /\ saving = [s \in Savers |-> "none"]
  /\ copy = [s \in Savers |-> <<>>] /\ written = [s \in Savers |-> 0]

ForgetSavers ==
  /\ saving' = [s \in Savers |-> "none"]
  /\ copy' = [s \in Savers |-> <<>>] /\ written' = [s \in Savers |-> 0]

IsUrl(line) == line \in {"url", "new url"}

(* The lines read, with every URL line replaced, or one added at the end.  *)
Rewritten(f) ==
  LET g == [i \in DOMAIN f |-> IF IsUrl(f[i]) THEN "new url" ELSE f[i]]
  IN IF \E i \in DOMAIN f : IsUrl(f[i]) THEN g ELSE Append(f, "new url")

(* A write past the end leaves a hole. *)
WriteAt(f, n, line) ==
  [i \in 1..(IF n > Len(f) THEN n ELSE Len(f)) |->
     IF i = n THEN line ELSE IF i <= Len(f) THEN f[i] ELSE "hole"]

CallSave(s) == saving' = [saving EXCEPT ![s] = "read"] /\ UNCHANGED <<file, copy, written>>

ReadFile(s) ==
  /\ saving[s] = "read"
  /\ copy' = [copy EXCEPT ![s] = Rewritten(file)]
  /\ saving' = [saving EXCEPT ![s] = "truncate"]
  /\ UNCHANGED <<file, written>>

Truncate(s) ==
  /\ saving[s] = "truncate"
  /\ file' = <<>>
  /\ written' = [written EXCEPT ![s] = 0]
  /\ saving' = [saving EXCEPT ![s] = "write"]
  /\ UNCHANGED copy

WriteLine(s) ==
  /\ saving[s] = "write" /\ written[s] < Len(copy[s])
  /\ written' = [written EXCEPT ![s] = @ + 1]
  /\ file' = WriteAt(file, written[s] + 1, copy[s][written[s] + 1])
  /\ UNCHANGED <<saving, copy>>

Save(s) == ReadFile(s) \/ Truncate(s) \/ WriteLine(s)

Saved(s) == saving[s] = "write" /\ written[s] = Len(copy[s])

(* SaveServerURL returns without an error, or with one, the file untouched *)
(* (the URL is refused, the file cannot be opened).                        *)
SaveReturns(s) ==
  /\ saving[s] = "read" \/ Saved(s)
  /\ saving' = [saving EXCEPT ![s] = "none"] /\ copy' = [copy EXCEPT ![s] = <<>>]
  /\ UNCHANGED <<file, written>>
=============================================================================
