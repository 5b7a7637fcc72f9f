----------------------------- MODULE CliReader ------------------------------
(***************************************************************************)
(* How LabBackupRunner collects a configuration over a terminal channel    *)
(* (real_lab_apply_runner): a setup command whose result is not looked at, *)
(* then the backup command, read until something looks like a prompt and   *)
(* with a key sent for every page.                                         *)
(*                                                                         *)
(* What a device sends is a sequence of chunks, as recv returns them.  All *)
(* that the readers see of a chunk is how the text received so far ends    *)
(* after it: in the prompt, in a paging marker, in a line that looks like  *)
(* a prompt ("#" between the sections of a configuration), or otherwise.   *)
(* They look for a marker anywhere in that text; here it has one only at   *)
(* its end, that is, no line of the configuration contains such a text.    *)
(* A slow chunk is followed by a pause.  The chunks that one command is    *)
(* answered with are all sent at some time, a page after the key for it.   *)
(***************************************************************************)
EXTENDS SequencesExt

CONSTANTS
    MaxPages,  \* max_pages
    MaxBytes   \* max_bytes, in chunks

ASSUME CliReaderAssumption == MaxPages \in Nat /\ MaxBytes \in Nat

Transports == {"paramiko", "netmiko"}
Endings == {"text", "lookalike", "marker", "prompt"}
Chunks(command, endings) == [of : {command}, ends : endings, slow : BOOLEAN]

\* prompt_regex_for_decision(...).search finds a prompt at the end.
LooksLikePrompt(chunk) == chunk.ends \in {"lookalike", "prompt"}

\* The device waits: for a key, or for a command.
Waits(chunk) == chunk.ends \in {"marker", "prompt"}

\* A read returns after this chunk: Paramiko's at a prompt, Netmiko's
\* (send_command_timing) when nothing more comes for a while.
Returns(transport, chunk) ==
    IF transport = "paramiko" THEN LooksLikePrompt(chunk) ELSE chunk.slow \/ Waits(chunk)

-----------------------------------------------------------------------------
(* A setup command: run_command                                            *)

\* How many chunks are read before the command returns or is timed out, when
\* the deadline passes after that many chunks.
SetupReads(transport, channel, deadline) ==
    LET read(n, chunk) == IF n.done \/ n.chunks = deadline THEN n
                          ELSE [chunks |-> n.chunks + 1, done |-> Returns(transport, chunk)]
    IN  FoldLeft(read, [chunks |-> 0, done |-> FALSE], channel)

-----------------------------------------------------------------------------
(* The backup command: _read_backup_until_prompt_with_pager and            *)
(* _continue_paged_backup_result                                           *)

Start == [state |-> "reading", read |-> 0, keys |-> 0]

\* Mutant: the last page is not waited for.
ContinueTooFar(s) == [s EXCEPT !.state = IF s.keys + 1 >= MaxPages THEN "complete" ELSE @,
                               !.keys = @ + 1]

\* A marker is answered with a key, but for max_pages of them.
Continue(s) == IF s.keys + 1 > MaxPages THEN [s EXCEPT !.state = "failed"]
               ELSE [s EXCEPT !.keys = @ + 1]

\* The reader's state after one more chunk.  Netmiko's reader asks for a prompt
\* only if it has seen a marker.
Take(transport, s, chunk) ==
    LET t == [s EXCEPT !.read = @ + 1] IN
    IF t.read > MaxBytes THEN [t EXCEPT !.state = "failed"]
    ELSE IF chunk.ends = "marker" THEN Continue(t)
    ELSE IF Returns(transport, chunk)
         THEN [t EXCEPT !.state = IF t.keys > 0 => LooksLikePrompt(chunk)
                                  THEN "complete" ELSE "failed"]
    ELSE t

\* The chunks read as the output of the backup command, when the deadline
\* passes after that many of them; a reader still reading then has failed.
ReadBackup(transport, channel, deadline) ==
    LET step(s, chunk) == IF s.state # "reading" \/ s.read = deadline THEN s
                          ELSE Take(transport, s, chunk)
    IN  FoldLeft(step, Start, channel)

\* _collect: what a setup command has left unread is the beginning of what the
\* backup command finds.  A marker in the answer of the setup command is refused;
\* a timeout is an exception of Netmiko, but a result nobody looks at of Paramiko.
\* To Netmiko no answer at all is a complete one.
Collect(transport, setup, reply, setupDeadline, deadline) ==
    LET first   == SetupReads(transport, setup, setupDeadline)
        n       == first.chunks
        channel == SubSeq(setup, n + 1, Len(setup)) \o reply
        final   == ReadBackup(transport, channel, deadline)
        silent  == transport = "netmiko" /\ channel = <<>> /\ deadline > 0
        refused == \/ \E i \in 1 .. n : setup[i].ends = "marker"
                   \/ transport = "netmiko" /\ ~first.done
    IN  [success |-> ~refused /\ (final.state = "complete" \/ silent),
         output  |-> IF refused THEN <<>> ELSE SubSeq(channel, 1, final.read),
         keys    |-> IF refused THEN 0 ELSE final.keys]
=============================================================================
