----------------------------- MODULE LabSession -----------------------------
(***************************************************************************)
(* The session in which a change is applied to a lab device                *)
(* (RealLabApplyRunner.execute): the transport is opened, the commands of  *)
(* the plan are sent one after another, each when the answer to the one    *)
(* before it seems complete, until one fails; and what                     *)
(* ExcelLabApplyExecutor._execute_real makes of it.                        *)
(*                                                                         *)
(* Answers are sequences of chunks as in CliReader.  The error mark of a   *)
(* chunk says that an error pattern of the vendor shows with it.           *)
(***************************************************************************)
EXTENDS CliReader

AnswerChunk(endings) == [ends : endings, slow : BOOLEAN, error : BOOLEAN]

\* One read of run_command: Netmiko takes silence for the end of an answer, and
\* Paramiko waits for a prompt.
ReadAnswer(transport, channel, deadline) ==
    LET read == SetupReads(transport, channel, deadline)
        silent == transport = "netmiko" /\ read.chunks = Len(channel) /\ read.chunks < deadline
    IN  [read EXCEPT !.done = @ \/ silent]

Closed == [open |-> FALSE, unread |-> <<>>, sent |-> 0, failed |-> FALSE, raised |-> TRUE]

\* open: a connection that is refused, or a first prompt that does not come, is
\* raised.  Netmiko has dealt with the greeting itself.
Open(transport, accepted, greeting, deadline) ==
    LET first == IF transport = "netmiko" THEN [chunks |-> Len(greeting), done |-> TRUE]
                 ELSE ReadAnswer(transport, greeting, deadline)
    IN  IF ~accepted \/ ~first.done THEN Closed
        ELSE [open |-> TRUE, unread |-> SubSeq(greeting, first.chunks + 1, Len(greeting)),
              sent |-> 0, failed |-> FALSE, raised |-> FALSE]

\* Mutant: the next command follows whatever the answer is.
SendAll(transport, deadline, s, answer) ==
    LET channel == s.unread \o answer
        read    == ReadAnswer(transport, channel, deadline)
        output  == SubSeq(channel, 1, read.chunks)
    IN  [s EXCEPT !.sent   = @ + 1,
                  !.unread = SubSeq(channel, read.chunks + 1, Len(channel)),
                  !.raised = @ \/ (transport = "netmiko" /\ ~read.done),
                  !.failed = @ \/ ~read.done \/ \E i \in DOMAIN output : output[i].error]

\* run_command and the loop around it: nothing follows a command that failed.  What
\* one read leaves behind is the beginning of what the next one finds.
Send(transport, deadline, s, answer) ==
    LET channel == s.unread \o answer
        read    == ReadAnswer(transport, channel, deadline)
        output  == SubSeq(channel, 1, read.chunks)
    IN  IF ~s.open \/ s.failed THEN s
        ELSE [s EXCEPT !.sent   = @ + 1,
                       !.unread = SubSeq(channel, read.chunks + 1, Len(channel)),
                       !.raised = transport = "netmiko" /\ ~read.done,
                       !.failed = ~read.done \/ \E i \in DOMAIN output : output[i].error]

\* RealLabApplyRunner.execute; the transport is closed in every case.
ApplyPlan(transport, accepted, greeting, answers, deadline) ==
    LET send(s, answer) == Send(transport, deadline, s, answer)
    IN  [FoldLeft(send, Open(transport, accepted, greeting, deadline), answers)
            EXCEPT !.open = FALSE]

\* ExcelApplyResult: a session that raised is reported as one without commands.
ApplyResult(session) ==
    [executed |-> ~session.raised /\ ~session.failed,
     commands |-> IF session.raised THEN 0 ELSE session.sent]
=============================================================================
