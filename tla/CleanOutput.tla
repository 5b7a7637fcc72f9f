---------------------------- MODULE CleanOutput ----------------------------
(***************************************************************************)
(* What is stored of the output of a backup command (clean_backup_output): *)
(* paging markers, blank lines that repeat, the echo of the command and    *)
(* the prompt at the end are taken out, so that two backups of the same    *)
(* configuration have the same hash.                                       *)
(*                                                                         *)
(* A line is one of the kinds that the code tells apart, or a name for any *)
(* other text.  After an "erased" marker the device has overwritten the    *)
(* line; without the marker and control characters it is blank.            *)
(***************************************************************************)
EXTENDS SequencesExt

CONSTANT PromptLines  \* lines that look like a prompt and nothing else

\* strip_paging_markers, and _normalize_terminal_text for the lines it leaves.
StripMarkers(lines) ==
    LET keep(kept, line) ==
            IF line = "marker" THEN kept
            ELSE Append(kept, IF line = "erased" THEN "blank" ELSE line)
    IN  FoldLeft(keep, <<>>, lines)

TrimEnd(lines) ==
    SubSeq(lines, 1, Max({0} \cup {i \in DOMAIN lines : lines[i] # "blank"}))

\* _normalize_backup_lines
SingleBlanks(lines) ==
    LET keep(kept, line) ==
            IF line = "blank" /\ (kept = <<>> \/ kept[Len(kept)] = "blank") THEN kept
            ELSE Append(kept, line)
    IN  TrimEnd(FoldLeft(keep, <<>>, lines))

\* _strip_command_echo: only the first line that is not blank is looked at.
StripEcho(lines) ==
    LET first == SelectInSeq(lines, LAMBDA line : line # "blank")
    IN  IF first # 0 /\ lines[first] = "echo" THEN RemoveAt(lines, first) ELSE lines

\* Mutant: a line of the configuration that looks like a prompt goes with it.
StripPrompts(lines) ==
    TrimEnd(SubSeq(lines, 1, Max({0} \cup {i \in DOMAIN lines : lines[i] \notin PromptLines})))

\* _strip_final_prompt_line
StripPrompt(lines) ==
    LET trimmed == TrimEnd(lines) IN
    IF trimmed # <<>> /\ trimmed[Len(trimmed)] \in PromptLines THEN TrimEnd(Front(trimmed))
    ELSE trimmed

\* clean_backup_output
Clean(lines) == StripPrompt(StripEcho(SingleBlanks(StripMarkers(lines))))
=============================================================================
