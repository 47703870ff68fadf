------------------------------ MODULE BootTest ------------------------------
(***************************************************************************)
(* utils/test_minimal_system.py: a dialog with a machine on its console.   *)
(* One task reads the console in chunks, a timer cancels the task, and the *)
(* process group of the machine is killed at the end.                      *)
(*                                                                         *)
(* The console is a sequence of tokens: a newline, the two halves of a     *)
(* marker, which a chunk may separate, the two bytes of a character that   *)
(* is not ASCII, and so the search of await_line can be modelled as it is. *)
(* The machine is external: it prints a prompt, waits for the reply, and   *)
(* prints other things in between, even a marker.                          *)
(***************************************************************************)
EXTENDS Integers, Sequences, FiniteSetsExt

CONSTANTS Prompts,     \* the dialog has this many prompts and one reply less
          Impatient,   \* prompts the machine prints without waiting for the reply before
          Chatter,     \* what else it prints, sequences of tokens
          MaxChatter,  \* bound on how often it does
          BufferSize   \* tokens in a chunk

Token == {"newline", "head", "tail", "first byte", "second byte"} \X Nat

ASSUME DialogAssumption == /\ Prompts \in Nat \ {0} /\ Impatient \subseteq 2 .. Prompts
                           /\ Chatter \subseteq Seq(Token)
                           /\ MaxChatter \in Nat /\ BufferSize \in Nat \ {0}

VARIABLES console,  \* all that was printed; the task has read test.read tokens of it
          machine,  \* ends[k]: where prompt k ends in it; got: replies it took;
                    \* typed: replies it has not taken yet
          group,    \* the processes alive, and whether the leader was waited for
          test, timer,
          past      \* history: flushed, dropped, missed

vars == <<console, machine, group, test, timer, past>>

Newline   == <<"newline", 0>>
First     == <<"first byte", 0>>
Second    == <<"second byte", 0>>
Marker(k) == << <<"head", k>>, <<"tail", k>> >>

(* marker in line; line.decode("utf-8"); buf.split(b'\n').                 *)
Starts(k, text)  == {i \in 1 .. Len(text) - 1 : SubSeq(text, i, i + 1) = Marker(k)}
Decodable(line)  ==
    /\ \A i \in DOMAIN line : line[i] = First => i < Len(line) /\ line[i + 1] = Second
    /\ \A i \in DOMAIN line : line[i] = Second => i > 1 /\ line[i - 1] = First

(* The lines of a text, each under the position of what it follows.        *)
Newlines(text) == {i \in DOMAIN text : text[i] = Newline}
Lines(text) ==
    [c \in {0} \cup Newlines(text) |->
        SubSeq(text, c + 1, Min({d \in Newlines(text) \cup {Len(text) + 1} : c < d}) - 1)]

Init ==
    /\ console = <<>>
    /\ machine = [ends |-> <<>>, got |-> 0, typed |-> 0, chatter |-> 0]
    /\ group \in [alive : {{"leader"}, {"leader", "child"}}, reaped : {FALSE}]
    /\ test = [pc |-> "reading", at |-> 1, buf |-> <<>>, read |-> 0, from |-> 0,
               success |-> FALSE, status |-> 1]
    /\ timer = "armed"
    /\ past = [flushed |-> FALSE, dropped |-> FALSE, missed |-> FALSE]

Running == test.pc # "ended"
Asked   == Len(machine.ends)
Quiet   == Asked = Prompts \/ (machine.got < Asked /\ machine.typed = 0)
-----------------------------------------------------------------------------
(* login throws away what was typed before its prompt.                     *)
Prompt ==
    /\ Running /\ group.alive # {} /\ Asked < Prompts
    /\ machine.got = Asked \/ Asked + 1 \in Impatient
    /\ console' = console \o Marker(Asked + 1)
    /\ \E flush \in BOOLEAN :
          /\ machine' = [machine EXCEPT !.ends = Append(@, Len(console')), !.got = Asked,
                                        !.typed = IF flush THEN 0 ELSE @]
          /\ past' = [past EXCEPT !.flushed = @ \/ (flush /\ machine.typed > 0)]
    /\ UNCHANGED <<group, test, timer>>

TakeReply ==
    /\ Running /\ group.alive # {} /\ machine.got < Asked /\ machine.typed > 0
    /\ machine' = [machine EXCEPT !.got = @ + 1, !.typed = @ - 1]
    /\ UNCHANGED <<console, group, test, timer, past>>

Say ==
    /\ Running /\ group.alive # {} /\ machine.chatter < MaxChatter
    /\ \E text \in Chatter : console' = console \o text
    /\ machine' = [machine EXCEPT !.chatter = @ + 1]
    /\ UNCHANGED <<group, test, timer, past>>

(* A process ends by itself or is killed by somebody else.                 *)
Dies ==
    /\ Running
    /\ \E p \in group.alive : group' = [group EXCEPT !.alive = @ \ {p}]
    /\ UNCHANGED <<console, machine, test, timer, past>>

(* The event loop's child watcher waits for the leader.                    *)
Reap ==
    /\ Running /\ "leader" \notin group.alive /\ ~ group.reaped
    /\ group' = [group EXCEPT !.reaped = TRUE]
    /\ UNCHANGED <<console, machine, test, timer, past>>
-----------------------------------------------------------------------------
KillLeader ==    \* mutation of KillGroup: process.kill()
    /\ group' = [group EXCEPT !.alive = @ \ {"leader"}]
    /\ past'  = past

(* os.killpg(os.getpgid(pid)): the group of a leader that was waited for   *)
(* is not found, whatever is left of it.                                   *)
KillGroup ==
    IF group.reaped
    THEN /\ group' = group
         /\ past'  = [past EXCEPT !.missed = @ \/ group.alive # {}]
    ELSE /\ group' = [group EXCEPT !.alive = {}]
         /\ past'  = past

(* The decision of await_line on its buffer: the first line that has the   *)
(* marker is the answer, or, if it cannot be decoded, the end of the loop. *)
Answers(lines, k) ==
    LET having == {c \in DOMAIN lines : Starts(k, lines[c]) # {}}
    IN  having # {} /\ Decodable(lines[Min(having)])

NextBufEmpty(lines) == <<>>    \* mutation of NextBuf: a cut line is forgotten

NextBuf(lines) == lines[Max(DOMAIN lines)]

(* A chunk arrives that does not complete the answer.                      *)
ReadOn(size, lines) ==
    /\ ~ Answers(lines, test.at)
    /\ test' = [test EXCEPT !.buf = NextBuf(lines), !.read = @ + size]
    /\ UNCHANGED <<machine, group, past>>

(* The answer: await_line returns, what else it had read is gone, and the  *)
(* reply is written.                                                       *)
Reply(size, lines) ==
    /\ Answers(lines, test.at) /\ test.at < Prompts
    /\ test' = [test EXCEPT !.buf = <<>>, !.read = @ + size, !.from = test.read + size,
                            !.at = @ + 1]
    /\ machine' = [machine EXCEPT !.typed = @ + 1]
    /\ past' = [past EXCEPT !.dropped = \/ @
                                        \/ /\ Asked > test.at
                                           /\ machine.ends[test.at + 1] - 1 <= test.read + size]
    /\ UNCHANGED group

(* The last answer: "Test successful", and no await before the kill.       *)
Succeed(size, lines) ==
    /\ Answers(lines, test.at) /\ test.at = Prompts
    /\ test' = [test EXCEPT !.pc = "communicate", !.read = @ + size, !.success = TRUE]
    /\ KillGroup
    /\ UNCHANGED machine

Read ==
    /\ test.pc = "reading"
    /\ \E size \in 1 .. BufferSize :
          /\ test.read + size <= Len(console)
          /\ LET lines == Lines(test.buf \o SubSeq(console, test.read + 1, test.read + size))
             IN  ReadOn(size, lines) \/ Reply(size, lines) \/ Succeed(size, lines)
    /\ UNCHANGED <<console, timer>>

AtEof == group.alive = {} /\ test.read = Len(console)

ReadEofIgnored ==    \* mutation of ReadEof: no assertion on the prompt
    /\ test.pc = "reading" /\ AtEof
    /\ test' = [test EXCEPT !.pc = "communicate", !.success = TRUE]
    /\ KillGroup
    /\ UNCHANGED <<console, machine, timer>>

(* await_line returns None: the assertion fails and ends the script.       *)
ReadEof ==
    /\ test.pc = "reading" /\ AtEof
    /\ test' = [test EXCEPT !.pc = "ended"]
    /\ KillGroup
    /\ UNCHANGED <<console, machine, timer>>

(* communicate and wait: the console is read to its end, so that everyone  *)
(* who could write to it is gone, and the leader was waited for.           *)
Communicate ==
    /\ test.pc = "communicate" /\ group.alive = {} /\ group.reaped
    /\ test' = [test EXCEPT !.pc = "ended", !.read = Len(console),
                            !.status = IF test.success THEN 0 ELSE 1]
    /\ UNCHANGED <<console, machine, group, timer, past>>

(* fail_timeout, once: the task is cancelled where it waits.  The dialog   *)
(* catches that and kills the group; communicate and wait do not, and the  *)
(* script ends with the exception.                                         *)
FailTimeout ==
    /\ Running /\ timer = "armed"
    /\ timer' = "fired"
    /\ \/ /\ test.pc = "reading"
          /\ test' = [test EXCEPT !.pc = "communicate"]
          /\ KillGroup
       \/ /\ test.pc = "communicate"
          /\ test' = [test EXCEPT !.pc = "ended"]
          /\ UNCHANGED <<group, past>>
    /\ UNCHANGED <<console, machine>>

Ended == ~ Running /\ UNCHANGED vars

Next == \/ Prompt \/ TakeReply \/ Say \/ Dies \/ Reap
        \/ Read \/ ReadEof \/ Communicate \/ FailTimeout \/ Ended
Spec == Init /\ [][Next]_vars

(* The event loop runs; nothing is assumed of the machine.                 *)
FairSpec == /\ Spec /\ WF_vars(Read) /\ WF_vars(ReadEof) /\ WF_vars(Communicate)
            /\ WF_vars(Reap) /\ WF_vars(FailTimeout)
-----------------------------------------------------------------------------
Shown == \E at \in [1 .. Prompts -> DOMAIN console] :
            /\ \A k \in 1 .. Prompts : at[k] \in Starts(k, console)
            /\ \A k \in 2 .. Prompts : at[k - 1] < at[k]

(* The status of the script (main, 184-186) is 0 only if the console       *)
(* showed every prompt of the dialog, in its order, however it was cut     *)
(* into chunks.  "Test successful" (line 151) and a status of 1 go         *)
(* together only if the timer fires while the killed processes are waited  *)
(* for.                                                                    *)
ZeroMeansDialog ==
    /\ test.success => Shown
    /\ test.pc = "ended" => (test.status = 0 <=> test.success /\ timer = "armed")

Unreadable ==
    LET lines == Lines(SubSeq(console, test.from + 1, Len(console)))
    IN  \E c \in DOMAIN lines : Starts(test.at, lines[c]) # {} /\ ~ Decodable(lines[c])

(* The task and the machine do not wait for each other: a prompt is found  *)
(* however it is cut (await_line, 115-131), though what was read with the  *)
(* line before it is dropped.  The three cases in which they do are a      *)
(* prompt in a line that is not UTF-8, a reply that was typed too early,   *)
(* after a line that only looked like the prompt, and thrown away, and a   *)
(* machine that did not wait for the reply before.                         *)
WaitsOnlyWhereKnown ==
    test.pc = "reading" /\ group.alive # {} /\ test.read = Len(console) /\ Quiet /\ Asked > 0 =>
        Unreadable \/ past.flushed \/ past.dropped

(* The script ends, whatever the machine does, and leaves none of its      *)
(* processes (156-164), unless the leader was gone and waited for before   *)
(* the rest of its group was to be killed, and the rest then outlives the  *)
(* timer: if it was the timer that came for them, the script waits as long *)
(* as they live, and otherwise it ends and they stay.                      *)
EndsInTime == <>(\/ ~ Running /\ group.alive = {}
                 \/ timer = "fired" /\ past.missed)
=============================================================================
