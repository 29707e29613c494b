------------------------------- MODULE DebugLog -------------------------------
(***************************************************************************)
(* The way of a log message from a subject to the developer: the subject   *)
(* writes it to its debug channel in fragments (libmudebuglog), the debug  *)
(* server collects the fragments of all channels and prints them with a    *)
(* prefix (Dbg.Buffers), its sink sends them to a device, between them what *)
(* the console says (Dbg.Non_Interfering_Output), and mulog.py or          *)
(* mulog-subject.py puts the printed lines together again.                 *)
(*                                                                         *)
(* A read of a channel is one step here; Muchannel has its interleaving    *)
(* with the writer.  A fragment is a record: the subject, the epoch it was *)
(* written in, its place among all that was written (seq, which the code   *)
(* does not have), its time stamp and whether it ends with a line feed.    *)
(***************************************************************************)
EXTENDS Integers, Sequences, SequencesExt, FiniteSetsExt

CONSTANTS NSubjects,       \* number of log channels
          Elements,        \* fragments a channel can hold
          QueueSize,       \* messages for which the output queue has room
          MaxInputs,       \* bound: starts, resets, time slices, fragments and commands in all
          MaxStarts,       \* bound: times the subjects are started, resets included
          MaxCommands      \* bound: inputs at the console

ASSUME SizesAssumption ==
  NSubjects \in Nat \ {0} /\ Elements \in Nat \ {0} /\ QueueSize \in Nat /\ MaxInputs \in Nat

VARIABLES channel,         \* subject |-> epoch and what was written in it
          buffer,          \* subject |-> Subject_Buffer_Type
          Is_Idle, Last_Subject,
          out,             \* the lines put into the output queue so far
          queue,           \* what is in the output queue, not sent yet
          console,         \* what is in the console's output queue
          Run_State,       \* the queue the sink is sending, "output" or "command"
          device,          \* what was sent
          Schedule_Start,  \* subject |-> TSC_Schedule_Start, the start of its time slice
          writes, commands,
          heard            \* subject |-> the fragments printed, and the gaps before them

server == <<buffer, Is_Idle, Last_Subject, out, queue, heard>>
sink == <<console, Run_State, device>>
inputs == <<Schedule_Start, writes, commands>>
vars == <<channel, server, sink, inputs>>

Subject_Buffer_Range == 1..NSubjects
Null == [time |-> -1]      \* Timestamp_Invalid
Null_Epoch == 0

Initialize_Subject ==
  [Cache |-> Null, Epoch |-> Null_Epoch, RC |-> 0, Message_Incomplete |-> FALSE,
   Overrun_Occurred |-> FALSE, New_Epoch_Occurred |-> FALSE, Enabled |-> TRUE]

\* An entry of a queue, and a line: a mark starts a new line.
Banner == [mark |-> "DBG-LOG>", subject |-> 0, text |-> <<>>]
Idle_Entry == [mark |-> "---", subject |-> 0, text |-> <<>>]
Echo == [mark |-> "none", subject |-> 0, text |-> <<>>]
Prompt == [mark |-> "prompt", subject |-> 0, text |-> <<>>]
Of_Console(e) == e \in {Echo, Prompt}

\* The debug server's banner is the first line.  All buffers are enabled and no channel is
\* named in the override, as in the component's specification.
Init ==
  /\ channel = [s \in Subject_Buffer_Range |-> [Epoch |-> Null_Epoch, data |-> <<>>]]
  /\ buffer = [s \in Subject_Buffer_Range |-> Initialize_Subject]
  /\ Is_Idle = FALSE /\ Last_Subject = 1
  /\ out = <<Banner>> /\ queue = <<Banner>> /\ console = <<>> /\ device = <<>>
  /\ Run_State = "output" /\ writes = 0 /\ commands = 0
  /\ Schedule_Start = [s \in Subject_Buffer_Range |-> 0]
  /\ heard = [s \in Subject_Buffer_Range |-> <<>>]

-----------------------------------------------------------------------------
(* The subjects.                                                           *)

Starts == FoldLeft(LAMBDA n, c : n + c.Epoch, 0, channel)
Slices == FoldLeft(LAMBDA n, t : n + t, 0, Schedule_Start)
MoreInput(n) == Starts + Slices + writes + commands + n <= MaxInputs

\* A subject starts, or is reset: an unfinished message is forgotten.
Start(s) ==
  /\ Starts < MaxStarts /\ MoreInput(1)
  /\ channel' = [channel EXCEPT ![s] = [Epoch |-> @.Epoch + 1, data |-> <<>>]]
  /\ UNCHANGED <<server, sink, inputs>>

\* A fragment is stamped with the start of the subject's time slice: fragments of one
\* slice have the same stamp, and subjects on different CPUs write later with an earlier
\* one.  Of one subject the stamps do not decrease.
Flush(s, lf) ==
  /\ channel[s].Epoch # Null_Epoch
  /\ \E t \in Schedule_Start[s]..MaxInputs :
       /\ MoreInput(1 + t - Schedule_Start[s])
       /\ Schedule_Start' = [Schedule_Start EXCEPT ![s] = t]
       /\ channel' = [channel EXCEPT ![s].data =
            Append(@, [subject |-> s, epoch |-> channel[s].Epoch, seq |-> writes, time |-> t, LF |-> lf])]
  /\ writes' = writes + 1
  /\ UNCHANGED <<server, sink, commands>>

-----------------------------------------------------------------------------
(* The debug server.                                                       *)

Is_Message_Present(b) == b.Cache # Null

\* Muchannel's Read.  A reader that is behind by an epoch starts again with it and
\* reads on in the same call; only an epoch that begins during the call is reported.
Synchronized(b, c) == IF b.Epoch # c.Epoch THEN [b EXCEPT !.Epoch = c.Epoch, !.RC = 0] ELSE b

Read_Result(b, c) ==
  IF c.Epoch = Null_Epoch THEN "inactive"
  ELSE IF b.RC >= Len(c.data) THEN "no_data"
  ELSE IF Len(c.data) > b.RC + Elements THEN "overrun_detected"
  ELSE "success"

\* MUTANT of Update_Message_Buffer: an overrun is not recorded.
Update_Message_Buffer_NoOverrun(b0, c, restarted) ==
  LET b == Synchronized(b0, c)
      r == IF restarted THEN "epoch_changed" ELSE Read_Result(b, c)
  IN  [b EXCEPT !.RC = CASE r = "overrun_detected" -> Len(c.data) [] r = "success" -> @ + 1 [] OTHER -> @,
                !.New_Epoch_Occurred = @ \/ r = "epoch_changed",
                !.Cache = IF r = "success" THEN c.data[b.RC + 1] ELSE Null]

Update_Message_Buffer(b0, c, restarted) ==
  LET b == Synchronized(b0, c)
      r == IF restarted THEN "epoch_changed" ELSE Read_Result(b, c)
  IN  [b EXCEPT !.RC = CASE r = "overrun_detected" -> Len(c.data) [] r = "success" -> @ + 1 [] OTHER -> @,
                !.New_Epoch_Occurred = @ \/ r = "epoch_changed",
                !.Overrun_Occurred = @ \/ r = "overrun_detected",
                !.Cache = IF r = "success" THEN c.data[b.RC + 1] ELSE Null]

\* The subjects in R are reset while the server reads their channels.
Update_Message_Buffers(R) ==
  [s \in Subject_Buffer_Range |->
     IF buffer[s].Enabled /\ ~Is_Message_Present(buffer[s])
     THEN Update_Message_Buffer(buffer[s], channel[s], s \in R) ELSE buffer[s]]

\* Fragment f of s comes before fragment g of t: its stamp is smaller, or s is smaller.
Before(f, s, g, t) == f.time < g.time \/ (f.time = g.time /\ s <= t)

\* MUTANT of Find_Oldest_Message: the subject with the newest message.
Find_Oldest_Message_Newest(b) ==
  CHOOSE s \in {t \in Subject_Buffer_Range : Is_Message_Present(b[t])} :
    \A t \in Subject_Buffer_Range : Is_Message_Present(b[t]) => Before(b[t].Cache, t, b[s].Cache, s)

Find_Oldest_Message(b) ==
  CHOOSE s \in {t \in Subject_Buffer_Range : Is_Message_Present(b[t])} :
    \A t \in Subject_Buffer_Range : Is_Message_Present(b[t]) => Before(b[s].Cache, s, b[t].Cache, t)

\* MUTANT of Bytes_Free: the queue is taken to be full one message too early.
Bytes_Free_Less == Len(queue) + 1 < QueueSize

Bytes_Free == Len(queue) < QueueSize

\* MUTANT of Needs_Prefix: the subject that was printed last is not considered.
Needs_Prefix_NoSubject(b, s) ==
  ~b[s].Message_Incomplete \/ b[s].Overrun_Occurred \/ b[s].New_Epoch_Occurred \/ Is_Idle

\* MUTANT of Needs_Prefix: the idle mark is not considered.
Needs_Prefix_NoIdle(b, s) ==
  ~b[s].Message_Incomplete \/ Last_Subject # s \/ b[s].Overrun_Occurred \/ b[s].New_Epoch_Occurred

Needs_Prefix(b, s) ==
  \/ ~b[s].Message_Incomplete \/ Last_Subject # s
  \/ b[s].Overrun_Occurred \/ b[s].New_Epoch_Occurred \/ Is_Idle

Add_Line_Prefix(b, s) ==
  [mark |-> IF b[s].New_Epoch_Occurred THEN "%" ELSE IF b[s].Overrun_Occurred THEN "#"
            ELSE IF b[s].Message_Incomplete THEN ">" ELSE "|",
   subject |-> s, text |-> <<b[s].Cache>>]

\* What goes into the queue: the rest of a message has no prefix.
Add_Message(b, s) ==
  [mark |-> IF Needs_Prefix(b, s) THEN Add_Line_Prefix(b, s).mark ELSE "none",
   subject |-> s, text |-> <<b[s].Cache>>]

Log_Message(b, s) ==
  /\ out' = IF Needs_Prefix(b, s) THEN Append(out, Add_Line_Prefix(b, s))
                                  ELSE [out EXCEPT ![Len(out)].text = Append(@, b[s].Cache)]
  /\ queue' = Append(queue, Add_Message(b, s))
  /\ buffer' = [b EXCEPT ![s].Message_Incomplete = ~b[s].Cache.LF, ![s].Cache = Null,
                         ![s].Overrun_Occurred = FALSE, ![s].New_Epoch_Occurred = FALSE]
  /\ heard' = [heard EXCEPT ![s] = Append(@, [frag |-> b[s].Cache,
                                              gap |-> b[s].Overrun_Occurred \/ b[s].New_Epoch_Occurred])]
  /\ Last_Subject' = s /\ Is_Idle' = FALSE

Idle_Mark == out' = Append(out, Idle_Entry) /\ queue' = Append(queue, Idle_Entry) /\ Is_Idle' = TRUE

\* One call of Run: the buffers are updated and the oldest message is printed, if
\* the output queue has room for it.  The idle mark is short and may fit into a queue
\* that has no room for a message.
Run(R) ==
  LET b == Update_Message_Buffers(R)
      present == \E s \in Subject_Buffer_Range : Is_Message_Present(b[s])
  IN  \/ present /\ Bytes_Free /\ Log_Message(b, Find_Oldest_Message(b))
      \/ ~present /\ ~Is_Idle /\ Idle_Mark /\ buffer' = b /\ UNCHANGED <<Last_Subject, heard>>
      \/ /\ IF present THEN ~Bytes_Free ELSE Is_Idle \/ ~Bytes_Free
         /\ buffer' = b
         /\ UNCHANGED <<Last_Subject, heard, out, Is_Idle, queue>>

\* A subject whose channel is read at this moment may be reset in between.
Run_Buffers ==
  /\ \E R \in SUBSET {s \in Subject_Buffer_Range : channel[s].Epoch # Null_Epoch
                        /\ buffer[s].Enabled /\ ~Is_Message_Present(buffer[s])} :
       /\ Cardinality(R) + Starts <= MaxStarts /\ MoreInput(Cardinality(R))
       /\ Run(R)
       /\ channel' = [s \in Subject_Buffer_Range |->
            IF s \in R THEN [Epoch |-> channel[s].Epoch + 1, data |-> <<>>] ELSE channel[s]]
  /\ UNCHANGED <<sink, inputs>>

\* One call of Run.  The sink sends the queue it is at, as far as the device takes it, and
\* goes on with the other one only when that is empty: n entries of the output queue and
\* m of the console's.
Run_Sink ==
  /\ \E n \in 0..Len(queue), m \in 0..Len(console) :
       LET done == Run_State = "command" \/ n = Len(queue)
       IN  /\ Run_State = "command" => n = 0
           /\ ~done => m = 0
           /\ Run_State' = IF done /\ m < Len(console) THEN "command" ELSE "output"
           /\ device' = device \o SubSeq(queue, 1, n) \o SubSeq(console, 1, m)
           /\ queue' = SubSeq(queue, n + 1, Len(queue))
           /\ console' = SubSeq(console, m + 1, Len(console))
  /\ UNCHANGED <<channel, buffer, Is_Idle, Last_Subject, out, heard, inputs>>

Input == commands < MaxCommands /\ MoreInput(1) /\ commands' = commands + 1

\* A character is typed and comes back.
Handle_Normal_Input ==
  /\ Input /\ console' = Append(console, Echo)
  /\ UNCHANGED <<channel, server, Run_State, device, Schedule_Start, writes>>

\* A command acts on the buffers of all debug interfaces, and the console it is given at
\* prompts for the next one.
Command ==
  /\ Input /\ console' = Append(console, Prompt)
  /\ UNCHANGED <<channel, Is_Idle, Last_Subject, out, queue, heard, Run_State, device, Schedule_Start, writes>>

Log_Toggle(s) == Command /\ buffer' = [buffer EXCEPT ![s].Enabled = ~@]
Set_All_Log_Buffer_State(e) ==
  Command /\ buffer' = [s \in Subject_Buffer_Range |-> [buffer[s] EXCEPT !.Enabled = e]]
Stream_Reset == Command /\ buffer' = [s \in Subject_Buffer_Range |-> [buffer[s] EXCEPT !.RC = 0]]

Next ==
  \/ \E s \in Subject_Buffer_Range : Start(s) \/ Log_Toggle(s) \/ \E lf \in BOOLEAN : Flush(s, lf)
  \/ Run_Buffers \/ Run_Sink \/ Handle_Normal_Input \/ Stream_Reset \/ \E e \in BOOLEAN : Set_All_Log_Buffer_State(e)

\* The server's main loop runs the buffers and the sinks for ever; the sink sends
\* unless the device does not take data any more.
Safety == Init /\ [][Next]_vars
Spec == Safety /\ WF_vars(Run_Buffers) /\ WF_vars(Run_Sink)

-----------------------------------------------------------------------------
(* The scripts that read the captured log.                                 *)

\* The text printed after the parts at the start of a sequence: a part starts a new line,
\* goes on with the last one, or is skipped.
Printed(parts) ==
  LET upto[k \in 0..Len(parts)] ==
        IF k = 0 THEN <<<<>>>>
        ELSE CASE parts[k].kind = "new"  -> Append(upto[k - 1], parts[k].text)
               [] parts[k].kind = "more" -> [upto[k - 1] EXCEPT ![Len(upto[k - 1])] = @ \o parts[k].text]
               [] OTHER -> upto[k - 1]
  IN  upto
Assemble(parts) == Printed(parts)[Len(parts)]

starts_line(mark) == mark # ">"

\* mulog-subject.py: the lines of one subject, a new line where a message begins.
is_first_line(s, lines, k) == \A j \in 1..(k - 1) : lines[j].subject # s
KindOf(s, lines, k) ==
  IF lines[k].subject # s THEN "skip"
  ELSE IF starts_line(lines[k].mark) /\ ~is_first_line(s, lines, k) THEN "new"
  ELSE "more"
PartsOf(s, lines) == [k \in 1..Len(lines) |-> [kind |-> KindOf(s, lines, k), text |-> lines[k].text]]
mulog_subject(s) == Assemble(PartsOf(s, out))

\* mulog.py: the line to which the continuation at position k is appended, the last
\* one before it that has the subject's prefix with a bar; an exception when 0.
parent(k) == LET js == {j \in 1..(k - 1) : out[j].subject = out[k].subject /\ out[j].mark = "|"}
             IN  IF js = {} THEN 0 ELSE Max(js)

-----------------------------------------------------------------------------
\* The fragments the server got from s, cut after each line feed and at each gap.
Pieces(h) ==
  [j \in 1..Len(h) |->
     [kind |-> IF j > 1 /\ (h[j].gap \/ h[j - 1].frag.LF) THEN "new" ELSE "more",
      text |-> <<h[j].frag>>]]
Lines(h) == Assemble(Pieces(h))

(* mulog-subject.py gives back a subject's messages from what a sink without a console
   shows (shared memory, PC speaker): whatever other subjects print in between, idle
   marks, overruns, resets of the subject and commands given at another sink's console
   included, each line it prints is what the server got from the subject between two line
   feeds or gaps, with all of its fragments and in their order.              *)
Reassembled == \A s \in Subject_Buffer_Range : mulog_subject(s) = Lines(heard[s])

\* Of the first n entries of d, the last that is not the console's is an unfinished
\* fragment of s.
Unfinished(d, n, s) ==
  \E j \in 1..n : /\ d[j].subject = s /\ ~d[j].text[1].LF
                  /\ \A i \in (j + 1)..n : Of_Console(d[i])

(* On a device with a console, too, it can be told whose text is whose: a fragment that is
   sent without a prefix goes on with the unfinished fragment sent before it, and only
   what the console said stands between the two, however the server's queue, its
   console's and the device fall behind each other.                          *)
Attributed ==
  \A k \in DOMAIN device :
    device[k].mark = "none" /\ device[k].subject # 0 => Unfinished(device, k - 1, device[k].subject)

(* The server never puts together, unmarked, two fragments of one epoch between
   which others were lost: where the subject wrote something that is not printed,
   the next fragment starts a line of its own.  (After a stream reset the channel is
   read again from the start, so the fragments need not be new.)             *)
NoSilentGap ==
  \A s \in Subject_Buffer_Range : \A line \in ToSet(mulog_subject(s)) :
    \A j \in 1..(Len(line) - 1) :
      LET f == line[j] g == line[j + 1]
      IN  f.epoch = g.epoch /\ f.epoch = channel[s].Epoch /\ f.seq < g.seq =>
            ~\E x \in ToSet(channel[s].data) : f.seq < x.seq /\ x.seq < g.seq

(* The server prints in the order of the time stamps, as far as it can know: a message is
   printed only when no subject of which it holds a message has one with an earlier stamp,
   neither the one it holds nor any that the subject wrote after it and the server has not
   read yet; where stamps are equal the subject with the smaller number comes first. *)
OldestFirst ==
  [][\A s \in Subject_Buffer_Range :
       heard'[s] # heard[s] =>
         \A t \in Subject_Buffer_Range \ {s} :
           Is_Message_Present(buffer'[t]) =>
             LET f == Last(heard'[s]).frag
                 g == buffer'[t].Cache
             IN  \A x \in {g} \cup {y \in ToSet(channel'[t].data) : y.seq > g.seq} : Before(f, s, x, t)]_vars

(* A message that is in a buffer gets printed, as long as the sink sends: no buffer stays
   occupied.                                                                 *)
MessagePrinted == \A s \in Subject_Buffer_Range : []<>(~Is_Message_Present(buffer[s]))

(* mulog.py: "append line to parent": the line a continuation is appended to is the
   one it continues, the subject's last line that is not a continuation itself.  *)
ParentFound ==
  \A k \in DOMAIN out : out[k].mark = ">" =>
    parent(k) = Max({0} \cup {j \in 1..(k - 1) : out[j].subject = out[k].subject /\ out[j].mark # ">"})

(* doc/shmstream: "Whenever a new epoch is detected, the reader signals the change
   of epoch to the application": what a subject says after a reset is not taken for
   the rest of a message it had begun before.                               *)
EpochsApart ==
  \A s \in Subject_Buffer_Range : \A line \in ToSet(mulog_subject(s)) :
    \A j, k \in DOMAIN line : line[j].epoch = line[k].epoch

(* dbg-non_interfering_output.ads: output "from the output queue and the console are sent
   out in a non-interfering way": from what a device with a console shows, too, the script
   gives back the messages of the subjects.                                 *)
ReassembledOnDevice ==
  LET shown == FoldLeft(LAMBDA lines, e :
                          IF e.mark # "none" \/ lines = <<>> THEN Append(lines, e)
                          ELSE [lines EXCEPT ![Len(lines)].text = @ \o e.text], <<>>, device)
  IN  queue = <<>> =>
        \A s \in Subject_Buffer_Range : Assemble(PartsOf(s, shown)) = Lines(heard[s])
=============================================================================
