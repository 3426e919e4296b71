------------------------------- MODULE Server --------------------------------
(***************************************************************************)
(* Connections: one detached thread per client that cuts what it receives  *)
(* into lines, parses them and answers (handleClient in server.c,          *)
(* parseString in parsor.c, getRequest in request.c).                      *)
(*                                                                         *)
(* What a client sends is a sequence of units, words and newlines; sizes   *)
(* are numbers of units.  A buffer holds positions in that sequence, so    *)
(* that a property can say which line was answered.  parseString uses      *)
(* strtok, whose position is one static variable for all threads.  What a  *)
(* request does is left to Engine and Query.                               *)
(***************************************************************************)
EXTENDS Integers, Sequences, FiniteSets

CONSTANTS
    Conns,          \* connections
    NoConn,         \* the position of strtok before its first call
    Script,         \* Script[c]: the units that the client of c sends
    BUFFER_SIZE,    \* units that one recv may return
    INBUF,          \* sizeof(inbuf) - 1
    LINE,           \* sizeof(line) - 1
    Leavers         \* connections whose client may go away early

NL == "newline"

ASSUME ServerAssumption ==
    /\ NoConn \notin Conns /\ Leavers \subseteq Conns
    /\ BUFFER_SIZE \in Nat \ {0} /\ INBUF \in Nat /\ LINE \in Nat \ {0}

ASSUME ScriptAssumption == Script \in [Conns -> Seq(STRING)]

VARIABLES
    alive,      \* the process runs
    conn,       \* the local variables of each handler
    net,        \* units of the script that recv has returned
    gone,       \* the client has closed the connection
    strtokPos,  \* the static position: a connection's copy of its line, next word
    out         \* the replies to each connection

vars == <<alive, conn, net, gone, strtokPos, out>>

\* buf: inbuf[0..inlen); at: line_start - inbuf; span: ghost, the positions of the
\* line before it is cut; line: the copy that is parsed; toks: p->subStrings;
\* ptr: the position that the strtok in progress has loaded; shared: ghost,
\* another parse has run during this one.
NewConn == [pc |-> "new", buf |-> << >>, at |-> 0, span |-> << >>, line |-> << >>, toks |-> << >>,
            ptr |-> [of |-> NoConn, next |-> 1], shared |-> FALSE]

Init ==
    /\ alive = TRUE
    /\ conn = [c \in Conns |-> NewConn]
    /\ net = [c \in Conns |-> 0]
    /\ gone = [c \in Conns |-> FALSE]
    /\ strtokPos = [of |-> NoConn, next |-> 1]
    /\ out = [c \in Conns |-> << >>]

Set(c, r) == conn' = [conn EXCEPT ![c] = r]

-----------------------------------------------------------------------------
(***************************************************************************)
(* Receiving.                                                              *)
(***************************************************************************)

\* accept, and createPthreadForUsers, which closes the socket when it fails.
createPthreadForUsers(c) ==
    /\ alive /\ conn[c].pc = "new"
    /\ \E pc \in {"recv", "closed"} : Set(c, [conn[c] EXCEPT !.pc = pc])
    /\ UNCHANGED <<alive, net, gone, strtokPos, out>>

\* send on a connection whose client has gone may be taken, may fail, or may raise
\* SIGPIPE, which nothing in the server ignores.
Delivered(c, reply) == ~ gone[c] /\ out' = [out EXCEPT ![c] = Append(@, reply)] /\ alive' = alive
Unnoticed(c) == gone[c] /\ out' = out /\ alive' = alive
Killed(c) == gone[c] /\ out' = out /\ alive' = FALSE

\* A send whose result is not looked at.
Send(c, reply) == Delivered(c, reply) \/ Unnoticed(c) \/ Killed(c)

TooLong == [kind |-> "too long"]

Overflows_early(buf, n) == Len(buf) + n >= INBUF - 1     \* mutant: sizeof(inbuf) - 2
Overflows(buf, n) == Len(buf) + n >= INBUF

\* recv returns n units.  If they do not fit, they and all that is buffered are
\* thrown away.
recv(c, n) ==
    /\ alive /\ conn[c].pc = "recv"
    /\ n <= Len(Script[c]) - net[c]
    /\ net' = [net EXCEPT ![c] = @ + n]
    /\ \/ /\ Overflows(conn[c].buf, n)
          /\ Send(c, TooLong)
          /\ Set(c, [conn[c] EXCEPT !.buf = << >>])
       \/ /\ ~ Overflows(conn[c].buf, n)
          /\ Set(c, [conn[c] EXCEPT !.pc = "line", !.at = 0,
                                    !.buf = @ \o [i \in 1 .. n |-> net[c] + i]])
          /\ UNCHANGED <<alive, out>>
    /\ UNCHANGED <<gone, strtokPos>>

recv_end(c) ==
    /\ alive /\ conn[c].pc = "recv" /\ gone[c]
    /\ Set(c, [conn[c] EXCEPT !.pc = "closed"])
    /\ UNCHANGED <<alive, net, gone, strtokPos, out>>

\* The rest of the buffer moves to its front.
Remainder_kept(r) ==            \* mutant: no memmove
    [r EXCEPT !.pc = "recv", !.at = 0, !.buf = SubSeq(@, 1, Len(@) - r.at)]
Remainder(r) == [r EXCEPT !.pc = "recv", !.at = 0, !.buf = SubSeq(@, r.at + 1, Len(@))]

\* The end of the next line, 0 if there is none.
LineEnd(c, r) ==
    LET ends == {i \in r.at + 1 .. Len(r.buf) : Script[c][r.buf[i]] = NL}
    IN IF ends = {} THEN 0 ELSE CHOOSE i \in ends : \A j \in ends : i <= j

\* line_start behind the line.
AfterLine_on(nl) == nl - 1      \* mutant: line_start = nl
AfterLine(nl) == nl

\* The inner loop: take a line, cut to the size of the array, or go back to recv.
next_line(c) ==
    LET r == conn[c]
        nl == LineEnd(c, r)
        span == SubSeq(r.buf, r.at + 1, nl)
    IN /\ alive /\ r.pc = "line"
       /\ \/ nl = 0 /\ Set(c, Remainder(r))
          \/ /\ nl # 0
             /\ Set(c, [r EXCEPT !.pc = "load", !.at = AfterLine(nl), !.span = span, !.toks = << >>,
                                 !.line = IF Len(span) < LINE THEN span ELSE SubSeq(span, 1, LINE),
                                 !.shared = FALSE])
       /\ UNCHANGED <<alive, net, gone, strtokPos, out>>

-----------------------------------------------------------------------------
(***************************************************************************)
(* Parsing.                                                                *)
(***************************************************************************)

\* The words of a line.  Its newline, if it was not cut off, comes last.
Words(c, line) ==
    [k \in {i \in DOMAIN line : \A j \in 1 .. i : Script[c][line[j]] # NL} |-> Script[c][line[k]]]

\* c is between the first strtok of a line and the free of its copy.
Parsing(c) == conn[c].pc \in {"more", "store"}

\* A strtok of c: the parses of other handlers that are under way share the position.
Disturbs(c, r) ==
    conn' = [d \in Conns |->
      IF d = c THEN [r EXCEPT !.shared = @ \/ \E e \in Conns \ {c} : Parsing(e)]
      ELSE [conn[d] EXCEPT !.shared = @ \/ Parsing(d)]]

\* strtok reads where to begin: the copy of the line in the first call, the
\* static position in the others.
First_null(c) == strtokPos                  \* mutant: strtok(NULL) in the first call too
First(c) == [of |-> c, next |-> 1]

strtok_load(c) ==
    LET r == conn[c] IN
    /\ alive /\ r.pc \in {"load", "more"}
    /\ Disturbs(c, [r EXCEPT !.pc = "store", !.ptr = IF r.pc = "load" THEN First(c) ELSE strtokPos])
    /\ UNCHANGED <<alive, net, gone, strtokPos, out>>

\* strtok returns the word there and stores the position behind it, or NULL at the
\* end.  In a copy that another handler also cuts, or has freed, it may meet the
\* end early.
strtok_store(c) ==
    LET r == conn[c]
        own == IF r.ptr.of = NoConn THEN << >> ELSE Words(r.ptr.of, conn[r.ptr.of].line)
    IN /\ alive /\ r.pc = "store"
       /\ \/ /\ r.ptr.next <= Len(own)
             /\ strtokPos' \in {[r.ptr EXCEPT !.next = @ + 1]}
                  \cup (IF r.shared THEN {[r.ptr EXCEPT !.next = Len(own) + 1]} ELSE {})
             /\ Disturbs(c, [r EXCEPT !.pc = "more", !.toks = Append(@, own[r.ptr.next])])
          \/ /\ r.ptr.next > Len(own) \/ r.shared
             /\ strtokPos' = [r.ptr EXCEPT !.next = Len(own) + 1]
             /\ Disturbs(c, [r EXCEPT !.pc = "answer"])
       /\ UNCHANGED <<alive, net, gone, out>>

-----------------------------------------------------------------------------
(***************************************************************************)
(* Answering.                                                              *)
(***************************************************************************)

\* The requests that getRequest makes: command and number of words.
Commands ==
    {<<"PUT", 4>>, <<"GET", 4>>, <<"FLUSH", 2>>, <<"STATS", 2>>, <<"QUIT", 1>>, <<"AGG", 6>>}
getRequest(toks) ==
    IF toks # << >> /\ <<toks[1], Len(toks)>> \in Commands THEN toks[1] ELSE "invalid"

Reply(r) == [kind |-> "reply", span |-> r.span, line |-> r.line, toks |-> r.toks,
             request |-> getRequest(r.toks), shared |-> r.shared]

\* ProcessRequest has returned; its result is sent.  QUIT closes the connection.
\* If send fails the inner loop ends and the thread goes back to recv.
answer(c) ==
    LET r == conn[c]
        request == getRequest(r.toks)
        done == [r EXCEPT !.span = << >>, !.toks = << >>, !.ptr = NewConn.ptr, !.shared = FALSE]
    IN /\ alive /\ r.pc = "answer"
       /\ \/ request = "invalid" /\ Send(c, Reply(r)) /\ Set(c, [done EXCEPT !.pc = "line"])
          \/ request = "QUIT" /\ Send(c, Reply(r)) /\ Set(c, [done EXCEPT !.pc = "closed"])
          \/ /\ request \notin {"invalid", "QUIT"}
             /\ \/ Send(c, Reply(r)) /\ Set(c, [done EXCEPT !.pc = "line"])
                \/ gone[c] /\ Set(c, Remainder(done)) /\ UNCHANGED <<alive, out>>
       /\ UNCHANGED <<net, gone, strtokPos>>

\* The client goes away, at any moment or when it has sent everything.
Disconnect(c) ==
    /\ c \in Leavers /\ ~ gone[c]
    /\ gone' = [gone EXCEPT ![c] = TRUE]
    /\ UNCHANGED <<alive, conn, net, strtokPos, out>>

Handle(c) ==
    \/ \E n \in 1 .. BUFFER_SIZE : recv(c, n)
    \/ recv_end(c) \/ next_line(c) \/ strtok_load(c) \/ strtok_store(c) \/ answer(c)

\* Handlers block in recv until the client sends more.
Waiting ==
    /\ ~ alive \/ \A c \in Conns : conn[c].pc \in {"recv", "closed"}
    /\ UNCHANGED vars

Next ==
    \/ \E c \in Conns : createPthreadForUsers(c) \/ Handle(c) \/ Disconnect(c)
    \/ Waiting

Spec == Init /\ [][Next]_vars

\* Every thread that can run does; the main loop accepts every connection.
FairSpec ==
    Spec /\ \A c \in Conns : WF_vars(createPthreadForUsers(c)) /\ WF_vars(Handle(c))

-----------------------------------------------------------------------------
(***************************************************************************)
(* Properties.                                                             *)
(***************************************************************************)

\* The positions of one line of the client of c, newline included.
IsLine(c, span) ==
    /\ span # << >>
    /\ \A k \in DOMAIN span : span[k] = span[1] + k - 1
    /\ \A k \in DOMAIN span : Script[c][span[k]] = NL <=> k = Len(span)

\* The lines that the client of c sends.
Lines(c) ==
    LET ends == {i \in DOMAIN Script[c] : Script[c][i] = NL}
    IN {span \in {[i \in 1 .. e - b |-> b + i] : b \in ends \cup {0}, e \in ends} : IsLine(c, span)}

Replies(c) == {k \in DOMAIN out[c] : out[c][k].kind = "reply"}
Errors(c) == {k \in DOMAIN out[c] : out[c][k].kind = "too long"}

\* The last position that the replies of c before the k-th have answered.
Answered(c, k) == IF k = 1 THEN 0 ELSE LET span == out[c][k - 1].span IN span[Len(span)]

\* Reply k of a connection answers line k of its client, however recv cuts the
\* stream: the lines are found, kept over a recv and answered one by one, whole,
\* with none left out, as long as no line overflows the buffer.
LinesInOrder ==
    \A c \in Conns : Errors(c) = {} =>
      \A k \in DOMAIN out[c] :
        IsLine(c, out[c][k].span) /\ out[c][k].span[1] = Answered(c, k) + 1

\* The client of c sends n units in a row without a newline.
SendsRun(c, n) ==
    \E b \in 0 .. Len(Script[c]) - n : \A i \in 1 .. n : Script[c][b + i] # NL

\* The replies of c to something that is no line of its client.
Pieces(c) == {k \in Replies(c) : out[c][k].span \notin Lines(c)}

\* Only a line that leaves no room for one more recv can overflow the buffer, and
\* every overflow makes the handler take at most one piece of a line for a line.
OverflowContained ==
    \A c \in Conns :
      /\ Errors(c) # {} => SendsRun(c, INBUF - BUFFER_SIZE)
      /\ Cardinality(Pieces(c)) <= Cardinality(Errors(c))

\* A request is made of the words of its own line, unless the parse of another
\* handler ran at the same time: the static position of strtok is safe from one
\* parse to the next, and lines that come one after the other never mix.
OwnWords ==
    \A c \in Conns : \A k \in Replies(c) :
      LET x == out[c][k] IN ~ x.shared => x.toks = Words(c, x.line)

\* A connection is served to its end, even if parses disturb each other: every
\* parse ends and the handler waits again in recv with no line left, unless a
\* send to a client that went away killed the process.
Served ==
    \A c \in Conns :
      TRUE ~> \/ ~ alive \/ conn[c].pc = "closed"
              \/ conn[c].pc = "recv" /\ net[c] = Len(Script[c]) /\ LineEnd(c, conn[c]) = 0

\* README.md:101: "Multi-threaded client handling" - a request is made of the words
\* of its own line.
WordsNeverMix ==
    \A c \in Conns : \A k \in Replies(c) : out[c][k].toks = Words(c, out[c][k].line)

\* server.c:130 handles a send that fails: a client that goes away does not end
\* the process.
ClientCannotKill == alive
=============================================================================
