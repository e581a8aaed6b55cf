----------------------------- MODULE MCPrograms ------------------------------
(* The small programs that stand alone, one at a time: each starts where it   *)
(* starts in the repository and the others do not move.                        *)
EXTENDS Fetchall, Mux, Counter, Highlight, UnionFind, ArrayList, Listener, Queue,
        MCAlgorithms

VARIABLE program

programVars ==
  <<program, fetchVars, muxVars, counterVars, highlightVars, ufVars, listVars,
    listenerVars, vars, callVars>>

\* Two pages of different hosts, one on a port of its own, and a name that does not
\* resolve.
TwoHosts ==
  <<<<"a", "/">>, <<"http", ":", "/", "/", "b", ":", "8080", "/", "q">>, <<"c", "/">>>>
Resolving == {<<"a">>, <<"b">>}
Services == {<<<<"a">>, <<"80">>>>, <<<<"b">>, <<"8080">>>>, <<<<"b">>, <<"80">>>>}
LastThread == {3}
ThreeVals == {1, 2, 3}

\* Every text of up to three characters, and longer ones of the characters that
\* comments, quotes and directives are made of.
UpTo(n, S) == UNION {[1..k -> S] : k \in 0..n}
Sources ==
  {s \in UpTo(3, Chars)
           \cup UpTo(7, {"/", "*", "x"})
           \cup UpTo(5, {"\"", "'", "\\", "\n", "/"})
           \cup UpTo(5, {"#", "include", "<", ">", " "}) : RunsApart(s)}

Alone(name) == program = name
ProgramsInit ==
  /\ program \in {"fetchall", "mux", "var", "highlight", "unionfind", "arraylist",
                "listener", "queue", "functions"}
  /\ FetchInit /\ MuxInit /\ CounterInit /\ UF_init /\ ArrayList_new /\ ListenerInit
  /\ Init
  /\ HighlightInit /\ (program = "highlight" \/ text = <<>>)
  /\ IF program = "functions" THEN AlgorithmsInit
     ELSE call = NoCall /\ answered = FALSE /\ reply = NoCall

RunFetch == Alone("fetchall") /\ FetchNext
  /\ UNCHANGED <<program, muxVars, counterVars, highlightVars, ufVars,
                 listVars, listenerVars, vars, callVars>>
RunMux == Alone("mux") /\ MuxNext
  /\ UNCHANGED <<program, fetchVars, counterVars, highlightVars, ufVars,
                 listVars, listenerVars, vars, callVars>>
RunCounter == Alone("var") /\ CounterNext
  /\ UNCHANGED <<program, fetchVars, muxVars, highlightVars, ufVars,
                 listVars, listenerVars, vars, callVars>>
RunHighlight == Alone("highlight") /\ HighlightNext
  /\ UNCHANGED <<program, fetchVars, muxVars, counterVars, ufVars,
                 listVars, listenerVars, vars, callVars>>
RunUnions == Alone("unionfind") /\ UFNext
  /\ UNCHANGED <<program, fetchVars, muxVars, counterVars, highlightVars,
                 listVars, listenerVars, vars, callVars>>
RunList == Alone("arraylist") /\ ListNext
  /\ UNCHANGED <<program, fetchVars, muxVars, counterVars, highlightVars,
                 ufVars, listenerVars, vars, callVars>>
RunListener == Alone("listener") /\ ListenerNext
  /\ UNCHANGED <<program, fetchVars, muxVars, counterVars, highlightVars,
                 ufVars, listVars, vars, callVars>>
RunQueue == Alone("queue") /\ Next
  /\ UNCHANGED <<program, fetchVars, muxVars, counterVars, highlightVars,
                 ufVars, listVars, listenerVars, callVars>>
RunFunctions == Alone("functions") /\ AlgorithmsNext
  /\ UNCHANGED <<program, fetchVars, muxVars, counterVars, highlightVars,
                 ufVars, listVars, listenerVars, vars>>

ProgramsNext ==
  \/ RunFetch \/ RunMux \/ RunCounter \/ RunHighlight
  \/ RunUnions \/ RunList \/ RunListener \/ RunQueue \/ RunFunctions

\* The kernel runs every thread that can move; a program with one thread runs on, and
\* a call of the queue to its end.
ProgramsSpec ==
  /\ ProgramsInit /\ [][ProgramsNext]_programVars
  /\ WF_programVars(RunFetch /\ FetchMain)
  /\ \A i \in Jobs : WF_programVars(RunFetch /\ Fetch(i))
  /\ WF_programVars(RunMux /\ MainMux)
  /\ \A w \in Workers : WF_programVars(RunMux /\ Worker(w))
  /\ WF_programVars(RunCounter /\ MainCounter)
  /\ \A t \in Adders : WF_programVars(RunCounter /\ Adder(t))
  /\ WF_programVars(RunHighlight)
  /\ WF_programVars(RunListener /\ ListenerMain)
  /\ WF_programVars(RunQueue /\ Goes)

\* Every program that has an end comes to it, and every call of the queue.  The fetcher
\* does, at the latest when its reads have timed out (fetchall.c:169-196).  The workers
\* do although the lock lets two of them in and a worker may read it taken any number
\* of times: it is never left taken (mux.c:23-36).  A main that joins a thread it could
\* not create may end by a fault (fetchall.c:26, mux.c:14, var.c:15).  The highlighter
\* ends, with every read and push back of its functions, unless a byte that is none of
\* the classes it knows begins a part: word pushes it back unread for ever
\* (c.c:264-289).  The queue's loops end (queue.c:16-21, 37-42).
ProgramsEnd ==
  []<>(/\ program = "fetchall" => main \in {"end", "crash"}
       /\ program = "mux" => phase \in {"end", "crash"}
       /\ program = "var" => boss \in {"end", "crash"}
       /\ program = "highlight" => mode = "done" \/ (mode = "highlight" /\ Sees({"@"}))
       /\ program = "queue" => pc = "idle")
=============================================================================
