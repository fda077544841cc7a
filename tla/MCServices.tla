----------------------------- MODULE MCServices -----------------------------
(***************************************************************************)
(* Instances of Services for TLC: how mutexes, event groups and buffers    *)
(* are used.                                                               *)
(***************************************************************************)
EXTENDS Services

(* ---- mutexes: two at once, one inside another, and priorities set meanwhile ---- *)

Flat == [priorities |-> [a |-> 1, b |-> 2, c |-> 3], mutexes |-> {"m", "n"},
         nested |-> {}, settings |-> {}]

Nested == [Flat EXCEPT !.nested = {<<"n", "m">>}]

Settings == [priorities |-> [a |-> 1, b |-> 2], mutexes |-> {"m"},
             nested |-> {}, settings |-> {1, 3}]

MutexKinds == {Flat, Nested, Settings}

(* ---- event groups: three tasks that meet, and three that set, clear and wait ---- *)

Meet == [t \in GroupTasks |->
    {[kind |-> "sync", sets |-> {t}, for |-> Bits, all |-> TRUE, clears |-> TRUE,
      wait |-> "forever"]}]

Setting == [kind : {"set"}, sets : {{"a"}, {"b"}}, for : {{}}, all : {FALSE},
            clears : {FALSE}, wait : {"none"}]

Clearing == [kind : {"clear"}, sets : {{}}, for : {{"a"}}, all : {FALSE},
             clears : {FALSE}, wait : {"none"}]

Waiting == [kind : {"wait"}, sets : {{}}, for : {{"a", "b"}}, all : BOOLEAN,
            clears : BOOLEAN, wait : {"finite", "forever"}]

Meeting == [kind : {"sync"}, sets : {{"c"}}, for : {Bits}, all : {TRUE}, clears : {TRUE},
            wait : {"finite"}]

Polling == [kind : {"wait"}, sets : {{}}, for : {{"b"}}, all : {FALSE}, clears : {TRUE},
            wait : {"none"}]

Mixed == [t \in GroupTasks |-> CASE t = "a" -> Setting \union Clearing
                           [] t = "b" -> Waiting
                           [] t = "c" -> Meeting \union Polling]

GroupKinds == {Meet, Mixed}

(* ---- a stream buffer and a message buffer ---- *)

Stream == [messages |-> FALSE, xLength |-> 3, trigger |-> 2, prefix |-> 0,
           sends |-> {1, 3}, reads |-> {1, 2}]

\* A message of four bytes never fits.
Messages == [messages |-> TRUE, xLength |-> 5, trigger |-> 1, prefix |-> 1,
             sends |-> {1, 2, 4}, reads |-> {1, 2}]

StreamKinds == {Stream, Messages}

=============================================================================
