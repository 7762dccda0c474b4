-------------------------------- MODULE MCVasco --------------------------------
(***************************************************************************)
(* Programs for the analysis.                                               *)
(***************************************************************************)
EXTENDS ProgramRun

addr(x, y)  == BaseInstruction("addr", x, y, <<>>)
copy(x, y)  == BaseInstruction("copy", x, y, <<>>)
load(x, y)  == BaseInstruction("load", x, y, <<>>)
store(x, y) == BaseInstruction("store", x, y, <<>>)
alloc(x, o) == BaseInstruction("alloc", x, o, <<>>)
phi(x, from) == BaseInstruction("phi", x, "", from)
use(x)      == BaseInstruction("use", "", x, <<>>)
call(f)     == BaseInstruction("call", "", f, <<>>)
apply(x, f, args) == BaseInstruction("call", x, f, args)
ret         == BaseInstruction("ret", "", "", <<>>)
returns(x)  == BaseInstruction("ret", "", x, <<>>)
exits       == BaseInstruction("exit", "", "", <<>>)
unreachable == BaseInstruction("unreachable", "", "", <<>>)

Line(c) == [layout |-> <<"e">>, code |-> [b \in {"e"} |-> c], succ |-> [b \in {"e"} |-> <<>>],
            post |-> <<"e">>, ipost |-> <<"e">>]

Diamond(a, t, e, j) ==
  [layout |-> <<"a", "t", "e", "j">>,
   code |-> [a |-> Append(a, Br), t |-> Append(t, Br), e |-> Append(e, Br), j |-> j],
   succ |-> [a |-> <<"t", "e">>, t |-> <<"j">>, e |-> <<"j">>, j |-> <<>>],
   post |-> <<"j", "t", "e", "a">>, ipost |-> <<"a", "t", "e", "j">>]

Loop(e, h, b, x) ==
  [layout |-> <<"e", "h", "b", "x">>,
   code |-> [e |-> Append(e, Br), h |-> Append(h, Br), b |-> Append(b, Br), x |-> x],
   succ |-> [e |-> <<"h">>, h |-> <<"b", "x">>, b |-> <<"h">>, x |-> <<>>],
   post |-> <<"b", "x", "h", "e">>, ipost |-> <<"e", "b", "h", "x">>]

\* Returns in the middle, and exits at the end.
Early(e, x, y) ==
  [layout |-> <<"e", "x", "y">>,
   code |-> [e |-> Append(e, Br), x |-> x, y |-> y],
   succ |-> [e |-> <<"x", "y">>, x |-> <<>>, y |-> <<>>],
   post |-> <<"x", "y", "e">>, ipost |-> <<"e", "y">>]

\* Returns in the middle, and loops for ever at the end.
Endless(e, x, l) ==
  [layout |-> <<"e", "x", "l">>,
   code |-> [e |-> Append(e, Br), x |-> x, l |-> Append(l, Br)],
   succ |-> [e |-> <<"x", "l">>, x |-> <<>>, l |-> <<"l">>],
   post |-> <<"l", "x", "e">>, ipost |-> <<"e", "l">>]

Two(main, f) == [main |-> main, f |-> f]

\* What a program may do, with the registers r and t.
Chunks(r, t) ==
  {<<addr("g", "a")>>, <<addr("h", "g")>>, <<copy("a", "g")>>,
   <<copy(t, "h"), addr(r, "b"), store(t, r)>>,
   <<copy(t, "g"), load(r, t), copy("h", r)>>,
   <<copy(t, "h"), load(r, t), use(r)>>}

First == {<<addr("g", "a")>>, <<addr("h", "g")>>, <<addr("g", "b"), addr("h", "g")>>}
End   == <<copy("t", "g"), use("t"), copy("r", "h"), use("r"), ret>>

\* Called twice, with something in between.
CalledTwice ==
  {Two(Line(x \o <<call("f")>> \o y \o <<call("f")>> \o End), Line(z \o <<ret>>)) :
     x \in First, y \in Chunks("r1", "t1"), z \in Chunks("r2", "t2")}

\* Recursion on one of two ways.
Recursive ==
  {Two(Line(x \o <<call("f")>> \o End),
       Diamond(<<addr("s", "a"), use("s")>>, y \o <<call("f")>>, z, <<ret>>)) :
     x \in First, y \in Chunks("r1", "t1"), z \in Chunks("r2", "t2")}

Loops ==
  {[main |-> Loop(x, y, z, End)] :
     x \in First, y \in Chunks("r1", "t1"), z \in Chunks("r2", "t2")}

\* A store that may reach two variables, a call in a loop, a loop that never
\* ends, an exit with and without a call before it, a call of a defined function
\* that exits, a call before anything else, and calls in several blocks.
Others ==
  {[main |-> Diamond(<<addr("g", "a"), addr("b", "a")>>, <<addr("h", "g")>>, <<addr("h", "b")>>,
                     <<copy("s", "h"), addr("r1", "b"), store("s", "r1")>> \o End)],
   Two(Loop(<<addr("g", "a"), addr("a", "b"), addr("b", "a")>>, <<copy("t", "g")>>,
            <<load("r", "t"), copy("g", "r"), call("f")>>, <<use("t"), ret>>),
       Line(<<copy("s", "g"), addr("r1", "h"), store("s", "r1"), ret>>)),
   [main |-> Endless(<<addr("g", "a")>>, <<copy("t", "g"), use("t"), ret>>,
                     <<copy("t1", "g"), use("t1")>>)],
   Two(Early(<<addr("g", "a"), call("f")>>, <<copy("t", "g"), use("t"), ret>>,
             <<copy("r", "g"), use("r"), exits, unreachable>>),
       Line(<<addr("h", "g"), ret>>)),
   Two(Early(<<addr("g", "a")>>, <<copy("t", "g"), use("t"), ret>>,
             <<copy("r", "g"), use("r"), call("f"), exits, unreachable>>),
       Line(<<copy("s", "g"), use("s"), ret>>)),
   [main  |-> Early(<<addr("g", "a")>>, <<copy("t", "g"), use("t"), ret>>,
                    <<copy("r", "g"), use("r"), call("fatal"), unreachable>>),
    fatal |-> Line(<<copy("s", "g"), use("s"), exits, unreachable>>)],
   Two(Line(<<call("f"), copy("s", "g"), use("s"), ret>>),
       Diamond(<<>>, <<addr("g", "a")>>, <<call("f")>>, <<addr("g", "b"), call("f"), ret>>))}

\* What a function does with its argument p.
Bodies ==
  {Line(<<returns("p")>>),
   Line(<<returns("b")>>),
   Line(<<load("r2", "p"), copy("h", "p"), returns("r2")>>),
   Line(<<addr("r2", "b"), store("p", "r2"), returns("p")>>),
   Line(<<copy("g", "p"), copy("t2", "h"), use("t2"), returns("p")>>),
   Diamond(<<copy("s", "g"), use("s")>>, <<load("r2", "p")>>, <<copy("t2", "g")>>,
           <<phi("v", <<<<"t", "r2">>, <<"e", "t2">>>>), returns("v")>>)}

\* An object has the name of its allocation, which runs once.
Allocating == Line(<<alloc("r2", "o"), store("p", "r2"), returns("r2")>>)

\* Called with an argument, and twice with two.
Applied ==
  {Two(Line(x \o <<copy("r1", "h"), apply("x", "f", <<<<"p", y>>>>), copy("h", "x"), use("x")>>
              \o End), z) :
     x \in First, y \in {"r1", "g", "h"}, z \in Bodies \cup {Allocating}}
  \cup
  {Two(Line(x \o <<copy("r1", "h"), apply("x", "f", <<<<"p", y>>>>),
                   apply("y", "f", <<<<"p", "r1">>>>), use("x"), use("y"), ret>>), z) :
     x \in First, y \in {"g", "h"}, z \in Bodies}

\* The argument is passed on, and the result is handed back.
PassedOn ==
  {[main |-> Line(x \o <<copy("r1", "h"), apply("x", "f", <<<<"p", y>>>>), use("x")>> \o End),
    f    |-> Line(<<apply("y", "k", <<<<"q", "p">>>>)>> \o z),
    k    |-> Line(w)] :
     x \in First, y \in {"r1", "a"},
     z \in {<<copy("h", "y"), returns("p")>>, <<returns("y")>>},
     w \in {<<returns("q")>>, <<load("s", "q"), copy("t2", "g"), use("t2"), returns("s")>>}}

\* Recursion that hands a result back.
Results ==
  {Two(Line(x \o <<apply("x", "f", <<>>), use("x")>> \o End),
       Diamond(<<copy("t2", "g"), use("t2")>>, y \o <<apply("y", "f", <<>>), use("y")>>, z,
               <<phi("v", <<<<"t", "y">>, <<"e", "r">>>>), returns("v")>>)) :
     x \in First, y \in {<<copy("r2", "h"), copy("g", "r2")>>, <<>>},
     z \in {<<copy("r", "g")>>, <<copy("g", "h"), addr("r", "b")>>}}

\* A pointer to an object, and what happens to the object.
Allocated ==
  {[main |-> Line(x \o <<alloc("x", "o")>> \o y \o <<copy("t", "g"), load("s", "t"), use("s")>>
                    \o z \o End)] :
     x \in First,
     y \in {<<copy("g", "x")>>, <<addr("r1", "a"), store("x", "r1"), copy("g", "x")>>},
     z \in {<<addr("y", "b"), store("t", "y")>>, <<copy("y", "h"), store("y", "x")>>}}

\* A phi where two ways meet, and at the head of a loop.
Joined ==
  {[main |-> Diamond(x, <<copy("r1", "g")>>, y,
                     <<phi("x", <<<<"t", "r1">>, <<"e", "r2">>>>)>> \o z \o End)] :
     x \in First, y \in {<<alloc("r2", "o")>>, <<addr("r2", "b"), store("r2", "r2")>>},
     z \in {<<load("y", "x"), use("y")>>, <<addr("s", "a"), store("x", "s")>>}}
  \cup
  {[main |-> Loop(x \o <<copy("r1", "h")>>, <<phi("x", <<<<"e", "r1">>, <<"b", "r2">>>>)>>, y,
                  <<copy("g", "x")>> \o End)] :
     x \in First, y \in {<<load("r2", "x")>>, <<copy("r2", "g"), store("x", "r2")>>}}

\* The local l of main is written by its name, through a pointer, and by the
\* function its address is passed to, and read through pointers.
Pointed ==
  {[main |-> Line(x \o <<addr("h", "l")>> \o y \o z \o
                  <<copy("t1", "h"), load("r1", "t1"), use("r1")>> \o End)] :
     x \in First, y \in {<<addr("l", "a")>>, <<>>},
     z \in {<<addr("l", "b")>>, <<copy("l", "g")>>,
            <<copy("s", "h"), addr("r", "b"), store("s", "r")>>}}
  \cup
  {Two(Line(<<addr("g", "a")>> \o x \o <<apply("x", "f", <<<<"p", "l">>>>), use("x")>> \o End), z) :
     x \in {<<addr("l", "a"), addr("h", "l")>>, <<addr("h", "l")>>}, z \in Bodies}
  \cup
  {[main |-> Diamond(<<addr("h", "l")>>, <<addr("l", "a")>>, x,
                     <<copy("t1", "h"), load("g", "t1")>> \o End)] :
     x \in {<<>>, <<addr("h", "b")>>}}

\* It is read by its name, copied or compared, with a call in between.
Named ==
  {Two(Line(x \o <<addr("l", "a"), call("f")>> \o y \o End), Line(z \o <<ret>>)) :
     x \in {<<addr("h", "l")>>, <<addr("g", "b")>>},
     y \in {<<copy("g", "l")>>, <<copy("r1", "l"), use("r1")>>, <<use("l")>>},
     z \in {<<copy("t2", "h"), load("r2", "t2"), use("r2")>>, <<addr("h", "b")>>}}

SomePrograms ==
  UNION {CalledTwice, Recursive, Loops, Others, Applied, PassedOn, Results, Allocated, Joined,
         Pointed, Named}

\* What f needs is needed by its second call only once its argument, which
\* points to b too after the first, is known to.
NeededLate ==
  LET f(y) == apply("", "f", <<<<"p", y>>>>)
  IN  {Two(Line(<<addr("x", "a"), addr("t", "b"), store("x", "t"), f("x"), use("h"), f("x"),
                  addr("s", "h"), load("r", "s"), use("r"), use("x"), ret>>),
           Line(<<load("r2", "p"), copy("h", "r2"), ret>>))}

=============================================================================
