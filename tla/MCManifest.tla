----------------------------- MODULE MCManifest -----------------------------
(* Documents for TLC. *)
EXTENDS Manifest

UpTo2(S) == UNION {[1..n -> S] : n \in 0..2}

\* Requests of a task.
request(harness, written, prompt_file, command, options) ==
  [harness |-> harness, prompt |-> written, prompt_file |-> prompt_file, command |-> command, options |-> options]
Command(texts) == request(<<>>, <<>>, <<>>, <<<<<<>>>> \o texts>>, FALSE)
file(readable) == [readable |-> readable, text |-> <<"a">>]
AnyRequest ==
  {request(harness, written, prompt_file, command, options) :
     harness \in {<<>>, <<"claude">>, <<"unknown">>}, written \in {<<>>, <<<<>>>>},
     prompt_file \in {<<>>, <<file(TRUE)>>, <<file(FALSE)>>},
     command \in {<<>>, <<<<>>>>, <<<<<<>>>>>>, <<<<<<>>, <<"a">>>>>>}, options \in BOOLEAN}

\* Sandboxes.
table(network, filesystem, executables) ==
  [network |-> network, filesystem |-> filesystem, executables |-> executables]
allows(texts) == [Section EXCEPT !.allow = texts]
SandboxSettings ==
  {[kind |-> "unset"], [kind |-> "yes"], [kind |-> "no"],
   [kind |-> "table", table |-> table(allows({"x"}), Missing, Missing)],
   [kind |-> "table", table |-> table(Missing, Missing, allows({"x"}))],
   [kind |-> "table", table |-> table(Missing, allows({BadText}), Missing)]}
Tables ==
  {<<>>, <<table(allows({"y"}), Missing, Missing)>>, <<table(Missing, Missing, allows({"y"}))>>,
   <<table(Missing, [allows({"y"}) EXCEPT !.defaults = "no"], allows({}))>>, <<table(Missing, Missing, allows({BadText}))>>}

\* Cron expressions.
number(n) == value("number", n)
one(day) == <<[days |-> <<day>>, step |-> 0]>>
range(first, last) == <<[days |-> <<first, last>>, step |-> 0]>>
every(field, step) == [field EXCEPT ![1].step = step]
expression(fields) == [macro |-> FALSE, fields |-> fields]
MonthDays == {Star, one(number(2)), every(Star, 3), one(number(11))}
\* A range of numbers ends before 7.
WeekFields ==
  {Star, every(Star, 2), every(one(number(1)), 2), every(range(number(1), number(5)), 2), one(value("name", 6)),
   range(value("name", 2), value("name", 6)), one(value("odd", 1)), one(number(6)) \o one(number(0)),
   one(number(3)) \o range(number(1), number(2))}
  \cup {one(number(n)) : n \in 0..8} \cup {range(number(p[1]), number(p[2])) : p \in {<<0, 6>>, <<1, 5>>, <<5, 6>>, <<4, 4>>}}
AtOne == one(number(1))
Expressions ==
  {expression(<<Zero, AtOne, day, Star, week>>) : day \in MonthDays, week \in WeekFields}
  \cup {expression(<<seconds, Zero, AtOne, Star, Star, one(number(1))>>) : seconds \in {Zero, AtOne, Star, one(number(1)) \o Zero}}
  \cup {expression(<<Zero, Zero, AtOne, one(number(2)), Star, one(number(1)), AtOne>>)}
  \cup {expression(f) : f \in {<<>>, <<Zero, Zero, Star, Star>>, <<Zero, Zero, Zero, Star, Star, Star, Star, Star>>}}
  \cup {[macro |-> TRUE, fields |-> <<Zero, Zero, Zero, Star, Star, one(number(1))>>]}
offset(sign, hours) == <<[sign |-> sign, hours |-> hours]>>
Offsets == {<<>>, offset(1, 1), offset(-1, 1), offset(-1, 0), offset(1, LIMIT + 1), offset(0, 1), offset(1, -1)}
timed(name, cron, at, off) == [name |-> name, cron |-> cron, at |-> at, offset |-> off]
Daily == expression(<<Zero, Zero, Star, Star, Star>>)
Names == {<<>>, <<"n">>, <<"m">>}
Schedules ==
  {<<>>} \cup {<<timed(<<>>, <<cron>>, <<>>, off)>> : cron \in Expressions, off \in {<<>>, offset(1, 1), offset(-1, 1)}}
  \cup {<<timed(<<"n">>, cron, at, off)>> : cron \in {<<>>, <<Daily>>}, at \in {<<>>, <<3>>, <<BadTime>>}, off \in Offsets}
  \cup {<<timed(first, <<Daily>>, <<>>, <<>>), timed(second, <<>>, <<at>>, <<>>)>> :
          first \in Names, second \in Names, at \in {3, BadTime}}

Plain == [readable |-> {TRUE}, format |-> {"yaml"}, schedule |-> {<<>>}, sandbox |-> {<<>>},
          ids |-> <<"a">>, depends_on |-> {<<>>}, request |-> {Command(<<>>)}, setting |-> {[kind |-> "unset"]}]

\* Every graph of four tasks with at most two dependencies each, in every
\* order; no task reads an output.
AnyOfFour == {s \in UpTo2({"a", "b", "c", "d"}) : IsInjective(s)}
AllGraphs == [Plain EXCEPT !.ids = <<"a", "b", "c", "d">>, !.depends_on = AnyOfFour]

\* Up to two tasks, with names that clash, are unknown or are no names at all.
FewTexts ==
  {<<>>, <<<<Bad>>>>, <<<<"b">>, <<"a">>>>, <<<<"a", "b">>>>}
  \cup {<<<<n>>>> : n \in {"a", "b", "unknown"}} \cup {<<<<n, Bad>>>> : n \in {"a", "b", "unknown"}}
Named(ids) == [Plain EXCEPT !.ids = ids, !.depends_on = UpTo2({"a", "b", "unknown"}), !.request = {Command(t) : t \in FewTexts}]

\* Every form of a task and of a sandbox; two tasks of which either may be
\* wrong; every schedule; and a file that cannot be read.
Forms(name) == [Plain EXCEPT !.ids = <<name>>, !.depends_on = {<<>>, <<"a-b">>}, !.request = AnyRequest,
                             !.sandbox = Tables, !.setting = SandboxSettings]
Pairs == [Plain EXCEPT !.ids = <<"a", "b">>, !.depends_on = {<<>>, <<"a">>}, !.sandbox = Tables, !.setting = SandboxSettings,
                       !.request = {Command(<<>>), request(<<>>, <<>>, <<>>, <<<<>>>>, FALSE), request(<<"claude">>, <<>>, <<file(TRUE)>>, <<>>, TRUE)}]
Timed == [Plain EXCEPT !.schedule = Schedules]
Unreadable == [Plain EXCEPT !.readable = BOOLEAN, !.format = {"yaml", "yml", "json", "toml"}]

AllKinds ==
  {AllGraphs, Named(<<>>), Named(<<"a">>), Named(<<"a", "a">>), Named(<<"a", "b">>), Forms("a"), Forms("a-b"), Pairs, Timed, Unreadable}
=============================================================================
