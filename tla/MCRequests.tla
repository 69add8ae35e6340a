---------------------------- MODULE MCRequests ----------------------------
EXTENDS LlmRequests

\* A model that thinks by default and sees, one that can think, and one that
\* only talks.
MCDeployments ==
    {[thinking |-> TRUE, thinks |-> TRUE, tags |-> TRUE, projector |-> TRUE, slots |-> 2],
     [thinking |-> FALSE, thinks |-> TRUE, tags |-> FALSE, projector |-> TRUE, slots |-> 1],
     [thinking |-> FALSE, thinks |-> FALSE, tags |-> FALSE, projector |-> FALSE, slots |-> 2]}

PlainOptions == [tools |-> 0, choice |-> "absent", effort |-> "absent", logprobs |-> FALSE, n |-> 1, control |-> FALSE,
          stream |-> FALSE, resumable |-> FALSE]
MCOptions ==
    {[PlainOptions EXCEPT !.tools = t, !.choice = c, !.effort = e] :
       t \in {0, 1}, c \in {"absent", "none", "required", "named", "unknown"}, e \in {"absent", "low"}}
    \cup {[PlainOptions EXCEPT !.tools = t, !.effort = e, !.logprobs = TRUE] : t \in {0, 1}, e \in {"none", "low"}}
    \cup {[PlainOptions EXCEPT !.effort = "low", !.control = TRUE, !.stream = s, !.n = n] : s \in BOOLEAN, n \in {1, 2}}
    \cup {[PlainOptions EXCEPT !.n = 2], [PlainOptions EXCEPT !.resumable = TRUE], [PlainOptions EXCEPT !.stream = TRUE, !.control = TRUE],
          [PlainOptions EXCEPT !.choice = "auto"]}

Small == [bytes |-> 1, pixels |-> 1, form |-> "image"]
MCUtterances ==
    {<<TextPart(<<"u">>)>>, <<TextPart(<<"marker">>)>>, <<ImagePart(Small), ImagePart(Small)>>}
    \cup {<<ImagePart(image)>> : image \in
            {[Small EXCEPT !.bytes = 2], [Small EXCEPT !.bytes = 3], [Small EXCEPT !.form = "not base64"], [Small EXCEPT !.form = "other"]}}

MCAnswers ==
    {[text |-> <<>>, thought |-> <<>>, calls |-> <<>>, whole |-> TRUE],
     [text |-> <<"a">>, thought |-> <<"r">>, calls |-> <<>>, whole |-> TRUE],
     [text |-> <<"a">>, thought |-> <<>>, calls |-> <<[id |-> 1, arguments |-> "json"]>>, whole |-> TRUE],
     [text |-> <<>>, thought |-> <<"r">>, calls |-> <<[id |-> 1, arguments |-> "json"]>>, whole |-> TRUE],
     [text |-> <<>>, thought |-> <<>>, calls |-> <<[id |-> 1, arguments |-> "cut"]>>, whole |-> FALSE]}
=============================================================================
