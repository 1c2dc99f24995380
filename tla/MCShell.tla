------------------------------ MODULE MCShell ------------------------------
(* Lines that are run, and all the short lines there are, to be parsed.      *)
EXTENDS Shell

MCLines ==
  { <<"echo", "x", "y", "|", "cat">>,
    <<"echo", "x", ">", "f", ";", "cat", "<", "f">>,
    <<"(", "echo", "x", ";", "cat", ")", "|", "cat">>,
    <<"echo", "x", "|", "echo", "y">>,
    <<"w", "|", "w", "|", "w">>,
    <<"(", "(", "(", "w", ";", "w", ")", ";", "w", ")", ";", "w", ")", ";", "w">>,
    <<"echo", "x", "&">>,
    <<"cd", "f">> }

\* One word stands for all: the sequences of at most four tokens, and those of
\* five and six that have parentheses around something.
MCTestLines ==
  UNION {[1..n -> Symbols \cup {"w"}] : n \in 0..4}
    \cup [1..5 -> {"(", ")", "w", "|", ">"}]
    \cup {<<"(", "w">> \o s : s \in [1..4 -> {"(", ")", "w", ";", "<"}]}
=============================================================================
