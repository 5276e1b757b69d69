---------------------------- MODULE MCAssessment ----------------------------
(* Small instances of Assessment for TLC.                                   *)
EXTENDS Assessment, TLC

\* Substrings as the words have them.
Substrings ==
  [w \in Word |-> CASE w = "javascript" -> {"javascript", "java"}
                    [] OTHER -> {w}]

\* Some are typed with a capital.
LowerCase ==
  [s \in Spelling |-> CASE s = "Java" -> "java" [] s = "Docker" -> "docker"
                        [] s = "JavaScript" -> "javascript" [] s = "Chile" -> "chile"
                        [] OTHER -> s]

Opening(required, seniority, strict) ==
  [required |-> required, desired |-> IF strict THEN {} ELSE {"JavaScript"},
   seniority |-> seniority, remote |-> ~strict,
   country |-> IF strict THEN "Chile" ELSE "", english |-> strict, salary |-> strict]

Openings ==
  {Opening({"Java", "docker"}, 0, FALSE), Opening({"Java", "java", "Docker", "cobol"}, 2, TRUE),
   Opening({"java", "JavaScript", "docker"}, 1, TRUE)}

Symmetry == Permutations(Lines)
=============================================================================
