--------------------------- MODULE MCEngineClient ---------------------------
(* Small instances of EngineClient for TLC. *)
EXTENDS EngineClient

CONSTANTS c1, c2, t1, t2, u1, u2

TwoCalls == {c1, c2}
OneText == {t1}
TwoTexts == {t1, t2}
OneUrl == {u1}
TwoUrls == {u1, u2}
Second == {u2}
AnyReply == {"string", "object", "failure"}

=============================================================================
