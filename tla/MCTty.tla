------------------------------- MODULE MCTty -------------------------------
EXTENDS Tty

(* Without crlf one piece; with it, text and "\r\n".                       *)
MCWrites == {<<1>>, <<3>>, <<2, 2, 1>>}

(* term_answerback() with an empty answerback-string                       *)
MCEmptyWrites == {<<0>>, <<1>>}
=============================================================================
