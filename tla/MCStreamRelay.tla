---------------------------- MODULE MCStreamRelay ----------------------------
(***************************************************************************)
(* Small instances of StreamRelay.                                         *)
(***************************************************************************)
EXTENDS StreamRelay

Usage(u) == <<"data:", "usage", u>>
Done == <<"data:", "[DO", "NE]">>

\* Two usages, \r\n and no newline at the end; lines that are no data, or not
\* UTF-8; white space around a payload; an incomplete usage and no [DONE];
\* lines that are too long, where what is left of one looks like a line of its
\* own.
MCTranscripts ==
    { Usage("1") \o <<"cr", "nl">> \o Usage("2") \o <<"nl">> \o Done,
      <<":">> \o Done \o <<"nl", "bin">> \o Done \o <<"nl", "data:", "cr", "[DO", "NE]", "cr", "cr">>,
      Usage("?") \o <<"nl", "event:">> \o Done \o <<"nl">> \o <<"data:", "stop">>,
      <<"text", "text", "text", "text">> \o Done \o <<"nl">> \o Done }
MCUsualTranscripts == {Usage("1") \o <<"nl">> \o Done \o <<"nl">>}
=============================================================================
