---------------------------- MODULE MCTranscript ----------------------------
(* Constants of Transcript that a configuration cannot write down. *)
EXTENDS Transcript

\* One call, two calls, and a call next to one of each other kind.
MCReplies ==
    { <<"read">>, <<"compress">>, <<"malformed">>, <<"read", "compress">>, <<"read", "write">>,
      <<"compress", "compress">> }

\* Ranges of one and more messages, ranges that touch, cross or lie apart, calls
\* whose last range is refused after others were taken, or that have none.
MCCompressArgs ==
    { << <<i, j>> >> : i \in 1..2, j \in 2..4 }
    \union { << <<1, 1>>, <<2, 3>> >>, << <<4, 4>>, <<2, 2>> >>, << <<1, 1>>, <<1, 1>>, <<3, 2>> >>,
              << <<1, 1>>, <<3, 3>>, <<5, 5>> >>, << <<6, 6>> >>, <<>> }
=============================================================================
