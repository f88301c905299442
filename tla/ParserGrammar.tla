--------------------------- MODULE ParserGrammar ----------------------------
(***************************************************************************)
(* What a Ragel grammar means, and the grammars of http11_parser.rl,        *)
(* httpclient_parser.rl and uri.rl.                                         *)
(*                                                                         *)
(* A rule is a set of alternatives, sequences of symbols.  A symbol is a    *)
(* rule, a set of characters, a character, an action (run on the next       *)
(* character, or at the end of the input), a finishing action (run on the   *)
(* character before it) or a guard (the :> and :>> of Ragel: once what       *)
(* follows the guard can start, what precedes it may not go on).  Numbers   *)
(* and "a"-"b" in a grammar are Ragel's: 6 is the byte 6 and no repetition, *)
(* and - is a difference and no range.                                      *)
(***************************************************************************)
EXTENDS Integers, Sequences, TLC

Finishing == "@done" :> "done" @@ "@xml" :> "xml" @@ "@json" :> "json"
             @@ "@trans_chunked" :> "trans_chunked"

RECURSIVE Finished(_, _)
\* The actions do and symbols s after a character was read.
Finished(do, s) ==
    IF s # <<>> /\ Head(s) \in DOMAIN Finishing
    THEN Finished(Append(do, Finishing[Head(s)]), Tail(s))
    ELSE [do |-> do, rest |-> s]

RECURSIVE Moves(_, _, _, _)
\* The ways grammar g goes on from symbols s: the characters it reads next (none
\* at the end), the actions it runs, the guards it passes, what is left.
Moves(g, do, passed, s) ==
    IF s = <<>> THEN {[on |-> {}, do |-> do, passed |-> passed, rest |-> <<>>]}
    ELSE LET h == Head(s)
             t == Tail(s)
             f == Finished(do, t)
         IN CASE h \in DOMAIN g.rules -> UNION {Moves(g, do, passed, r \o t) : r \in g.rules[h]}
              [] h \in g.actions -> Moves(g, Append(do, h), passed, t)
              [] h \in g.guards -> Moves(g, do, passed \cup {h}, t)
              [] OTHER -> {[on |-> IF h \in DOMAIN g.sets THEN g.sets[h] ELSE {h},
                            do |-> f.do, passed |-> passed, rest |-> f.rest]}

RECURSIVE Rep(_, _)
\* s repeated n times.
Rep(s, n) == IF n = 0 THEN <<>> ELSE s \o Rep(s, n - 1)

Many(s, name) == {<<>>, s \o <<name>>}
Some(s, name) == {s, s \o <<name>>}
Opt(s) == {<<>>, s}

-----------------------------------------------------------------------------
(* URIs, in the two grammars that have them; the byte 2 and the numbers are   *)
(* what they are in uri.rl and http11_parser.rl                               *)

UriSets(digit, alpha, reg, beyond) ==
    [digit |-> digit, alpha |-> alpha, reg |-> reg, regColon |-> reg \cup {":"},
     regAt |-> reg \cup {"@"}, pchar1 |-> reg \cup beyond \cup {":", "@"},
     nc1 |-> reg \cup beyond \cup {"@"}, scheme1 |-> digit \cup alpha \cup {"+", "-", "."},
     slashQuery |-> {"/", "?"}]

UriRules ==
    [pct_encoded |-> {<<"%", "xdigit", "xdigit">>},
     pchar |-> {<<"pchar1">>, <<"pct_encoded">>},
     queryChars |-> Many(<<"pchar">>, "queryChars") \cup Many(<<"slashQuery">>, "queryChars"),
     segment |-> Many(<<"pchar">>, "segment"),
     path_abempty |-> Many(<<"/", "segment">>, "path_abempty"),
     path_absolute |-> {<<"/">>, <<"/", "path_rootless">>},
     path_rootless |-> {<<"pchar", "segment", "path_abempty">>},
     path_noscheme |-> {<<"segment_nz_nc", "path_abempty">>},
     reg_name |-> Many(<<"reg">>, "reg_name") \cup Many(<<"pct_encoded">>, "reg_name"),
     IPv4address |-> {Rep(<<"dec_octet", ".">>, 3) \o <<"dec_octet">>},
     h16 |-> {Rep(<<"xdigit">>, n) : n \in 1 .. 4},
     ls32 |-> {<<"h16", ":", "h16">>, <<"IPv4address">>},
     hexs |-> Some(<<"xdigit">>, "hexs"),
     future |-> Some(<<"regColon">>, "future"),
     IPvFuture |-> {<<"v", "hexs", ".", "future">>},
     IP_literal |-> {<<"[", "IPv6address", "]">>, <<"[", "IPvFuture", "]">>},
     port |-> Many(<<"digit">>, "port"),
     host |-> {<<"IP_literal">>, <<"IPv4address">>, <<"reg_name">>},
     userinfo |-> Many(<<"regColon">>, "userinfo") \cup Many(<<"pct_encoded">>, "userinfo"),
     schemeChars |-> Many(<<"scheme1">>, "schemeChars")]

-----------------------------------------------------------------------------
(* uri.rl *)

uri_parser ==
    [actions |-> {"marku", "markh", "save_scheme", "save_port", "save_userinfo", "save_host",
                  "save_path", "save_query", "save_fragment"},
     guards |-> {},
     sets |->
        [xdigit |-> {"0", "1", "2", "3", "5", "6", "a"},
         oneToNine |-> {"1", "2", "3", "5", "6"}, zeroToFour |-> {"0", "1", "2", "3"},
         zeroToFive |-> {"0", "1", "2", "3", "5"}]
        @@ UriSets({"0", "1", "2", "3", "5", "6"}, {"a", "g", "v"},
                   {"0", "1", "2", "3", "5", "6", "a", "g", "v", "!", "+", "."}, {"byte"}),
     rules |->
        [dec_octet |-> {<<"digit">>, <<"oneToNine", "digit">>, <<"1", "digit", "digit">>,
                        <<"stx", "zeroToFour", "digit">>, <<"2", "5", "zeroToFive">>},
         IPv6address |->
            {Rep(<<"h16", ":">>, 6) \o <<"ls32">>, <<":", ":">> \o Rep(<<"h16", ":">>, 5) \o <<"ls32">>}
            \cup {p \o <<":", ":">> \o Rep(<<"h16", ":">>, 4 - n) \o <<"ls32">> :
                     <<n, p>> \in UNION {{n} \X Opt(Rep(<<"h16", ":">>, n) \o <<"h16">>) : n \in 0 .. 4}}
            \cup {p \o <<":", ":", "h16">> : p \in Opt(Rep(<<"h16", ":">>, 5) \o <<"h16">>)}
            \cup {p \o <<":", ":">> : p \in Opt(Rep(<<"h16", ":">>, 6) \o <<"h16">>)},
         ncChar |-> {<<"nc1">>, <<"pct_encoded">>},
         segment_nz_nc |-> Some(<<"ncChar">>, "segment_nz_nc"),
         scheme |-> {<<"marku", "alpha", "schemeChars", "save_scheme">>},
         optUser |-> Opt(<<"userinfo", "save_userinfo", "@">>),
         optPort |-> Opt(<<":", "markh", "port", "save_port">>),
         authority |-> {<<"markh", "optUser", "markh", "host", "save_host", "optPort">>},
         optQuery |-> Opt(<<"?", "marku", "queryChars", "save_query">>),
         optFragment |-> Opt(<<"#", "marku", "queryChars", "save_fragment">>),
         hier_part |-> {<<"/", "/", "authority", "markh", "path_abempty", "save_path">>,
                        <<"path_absolute">>, <<"path_rootless">>, <<>>},
         relative_part |-> {<<"/", "/", "authority", "path_abempty">>, <<"path_absolute">>,
                            <<"path_noscheme">>, <<>>},
         main |-> {<<"scheme", ":", "hier_part", "optQuery", "optFragment">>,
                   <<"relative_part", "optQuery", "optFragment">>}]
        @@ UriRules]

-----------------------------------------------------------------------------
(* http11_parser.rl *)

\* A length prefix of IPv6address there: n groups or more, and one more.
Groups(n) == Opt(Rep(<<"h16", ":">>, n) \o <<"h16s", "h16">>)

http_parser(any) ==
    LET digit == {"0", "1", "2", "3", "5"}
        upper == {"A", "G", "H", "P", "T"}
        alpha == upper \cup {"a", "g", "v"}
        relaxed == {"^r", "{r", "}r"}
        HTTP_CTL == {"nul", "del"}
        HTTP_separator == {"(", "<", ">", "@", ":", "quote", "/", "[", "]", "?", "{", "{r", "}",
                           "}r", "sp", "tab"}
    IN
    [actions |-> {"mark", "start_field", "write_field", "start_value", "write_value",
                  "request_method", "request_uri", "fragment", "start_query", "query_string",
                  "http_version", "request_path"},
     guards |-> {":>CRLF", ":>>xml", ":>>json"},
     sets |->
        [xdigit |-> digit \cup {"A", "a"}, upperDigit |-> upper \cup digit,
         zeroOne |-> {"0", "1"}, blank |-> {"sp", "tab"}, any |-> any,
         token |-> any \ ({"byte"} \cup HTTP_CTL \cup HTTP_separator),
         content1 |-> any \ HTTP_CTL,
         space |-> {"tab", "vt", "lf", "cr", "sp"},
         tag |-> alpha \cup digit \cup {"-", "."}]
        @@ UriSets(digit, alpha, alpha \cup digit \cup relaxed \cup {"!", "(", "+", "-", "."}, {"byte"}),
     rules |->
        [CRLF |-> {<<"cr", "lf">>, <<"lf">>},
         dec_octet |-> {<<"digit">>, <<"1", "digit">>, <<"1", "digit", "digit">>,
                        <<"2", "0", "digit">>, <<"2", "5", "0">>},
         h16s |-> Many(<<"h16", ":">>, "h16s"),
         IPv6address |->
            {<<"ack", "h16", ":", "ls32">>, <<":", ":", "enq", "h16", ":", "ls32">>}
            \cup {p \o <<":", ":", "eot", "h16", ":", "ls32">> : p \in Opt(<<"h16">>)}
            \cup {p \o <<":", ":", "etx", "h16", ":", "ls32">> : p \in Groups(1)}
            \cup {p \o <<":", ":", "stx", "h16", ":", "ls32">> : p \in Groups(2)}
            \cup {p \o <<":", ":", "h16", ":", "ls32">> : p \in Groups(3)}
            \cup {p \o <<":", ":", "ls32">> : p \in Groups(4)}
            \cup {p \o <<":", ":", "h16">> : p \in Groups(5)}
            \cup {p \o <<":", ":">> : p \in Groups(6)},
         ncChar |-> {<<"regAt">>, <<"pct_encoded">>},
         segment_nz_nc |-> Some(<<"ncChar">>, "segment_nz_nc"),
         authority |-> {u \o <<"host">> \o p : u \in Opt(<<"userinfo", "@">>), p \in Opt(<<":", "port">>)},
         relative_part |-> {<<"/", "/", "authority", "path_abempty">>, <<"path_absolute">>,
                            <<"path_noscheme">>, <<>>},
         hier_part |-> {<<"/", "/", "authority", "path_abempty">>, <<"path_absolute">>,
                        <<"path_rootless">>, <<>>},
         optQuery |-> Opt(<<"?", "start_query", "queryChars", "query_string">>),
         optFragment |-> Opt(<<"#", "mark", "queryChars", "fragment">>),
         URI_reference |->
            {start \o <<part, "request_path", "optQuery", "request_uri", "optFragment">> :
                <<start, part>> \in {<<<<"alpha", "schemeChars", ":", "mark">>, "hier_part">>,
                                     <<<<"mark">>, "relative_part">>}},
         Method |-> {<<"mark">> \o Rep(<<"upperDigit">>, n) \o <<"request_method">> : n \in 1 .. 20},
         Request_Line |->
            {<<"Method", "sp", "URI_reference", "sp", "mark", "H", "T", "T", "P", "/", "1", ".",
               "zeroOne", "http_version", "CRLF">>},
         blanks |-> Some(<<"blank">>, "blanks"),
         lws |-> {<<"blanks">>, <<"CRLF", "blanks">>},
         lwss |-> Many(<<"lws">>, "lwss"),
         tokens |-> Some(<<"token">>, "tokens"),
         contents |-> Many(<<"content1">>, "contents") \cup Many(<<"lws">>, "contents"),
         message_headers |->
            Many(<<"start_field", "tokens", "write_field", ":", "lwss", "start_value", "contents",
                   "write_value", ":>CRLF", "CRLF">>, "message_headers"),
         anys |-> Many(<<"any">>, "anys"),
         tags |-> Some(<<"tag">>, "tags"),
         tagEnd |-> {<<"/">>, <<"space">>, <<">">>},
         open |-> {<<"{">>, <<"{r">>},
         close |-> {<<"}">>, <<"}r">>},
         main |->
            {<<"Request_Line", "message_headers", "CRLF", "@done">>,
             <<"mark", "<", "tags", "request_path", "tagEnd", "anys", ">", ":>>xml", "nul", "@xml", "@done">>,
             <<"mark", "@", "relative_part", "request_path", "sp", "mark", "open", "anys", "close",
               ":>>json", "nul", "@json", "@done">>}]
        @@ UriRules]

-----------------------------------------------------------------------------
(* httpclient_parser.rl *)

httpclient_parser(any) ==
    LET H == "letterH"
        T == "letterT"
        tspecials == {":", ";", "=", "/", "sp", "tab"}
        ContentLength == <<"c", "o", "n", T, "e", "n", T, "-", "l", "e", "n", "g", T, H>>
        Connection == <<"c", "o", "n", "n", "e", "c", T, "i", "o", "n">>
        TransferEncoding ==
            <<T, "r", "a", "n", "s", "f", "e", "r", "-", "e", "n", "c", "o", "d", "i", "n", "g">>
    IN
    [actions |-> {"mark", "start_field", "write_field", "start_value", "write_content_len",
                  "write_connection_close", "write_value", "reason_phrase", "status_code",
                  "http_version", "chunk_size"},
     guards |-> {":>status", ":>field", ":>chunk"},
     sets |->
        [digit |-> {"0"}, xdigit |-> {"0", "a", "b", "c", "d", "e", "f"},
         letterH |-> {"H", "h"}, letterT |-> {"T", "t"},
         token |-> any \ ({"byte", "lf", "cr"} \cup tspecials),
         any |-> any, reason1 |-> any \ {"lf"}, space |-> {"tab", "lf", "cr", "sp"}],
     rules |->
        [CRLF |-> {<<"cr", "lf">>, <<"lf">>},
         digits |-> Some(<<"digit">>, "digits"),
         Reason_Phrase |-> Some(<<"reason1">>, "Reason_Phrase"),
         Status_Line |->
            {<<"mark", "H", "T", "T", "P", "/", "digits", ".", "digits", "http_version", "sp",
               "mark", "digits", "status_code", "sp", "mark", "Reason_Phrase", "reason_phrase",
               ":>status", "CRLF">>},
         spaces |-> Many(<<"space">>, "spaces"),
         tokens |-> Some(<<"token">>, "tokens"),
         anys |-> Many(<<"any">>, "anys"),
         fields |-> {<<"start_field", "tokens", "write_field", ":", "spaces", "start_value", "anys",
                       "write_value", ":>field", "CRLF">>},
         content_length |->
            {<<"start_field">> \o ContentLength \o
             <<"write_field", ":", "spaces", "start_value", "digits", "write_content_len",
               "write_value", "CRLF">>},
         conn_close |->
            {Connection \o <<":", "spaces", "c", "l", "o", "s", "e", "CRLF", "write_connection_close">>},
         transfer_encoding_chunked |->
            {<<"start_field">> \o TransferEncoding \o
             <<"write_field", ":", "spaces", "start_value", "c", H, "u", "n", "k", "e", "d",
               "write_value", "CRLF", "@trans_chunked">>},
         message_headers |->
            UNION {Many(<<h>>, "message_headers") :
                   h \in {"transfer_encoding_chunked", "conn_close", "content_length", "fields"}},
         extValue |-> Opt(<<"=", "start_value", "tokens">>),
         chunk_extension |->
            Many(<<";", "start_field", "tokens", "write_field", "start_value", "extValue",
                   "write_value">>, "chunk_extension"),
         chunkSize |-> Some(<<"xdigit">>, "chunkSize"),
         main |->
            {<<"Status_Line", "message_headers", "CRLF", "@done">>,
             <<"mark", "chunkSize", "chunk_size", "chunk_extension", ":>chunk", "CRLF", "@done">>}]]
=============================================================================
