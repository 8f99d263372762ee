----------------------------- MODULE MCProcess -----------------------------
EXTENDS Process

CONSTANTS d, e, h, s   \* names of characters and values

\* Base paths with one separator behind them, two, none; the root.
MCBasePaths == {<<"/", d>>, <<"/", d, "/">>, <<"/", d, "/", "/">>, <<"/">>, <<d>>}
MCFssDir == <<".", s>>
MCFileNames == {<<".", s>>, <<".", s, d>>, <<e>>, <<e, d>>}

Number(n) == [text |-> "number", num |-> n]
Bare(name) == [name |-> name]
With(name, v) == [name |-> name, value |-> v]

Texts == {With("path", <<d>>), With("log_file", h), With("server_addr", e)}
Ports == {With(name, Number(n)) : name \in {"port", "server_port"}, n \in {80, 65537}}

Items ==
  {Bare(name) : name \in {"help", "verbose", "server", "client", "syslog", "unknown", "extra"}}
  \cup Texts \cup Ports
  \cup {With("port", v) : v \in {Number(65536), [text |-> "word", num |-> 0],
                                 [text |-> "empty", num |-> 0]}}
  \cup {With("umask", Number(n)) : n \in {0, 18}}

Server(p) == <<Bare("server"), With("path", p)>>
Client(p) == <<With("path", p), With("server_addr", h)>>

\* A server and a client at each base path; a server with each further item, and
\* with two whose order matters; a client with one.
MCArgvs ==
  {<<>>}
  \cup {Server(p) : p \in MCBasePaths} \cup {Client(p) : p \in MCBasePaths}
  \cup {<<i>> : i \in Items}
  \cup {Append(Client(<<"/", d>>), i) : i \in Items}
  \cup {Server(<<"/", d>>) \o <<i, j>> : i \in Items, j \in Texts \cup {Bare("client")}}
=============================================================================
