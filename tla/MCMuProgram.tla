---------------------------- MODULE MCMuProgram -----------------------------
(* Small instances of MuProgram for TLC.                                   *)
EXTENDS MuProgram

CONSTANTS mu1, mu2, p1, p2, p3, alias, missing, relative, md1, md2

\* Two messages in new and cur, one in a directory that is neither.
MCRealPath == p1 :> p1 @@ p2 :> p2 @@ p3 :> p3 @@ alias :> p1 @@ missing :> missing
              @@ relative :> p2

MCSubdir == p1 :> "new" @@ p2 :> "cur" @@ p3 :> "other"

MCMatching == "both" :> {p1, p2} @@ "all" :> {p1, p2, p3} @@ "none" :> {}

Plain(cmd, params) == Line(cmd, params, {}, Null, Null)
FindLinks(query, dir, opts) ==
  Line("find", <<query>>, {"format", "linksdir"} \cup opts, "links", dir)

MCCommandLines ==
  {Plain("none", <<>>), Plain("unknown", <<>>), Plain("help", <<>>),
   Line("add", <<p1>>, {"fields"}, Null, Null),
   Line("mkdir", <<md1>>, {"version"}, Null, Null),
   Plain("add", <<p1, p2>>), Plain("add", <<missing, relative, p1>>),
   Plain("remove", <<alias, p2>>), Plain("remove", <<relative>>),
   Plain("mkdir", <<md1, md2>>),
   Plain("view", <<p1, alias>>), Line("view", <<p1>>, {"format"}, "links", Null),
   FindLinks("both", md1, {}), FindLinks("both", md1, {"clearlinks"}),
   FindLinks("all", md1, {"clearlinks"}), FindLinks("none", md1, {"clearlinks"}),
   Line("find", <<"both">>, {}, Null, Null),
   Line("find", <<"both">>, {"exec"}, Null, Null),
   Line("find", <<"none">>, {"format"}, "xquery", Null),
   Line("find", <<"both">>, {"linksdir", "exec"}, Null, md1)}

MCIndexings == {{p1, p2}, {p1, p2, p3}}

Symmetry == Permutations(Procs)

=============================================================================
