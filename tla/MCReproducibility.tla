------------------------- MODULE MCReproducibility --------------------------
EXTENDS Reproducibility

(* app needs lib at build time and at run time; both are built with tool,  *)
(* and tool with gcc, which a build that finds tool in the cache does not  *)
(* need, and which is not tested itself.                                   *)
MCBuildScope == [e \in {"gcc", "tool", "lib", "app"} |->
                   CASE e = "gcc" -> {} [] e = "tool" -> {"gcc"}
                     [] e = "lib" -> {"tool"} [] e = "app" -> {"tool", "lib"}]
MCRunOrder   == <<"lib", "app">>

Setting(option, files, dir) ==
    [option |-> option, files |-> files,
     dir |-> [f \in {"option", "buildstream.conf", "buildstream1.conf"} |-> dir]]
MCSettings == { [Setting(None, {"buildstream.conf", "buildstream1.conf"}, "home")
                    EXCEPT !.dir["buildstream1.conf"] = "absolute"],
                Setting("--config=", {}, None),
                Setting("-c", {"buildstream1.conf"}, "home") }
=============================================================================
