---------------------------- MODULE MCConfigAgent ----------------------------
(* Values for the constants of ConfigAgent. *)
EXTENDS ConfigAgent

good == [decodes |-> TRUE, plugins |-> {"cla"}, badSections |-> {},
         externals |-> {[name |-> "x", endpoint |-> "http://x:1"]}]

\* One valid content with, one without a plugin, the first without the endpoint, and one of each way to be broken.
MCContent == { good,
               [good EXCEPT !.plugins = {}],
               [good EXCEPT !.externals = {[name |-> "x", endpoint |-> ""]}],
               [good EXCEPT !.decodes = FALSE],
               [good EXCEPT !.badSections = {"cla"}],
               [good EXCEPT !.plugins = {"cla", "lgtm"}] }
=============================================================================
