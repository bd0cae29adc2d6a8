\* Five modules that collide, three nested calls of discover().
CONSTANTS
  Classes <- MCClasses
  NamespaceOf <- MCNamespaceOf
  ToolsOf <- MCToolsOf
  Namespaces = {"Files", "Shell", "Twice", "Web"}
  Tools = {"read", "write", "list", "run", "twice", "fetch"}
  Given = {"Files", "Shell", "Twice"}
  EntryPoints = {"Files2", "Web", "Shell"}
  NeedArguments = {"Web"}
  MaxDiscovers = 3

SPECIFICATION RegistrySpec

INVARIANTS
  MapsSound
  NoneOfAFailed

\* Everything that can be registered has been.
CHECK_DEADLOCK FALSE
