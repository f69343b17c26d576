SPECIFICATION Spec
CONSTANTS
  Devices = {1, 2}
  Folders = {1, 2}
  Schemes = {3}
  Renamable = {1}
  Starts <- StartsDef
  StoreClient <- StoreClientDef
  RunClient <- RunClientDef
PROPERTIES StaysDestroyed
