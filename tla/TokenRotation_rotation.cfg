SPECIFICATION Spec
CONSTANTS
  Processes = {api, scheduler}
  Tokens = {1, 2, 3, 4, 5, 6, 7, 8}
  MaxEvents = 0
  None = None
PROPERTY ConnectsWithStoredToken
