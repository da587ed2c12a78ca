SPECIFICATION EditorSpec
CONSTANTS
  Capacity = 2
  EntrySize = 3
  BufferSize = 4
  Width = 2
  Output = {1, 2}
  Char <- MCChar
  Space = " "
  Keys <- MCChar
  Commands <- MCCommands
INVARIANT EditorTypeOK
PROPERTIES ImplementsLog Echo CompletionKeepsChoices
